---------------------------- MODULE HistAggregates ----------------------------
(***************************************************************************)
(* The at-time and the processed reads (libs/historian/src/Aggregate.cpp): *)
(* a page makes one pass over the raw records of its range, noting for     *)
(* each time it needs a value at, a boundary, the records on either side   *)
(* as the stream passes it, probing outside the range only where the       *)
(* bounds leave that open; a processed read also sorts the records into    *)
(* its intervals.  A record is a time, a status' severity and a number, in *)
(* units fine enough that what is interpolated is one; a result's value is *)
(* a fraction.  Ticks are a signed word of Word values.                    *)
(***************************************************************************)
EXTENDS Integers, Sequences, FiniteSets, SequencesExt, TLC

CONSTANTS Data,        \* the records of each node, in time order, and which are stepped
          Requests,
          Word, DayLength, ReadLimit,
          Text         \* a value that is no number

VARIABLES data, r, next, had, got, phase

vars == <<data, r, next, had, got, phase>>

Earliest == -(Word \div 2)
Latest == Word \div 2 - 1
FirstOf(n, s) == SubSeq(s, 1, IF n < Len(s) THEN n ELSE Len(s))
LastOne(s) == IF s = << >> THEN << >> ELSE <<s[Len(s)]>>
MinOf(S) == CHOOSE x \in S : \A y \in S : x <= y
MaxOf(S) == CHOOSE x \in S : \A y \in S : x >= y

\* The records as the read's configuration classes them.
classify(s) == IF s.status = "Uncertain" /\ r.uncertainBad THEN "Bad" ELSE s.status
Classed(n) == [i \in DOMAIN data.records[n] |-> [class |-> classify(data.records[n][i])] @@ data.records[n][i]]
NotBad(s) == s.class # "Bad"

-----------------------------------------------------------------------------
(* Prober: reads outside the range, of readLimit records at most.          *)

PastFirst(walk) ==
  LET own == {i \in DOMAIN walk : NotBad(walk[i])} IN IF own = {} THEN walk ELSE RemoveAt(walk, MinOf(own))
Walked(rest, count) ==
  [found |-> FirstOf(count, SelectSeq(rest, NotBad)), skippedBad |-> rest # << >> /\ ~NotBad(rest[1]), any |-> rest # << >>]
Back(rs, time, count, atTime, pastFirst) ==
  LET walk == FirstOf(ReadLimit, Reverse(SelectSeq(rs, LAMBDA s : s.time < time \/ (atTime /\ s.time = time))))
  IN Walked(IF pastFirst THEN PastFirst(walk) ELSE walk, count)

Ahead(rest) == [first |-> FirstOf(1, rest), nonBad |-> FirstOf(1, SelectSeq(rest, NotBad))]
Forward(rs, time, atTime) ==
  LET walk == FirstOf(ReadLimit, SelectSeq(rs, LAMBDA s : s.time > time \/ (atTime /\ s.time = time)))
  IN Ahead(IF atTime /\ walk # << >> THEN Tail(walk) ELSE walk)

Exists(rs, time, before) == \E i \in DOMAIN rs : IF before THEN rs[i].time < time ELSE rs[i].time > time

-----------------------------------------------------------------------------
(* Track: a node as one pass sees it.                                      *)

NewBoundary(x) ==
  [time |-> x, at |-> << >>, atAny |-> << >>, badAt |-> FALSE, before |-> << >>, before2 |-> << >>,
   before2Unknown |-> FALSE, beforeAny |-> << >>, badBetweenBefore |-> FALSE, after |-> << >>,
   afterAny |-> << >>, badBetweenAfter |-> FALSE, anyAfter |-> FALSE]
NewTrack(times) ==
  [boundaries |-> [i \in DOMAIN times |-> NewBoundary(times[i])], settled |-> 0, resolved |-> 0, followed |-> 0,
   current |-> << >>, prev |-> << >>, prev2 |-> << >>, prevAny |-> << >>, prev2Unknown |-> FALSE,
   badSincePrev |-> FALSE, firstSeen |-> << >>, lastSeen |-> << >>, closing |-> << >>, opened |-> FALSE,
   anyBefore |-> "unknown", anyAfter |-> "unknown", beforeUnknown |-> FALSE, closingKnown |-> FALSE]
Known(b) == IF b THEN "yes" ELSE "no"

\* The opening bound; after a Bad one the records before are probed for.
Behind(t, found) == [t EXCEPT !.prev = FirstOf(1, found), !.prev2 = SubSeq(found, 2, Len(found))]
Open(t, s, rs) ==
  LET seen == [t EXCEPT !.firstSeen = <<s.time>>, !.lastSeen = <<s.time>>, !.anyBefore = "yes", !.prevAny = <<s>>]
  IN IF NotBad(s) THEN [seen EXCEPT !.prev = <<s>>, !.prev2Unknown = TRUE]
     ELSE IF t.boundaries = << >> THEN [seen EXCEPT !.badSincePrev = TRUE]
     ELSE Behind([seen EXCEPT !.badSincePrev = TRUE], Back(rs, s.time, 2, TRUE, FALSE).found)

\* What lies before a first record at the range's start.
ResolvedBy(t, behind) ==
  Behind([t EXCEPT !.beforeUnknown = FALSE, !.anyBefore = Known(behind.any), !.badSincePrev = @ \/ behind.skippedBad], behind.found)
ResolveBefore(t, rs) == ResolvedBy(t, Back(rs, t.firstSeen[1], 2, FALSE, FALSE))

\* Mutant of FoldOne: the record before the last stays known, whatever lies before the range.
FoldOneKnown(t, s) ==
  IF NotBad(s) THEN [t EXCEPT !.prev2 = t.prev, !.prev2Unknown = FALSE, !.prev = <<s>>, !.badSincePrev = FALSE]
  ELSE [t EXCEPT !.badSincePrev = TRUE]
FoldOne(t, s) ==
  IF NotBad(s) THEN [t EXCEPT !.prev2 = t.prev, !.prev2Unknown = t.prev = << >> /\ t.beforeUnknown, !.prev = <<s>>,
                              !.badSincePrev = FALSE]
  ELSE [t EXCEPT !.badSincePrev = TRUE]
\* fold: the records at the current time into what came before.
FoldCurrent(t) ==
  [FoldLeft(FoldOne, t, t.current) EXCEPT !.prevAny = IF t.current = << >> THEN @ ELSE LastOne(t.current), !.current = << >>]

\* Mutant of NeedsBefore: what lies before a record at the range's start is never probed for.
NeedsBeforeNever(t, x) == FALSE
\* The records before the first are unknown, and none at hand is the bound or the value before it.
NeedsBefore(t, x) ==
  /\ t.beforeUnknown /\ t.prev = << >>
  /\ ~(t.current # << >> /\ t.current[1].time <= x /\ \E j \in DOMAIN t.current : NotBad(t.current[j]))
\* One boundary the stream has passed: t is what came before it, `there` the records at its time.
SettleAt(t, there) ==
  LET i == t.settled + 1
      at == LastOne(SelectSeq(there, NotBad))
      badAt == \E j \in DOMAIN there : ~NotBad(there[j])
  IN [t EXCEPT !.settled = i,
        !.boundaries[i] = [@ EXCEPT !.at = at, !.atAny = LastOne(there), !.badAt = badAt,
                             !.before = t.prev, !.before2 = t.prev2, !.before2Unknown = t.prev2Unknown,
                             !.beforeAny = t.prevAny, !.badBetweenBefore = t.badSincePrev \/ (at = << >> /\ badAt)]]
SettleNext(t, x) ==
  LET current == IF t.current = << >> THEN << >> ELSE <<t.current[1].time>>
  IN SettleAt(IF current # << >> /\ current[1] < x THEN FoldCurrent(t) ELSE t, IF current = <<x>> THEN t.current ELSE << >>)
SettleBefore(t, x, rs) == SettleNext(IF NeedsBefore(t, x) THEN ResolveBefore(t, rs) ELSE t, x)
Settle(t, rs) == SettleBefore(t, t.boundaries[t.settled + 1].time, rs)

\* advance: each boundary before upTo settled.
FoldPassed(t, upTo) == IF t.current # << >> /\ t.current[1].time < upTo THEN FoldCurrent(t) ELSE t
Advance(t, upTo, rs) ==
  LET passed == SelectSeq(t.boundaries, LAMBDA b : b.time < upTo)
  IN FoldPassed(FoldLeft(LAMBDA v, b : Settle(v, rs), t, SubSeq(passed, t.settled + 1, Len(passed))), upTo)

\* Mutant of AfterOf: a Bad record hides the ones after it.
AfterOfAny(t, s) ==
  [t EXCEPT !.followed = t.settled, !.resolved = t.settled,
     !.boundaries = [i \in DOMAIN t.boundaries |->
        IF i \in (t.followed + 1)..t.settled
        THEN [t.boundaries[i] EXCEPT !.anyAfter = TRUE, !.afterAny = <<s>>, !.badBetweenAfter = ~NotBad(s),
                                     !.after = IF NotBad(s) THEN <<s>> ELSE << >>]
        ELSE t.boundaries[i]]]
\* afterOf: s comes after every settled boundary.
AfterOf(t, s) ==
  LET followed(i) == i \in (t.followed + 1)..t.settled
      resolved(i) == i \in (t.resolved + 1)..t.settled /\ NotBad(s)
      after(i) == [t.boundaries[i] EXCEPT !.anyAfter = @ \/ followed(i), !.afterAny = IF followed(i) THEN <<s>> ELSE @,
                     !.badBetweenAfter = IF followed(i) THEN ~NotBad(s) ELSE @, !.after = IF resolved(i) THEN <<s>> ELSE @]
  IN [t EXCEPT !.followed = t.settled, !.resolved = IF NotBad(s) THEN t.settled ELSE @,
               !.boundaries = [i \in DOMAIN t.boundaries |-> after(i)]]

FeedSeen(t, s, rs) ==
  [AfterOf(IF t.current = << >> \/ t.current[1].time # s.time THEN Advance(t, s.time, rs) ELSE t, s) EXCEPT !.current = Append(@, s)]
Feed(t, s, rs) == FeedSeen([t EXCEPT !.firstSeen = IF @ = << >> THEN <<s.time>> ELSE @, !.lastSeen = <<s.time>>], s, rs)

AfterEach(t, ss) == FoldLeft(AfterOf, t, ss)
ThroughEnd(t, rs) == AfterEach(Advance(t, Latest + 1, rs), t.closing)
AfterAhead(t, ahead) ==
  AfterEach([t EXCEPT !.anyAfter = IF t.closingKnown THEN @ ELSE Known(ahead.first # << >>)],
            ahead.first \o (IF ahead.first # << >> /\ ~NotBad(ahead.first[1]) THEN ahead.nonBad ELSE << >>))
\* Mutant of FinishAt: a last record at the range's end is taken for the last of all.
FinishAtKnown(t, rs) ==
  IF t.closing = << >> \/ (t.closing # << >> /\ NotBad(t.closing[1])) \/ t.resolved = t.settled THEN t
  ELSE AfterAhead(t, Forward(rs, t.closing[1].time, TRUE))
\* finish: the closing bound, and past it what a boundary still needs.
FinishAt(t, rs) ==
  LET closes == t.closing # << >>
      unknown == IF closes THEN ~NotBad(t.closing[1]) ELSE ~t.closingKnown /\ t.lastSeen # << >>
  IN IF ~unknown \/ t.resolved = t.settled THEN t
     ELSE AfterAhead(t, Forward(rs, IF closes THEN t.closing[1].time ELSE t.lastSeen[1], closes))
Finish(t, rs) == FinishAt(ThroughEnd(t, rs), rs)

-----------------------------------------------------------------------------
(* pass: the records of [a, b] as Read serves them, a bound at either end  *)
(* for a node with no record there.                                        *)

Item(bound, s) == [bound |-> bound, seen |-> s]
InRange(rs, a, b) == SelectSeq(rs, LAMBDA s : s.time >= a /\ s.time <= b)
RawRead(rs, a, b) ==
  LET isAt(x) == \E i \in DOMAIN rs : rs[i].time = x
      bound(s) == <<Item(TRUE, s)>>
  IN (IF isAt(a) THEN << >> ELSE bound(LastOne(SelectSeq(rs, LAMBDA s : s.time < a))))
       \o [i \in DOMAIN InRange(rs, a, b) |-> Item(FALSE, <<InRange(rs, a, b)[i]>>)]
       \o (IF isAt(b) THEN << >> ELSE bound(FirstOf(1, SelectSeq(rs, LAMBDA s : s.time > b))))

PassTake(t, item, rs, b) ==
  LET found == item.seen # << >>
      s == item.seen[1]
      o == [t EXCEPT !.opened = TRUE]
  IN IF ~item.bound THEN Feed([o EXCEPT !.beforeUnknown = @ \/ ~t.opened], s, rs)
     ELSE IF ~t.opened /\ ~(found /\ s.time > b) THEN IF found THEN Open(o, s, rs) ELSE [o EXCEPT !.anyBefore = "no"]
     ELSE [t EXCEPT !.closingKnown = TRUE, !.anyAfter = Known(found), !.closing = item.seen]

PassEnd(t, rs, b) == Finish([t EXCEPT !.anyAfter = IF ~t.closingKnown /\ t.lastSeen # <<b>> THEN "no" ELSE @], rs)
Pass(rs, a, b, times) ==
  PassEnd(FoldLeft(LAMBDA u, item : PassTake(u, item, rs, b), NewTrack(times), RawRead(rs, a, b)), rs, b)

-----------------------------------------------------------------------------
(* Bounding values.                                                        *)

IsNumber(v) == v # Text
Fraction(v) == <<v, 1>>
NoValue == << >>
Bound(value, status, raw, extrapolated) == [value |-> value, status |-> status, raw |-> raw, extrapolated |-> extrapolated]
RawOf(s) == Bound(Fraction(s.value), s.status, TRUE, FALSE) @@ [time |-> s.time]
Missing == Bound(NoValue, "NoData", FALSE, FALSE)
Stepped(s, status, extrapolated) == Bound(Fraction(s.value), status, FALSE, extrapolated)
Line(p, q, x) == p.value + ((q.value - p.value) * (x - p.time)) \div (q.time - p.time)
Unsure(u) == IF u THEN "SubNormal" ELSE "Good"

\* interpolated: from the nearest non-Bad records.
Extrapolated(before, before2, x) ==
  IF r.sloped /\ before2 # << >> /\ before2[1].time < before.time /\ IsNumber(before2[1].value)
  THEN Bound(Fraction(Line(before2[1], before, x)), "SubNormal", FALSE, TRUE)
  ELSE Stepped(before, "SubNormal", TRUE)
Interpolated(b, stepped, rs) ==
  LET before == b.before[1]
      after == b.after[1]
      unsure == b.badBetweenBefore \/ before.class = "Uncertain"
      unsureAfter == unsure \/ b.badAt \/ b.badBetweenAfter \/ after.class = "Uncertain"
  IN IF b.at # << >> THEN RawOf(b.at[1])
     ELSE IF b.before = << >> THEN Missing
     ELSE IF stepped \/ ~IsNumber(before.value) THEN Stepped(before, Unsure(~b.anyAfter \/ unsure), ~b.anyAfter)
     ELSE IF b.after = << >>
     THEN Extrapolated(before, IF b.before2Unknown THEN Back(rs, before.time, 1, TRUE, TRUE).found ELSE b.before2, b.time)
     ELSE IF ~IsNumber(after.value) THEN Stepped(before, Unsure(unsureAfter), FALSE)
     ELSE Bound(Fraction(Line(before, after, b.time)), Unsure(unsureAfter), FALSE, FALSE)

\* simple: from the nearest records, whatever their status.
Simple(b, stepped) ==
  LET before == b.beforeAny[1]
      after == b.afterAny[1]
  IN CASE b.atAny # << >> -> IF NotBad(b.atAny[1]) THEN RawOf(b.atAny[1]) ELSE Missing
       [] b.atAny = << >> /\ (b.beforeAny = << >> \/ ~NotBad(before)) -> Missing
       [] b.atAny = << >> /\ ~(b.beforeAny = << >> \/ ~NotBad(before)) ->
            IF stepped \/ ~IsNumber(before.value)
            THEN Stepped(before, Unsure(~b.anyAfter \/ before.class = "Uncertain"), ~b.anyAfter)
            ELSE IF b.afterAny = << >> THEN Stepped(before, "SubNormal", TRUE)
            ELSE IF ~NotBad(after) THEN Stepped(before, "SubNormal", FALSE)
            ELSE IF ~IsNumber(after.value) THEN Stepped(before, Unsure("Uncertain" \in {before.class, after.class}), FALSE)
            ELSE Bound(Fraction(Line(before, after, b.time)), Unsure("Uncertain" \in {before.class, after.class}), FALSE, FALSE)

\* result: a raw record as it is, with the Partial and MultiValue bits, or a computed value at ts.
Result(ts, b, bits) ==
  IF b.raw THEN [ts |-> b.time, value |-> b.value, status |-> b.status, bits |-> bits \cap {"Partial", "MultiValue"}]
  ELSE [ts |-> ts, value |-> b.value, status |-> b.status, bits |-> IF b.status = "NoData" THEN {} ELSE bits]
NoData(ts) == Result(ts, Missing, {})
Refusal(ts, status) == Result(ts, Bound(NoValue, status, FALSE, FALSE), {})

-----------------------------------------------------------------------------
(* Intervals, in the unsigned words their arithmetic is done in.           *)

ticksBetween(from, to) == (to - from) % Word
Ticks(u) == LET w == u % Word IN IF w > Latest THEN w - Word ELSE w
IsReverse == r.start > r.end
RangeTicks == IF IsReverse THEN ticksBetween(r.end, r.start) ELSE ticksBetween(r.start, r.end)
Width == IF r.interval <= 0 \/ r.interval >= RangeTicks THEN RangeTicks ELSE r.interval
Count == RangeTicks \div Width + (IF RangeTicks % Width # 0 THEN 1 ELSE 0)
intervalAt(offset, width, uneven) ==
  LET hi == Ticks(r.start - offset)
      lo == Ticks(r.start + offset)
      whole == RangeTicks - offset > width
  IN IF IsReverse THEN [lo |-> IF whole THEN Ticks(hi - width) ELSE r.end, hi |-> hi, ts |-> hi, uneven |-> uneven]
     ELSE [lo |-> lo, hi |-> IF whole THEN Ticks(lo + width) ELSE r.end, ts |-> lo, uneven |-> uneven]
intervalOf(k) == intervalAt(k * Width, Width, k + 1 = Count /\ RangeTicks % Width # 0)

\* Mutant of slotOf: a reversed read's intervals hold their earlier end.
slotOfEarlier(x) ==
  IF IsReverse THEN IF x >= r.start \/ x < r.end THEN Count ELSE ticksBetween(x + 1, r.start) \div Width
  ELSE IF x < r.start \/ x >= r.end THEN Count ELSE ticksBetween(r.start, x) \div Width
\* A record's interval; Count for one in none.
slotOf(x) ==
  IF IsReverse THEN IF x > r.start \/ x <= r.end THEN Count ELSE ticksBetween(x, r.start) \div Width
  ELSE IF x < r.start \/ x >= r.end THEN Count ELSE ticksBetween(r.start, x) \div Width

(* Bucket: an interval's records of one node, as its aggregate needs them. *)

NewBucket == [count |-> 0, good |-> 0, bad |-> 0, uncertain |-> 0, nonNumeric |-> FALSE, sum |-> 0, mean |-> 0, m2 |-> 0,
              values |-> << >>, points |-> << >>, extreme |-> << >>, extremes |-> 0, first |-> << >>, last |-> << >>]
Beyond(v, w) == IF r.aggregate = "Minimum" THEN v < w ELSE v > w
\* Mutant of TakeGood: the mean moves before the difference is taken.
TakeGoodMoved(b, s) ==
  LET n == b.good + 1
      mean == b.mean + (s.value - b.mean) \div n
      isNew == b.extreme = << >> \/ Beyond(s.value, b.extreme[1].value)
  IN [b EXCEPT !.good = n, !.sum = @ + s.value, !.mean = mean, !.m2 = @ + (s.value - mean) * (s.value - mean),
               !.values = Append(@, s.value), !.extreme = IF isNew THEN <<s>> ELSE @,
               !.extremes = IF isNew THEN 1 ELSE IF s.value = b.extreme[1].value THEN @ + 1 ELSE @]
\* A Good number: the sums, Welford's mean and squares, the median's values, the extreme and how many share it.
TakeGood(b, s) ==
  LET n == b.good + 1
      delta == s.value - b.mean
      mean == b.mean + delta \div n
      isNew == b.extreme = << >> \/ Beyond(s.value, b.extreme[1].value)
  IN [b EXCEPT !.good = n, !.sum = @ + s.value, !.mean = mean, !.m2 = @ + delta * (s.value - mean),
               !.values = Append(@, s.value), !.extreme = IF isNew THEN <<s>> ELSE @,
               !.extremes = IF isNew THEN 1 ELSE IF s.value = b.extreme[1].value THEN @ + 1 ELSE @]
TakeClass(b, s) ==
  CASE s.class = "Bad" -> [b EXCEPT !.bad = @ + 1]
    [] s.class = "Uncertain" -> [b EXCEPT !.uncertain = @ + 1]
    [] s.class = "Good" ->
         IF r.aggregate \in {"Count", "Start", "End", "Interpolative", "TimeAverage"} THEN [b EXCEPT !.good = @ + 1]
         ELSE IF ~IsNumber(s.value) THEN [b EXCEPT !.good = @ + 1, !.nonNumeric = TRUE]
         ELSE TakeGood(b, s)
TakePoint(b, s) ==
  IF r.aggregate # "TimeAverage" \/ ~NotBad(s) THEN b
  ELSE IF IsNumber(s.value) THEN [b EXCEPT !.points = Append(@, s)] ELSE [b EXCEPT !.nonNumeric = TRUE]
Take(b, s) ==
  TakeClass(TakePoint([b EXCEPT !.count = @ + 1, !.first = IF @ = << >> THEN <<s>> ELSE @, !.last = <<s>>], s), s)
Bucket(rs, a, b, k) == FoldLeft(Take, NewBucket, SelectSeq(InRange(rs, a, b), LAMBDA s : slotOf(s.time) = k))

byCounts(b) ==
  LET goodEnough == b.good * 100 >= r.percentGood * b.count
      badEnough == b.bad * 100 >= r.percentBad * b.count
  IN IF r.percentGood = 100 - r.percentBad THEN IF goodEnough THEN "Good" ELSE IF badEnough THEN "Bad" ELSE "SubNormal"
     ELSE IF badEnough THEN "Bad" ELSE IF goodEnough THEN "Good" ELSE "SubNormal"

-----------------------------------------------------------------------------
(* Finishing: an interval's value.                                         *)

\* Mutant of DataBefore: a reversed interval holds its earlier end.
DataBeforeOpen(t, iv, rs) ==
  \/ t.firstSeen # << >> /\ t.firstSeen[1] < iv.lo
  \/ IF t.anyBefore # "unknown" THEN t.anyBefore = "yes" ELSE t.firstSeen # << >> /\ Exists(rs, t.firstSeen[1], TRUE)
DataBefore(t, iv, rs) ==
  \/ t.firstSeen # << >> /\ (t.firstSeen[1] < iv.lo \/ (IsReverse /\ t.firstSeen[1] = iv.lo))
  \/ IF t.anyBefore # "unknown" THEN t.anyBefore = "yes" ELSE t.firstSeen # << >> /\ Exists(rs, t.firstSeen[1], TRUE)
DataAfter(t, iv, rs) ==
  \/ t.lastSeen # << >> /\ (t.lastSeen[1] > iv.hi \/ (~IsReverse /\ t.lastSeen[1] = iv.hi))
  \/ IF t.anyAfter # "unknown" THEN t.anyAfter = "yes" ELSE t.lastSeen # << >> /\ Exists(rs, t.lastSeen[1], FALSE)
Partial(t, iv, b, rs) ==
  IF b.count > 0 /\ (~DataBefore(t, iv, rs) \/ ~DataAfter(t, iv, rs) \/ iv.uneven) THEN {"Partial"} ELSE {}

BoundaryAt(t, x) == CHOOSE b \in {t.boundaries[j] : j \in DOMAIN t.boundaries} : b.time = x
BoundAt(t, x, stepped, rs) == Interpolated(BoundaryAt(t, x), stepped, rs)
Sorted(s) == SortSeq(s, LAMBDA x, y : x < y)
Median(s) == LET v == Sorted(s) n == Len(s) IN
  IF n % 2 = 0 THEN <<v[n \div 2] + v[n \div 2 + 1], 2>> ELSE <<2 * v[n \div 2 + 1], 2>>

\* Twice the area under the line through the points.
TwiceArea(line) ==
  FoldLeft(LAMBDA area, i : area + (line[i - 1].value + line[i].value) * (line[i].time - line[i - 1].time), 0,
           [i \in 1..(Len(line) - 1) |-> i + 1])
\* Mutant of TimeBounds: stepped, as a node may be.
TimeBoundsStepped(t, iv, rs) == <<BoundAt(t, iv.lo, TRUE, rs), BoundAt(t, iv.hi, TRUE, rs)>>
\* The interval's bounds, sloped whatever the node says.
TimeBounds(t, iv, rs) == <<BoundAt(t, iv.lo, FALSE, rs), BoundAt(t, iv.hi, FALSE, rs)>>
\* The line from the start bound, or from the first record when there is none, to the end bound.
TimeLine(iv, b, start, end) ==
  LET point(x, value) == [time |-> x, value |-> value]
  IN (IF start.status = "NoData" THEN << >> ELSE <<point(iv.lo, start.value[1])>>)
       \o [i \in DOMAIN b.points |-> point(b.points[i].time, b.points[i].value)] \o <<point(iv.hi, end.value[1])>>
LineAverage(iv, line) ==
  IF iv.hi > line[1].time THEN <<TwiceArea(line), 2 * (iv.hi - line[1].time)>> ELSE <<2 * line[1].value, 2>>
AverageBetween(iv, b, start, end) ==
  LET noStart == start.status = "NoData"
      unsure == noStart \/ start.status # "Good" \/ end.status # "Good" \/ b.bad > 0 \/ b.uncertain > 0
  IN IF b.nonNumeric THEN Refusal(iv.ts, "InvalidInputs")
     ELSE IF b.points = << >> /\ (noStart \/ end.extrapolated) THEN NoData(iv.ts)
     ELSE IF (~noStart /\ ~IsNumber(start.value[1])) \/ end.value = NoValue \/ ~IsNumber(end.value[1]) THEN Refusal(iv.ts, "InvalidInputs")
     ELSE Result(iv.ts, Bound(LineAverage(iv, TimeLine(iv, b, start, end)), Unsure(unsure), FALSE, FALSE),
                 {"Calculated"} \cup (IF noStart \/ end.extrapolated \/ iv.uneven THEN {"Partial"} ELSE {}))
AverageOf(iv, b, bounds) == AverageBetween(iv, b, bounds[1], bounds[2])
TimeAverage(t, iv, b, rs) == AverageOf(iv, b, TimeBounds(t, iv, rs))

Finished(t, iv, b, rs, stepped) ==
  LET agg == r.aggregate
      calculated(value, status, bits) == Result(iv.ts, Bound(value, status, FALSE, FALSE), {"Calculated"} \cup bits)
      raw(s, bits) == Result(iv.ts, RawOf(s), bits)
      partial == Partial(t, iv, b, rs)
      ex == b.extreme[1]
      multi == IF b.extremes > 1 THEN {"MultiValue"} ELSE {}
  IN CASE agg = "Interpolative" -> Result(iv.ts, BoundAt(t, iv.ts, stepped, rs), {"Interpolated"})
       [] agg = "TimeAverage" -> TimeAverage(t, iv, b, rs)
       [] agg = "Count" ->
            IF b.count = 0 THEN NoData(iv.ts) ELSE IF byCounts(b) = "Bad" THEN Refusal(iv.ts, "Bad")
            ELSE calculated(Fraction(b.good), byCounts(b), partial)
       [] agg \in {"Start", "End"} ->
            IF b.count = 0 THEN NoData(iv.ts) ELSE raw(IF agg = "Start" THEN b.first[1] ELSE b.last[1], partial)
       [] agg \in {"Average", "Minimum", "Maximum", "StandardDeviationSample", "Median"} ->
            IF b.good = 0 THEN NoData(iv.ts) ELSE IF b.nonNumeric THEN Refusal(iv.ts, "InvalidInputs")
            ELSE CASE agg = "Average" ->
                        IF byCounts(b) = "Bad" THEN Refusal(iv.ts, "Bad") ELSE calculated(<<b.sum, b.good>>, byCounts(b), {})
                   [] agg \in {"Minimum", "Maximum"} ->
                        IF b.bad = 0 /\ ex.time = iv.ts THEN raw(ex, multi \cup partial)
                        ELSE calculated(Fraction(ex.value), Unsure(b.bad > 0), multi \cup partial)
                   [] agg = "StandardDeviationSample" ->
                        calculated(IF b.good = 1 THEN <<0, 1>> ELSE <<b.m2, b.good - 1>>, Unsure(b.count > b.good), partial)
                   [] agg = "Median" -> calculated(Median(b.values), Unsure(b.count > b.good), partial)

-----------------------------------------------------------------------------
(* Paging: next, and what the pages before returned of it, had.            *)

N == Len(r.nodes)
Limit == IF r.limit > 0 /\ r.limit < ReadLimit THEN r.limit ELSE ReadLimit
Total == IF r.mode = "at" THEN Len(r.times) ELSE Count
TimeOf(i) == IF r.mode = "at" THEN r.times[i + 1] ELSE intervalOf(i).ts
DayOf(x) == x \div DayLength
\* The last time or interval the page reaches.
LastFull ==
  LET full == {i \in next..(Total - 1) : (i - next + 1) * N - Cardinality(had) >= Limit}
  IN IF full = {} THEN Total - 1 ELSE MinOf(full)
LastOfDay(last) ==
  LET past == {i \in (next + 1)..last : DayOf(TimeOf(i)) # DayOf(TimeOf(next))}
  IN IF past = {} THEN last ELSE MinOf(past) - 1
PageLast == IF r.oneDay THEN LastOfDay(LastFull) ELSE LastFull

\* ReadAtTime's value: of the pass over the page's times that fall on its day.
AtBoundary(b, x, stepped, rs) == Result(x, IF r.simple THEN Simple(b, stepped) ELSE Interpolated(b, stepped, rs), {"Interpolated"})
AtTimeIn(rs, segment, x, stepped) ==
  AtBoundary(BoundaryAt(Pass(rs, MinOf(segment), MaxOf(segment), SetToSortSeq(segment, <)), x), x, stepped, rs)
AtTime(n, x, last) ==
  AtTimeIn(Classed(n), {y \in {r.times[i + 1] : i \in next..last} : DayOf(y) = DayOf(x)}, x, n \in data.stepped)

\* ReadProcessed's value: of the pass over the page's intervals.
Ends(iv) == IF r.aggregate = "TimeAverage" THEN {iv.lo, iv.hi} ELSE IF r.aggregate = "Interpolative" THEN {iv.ts} ELSE {}
ProcessedBetween(rs, ivs, a, b, k, stepped) ==
  Finished(Pass(rs, a, b, SetToSortSeq(UNION {Ends(iv) : iv \in ivs}, <)), intervalOf(k), Bucket(rs, a, b, k), rs, stepped)
ProcessedIn(rs, ivs, k, stepped) ==
  ProcessedBetween(rs, ivs, MinOf({iv.lo : iv \in ivs}), MaxOf({iv.hi : iv \in ivs}), k, stepped)
Processed(n, k, last) == ProcessedIn(Classed(n), {intervalOf(j) : j \in next..last}, k, n \in data.stepped)

Value(i, slot, last) == IF r.mode = "at" THEN AtTime(r.nodes[slot], r.times[i + 1], last) ELSE Processed(r.nodes[slot], i, last)

\* The places of [next, last] the page may emit, in order.
Places(last) == SelectSeq([j \in 1..((last - next + 1) * N) |-> <<next + (j - 1) \div N, 1 + ((j - 1) % N)>>],
                          LAMBDA p : ~(p[1] = next /\ p[2] \in had))

\* validate, and ReadProcessed's own refusals.
Valid ==
  /\ r.percentBad <= 100 /\ r.percentGood <= 100 /\ r.percentGood >= 100 - r.percentBad
  /\ r.mode = "processed" => r.start # r.end /\ r.interval >= 0
Init ==
  /\ data \in Data /\ r \in Requests /\ next = 0 /\ had = {} /\ got = << >> /\ phase = "reads"

\* The continuation: at the cut, inside a time's or an interval's nodes, or after the last the page reached.
Resumes(last) ==
  IF last + 1 < Total THEN next' = last + 1 /\ had' = {} /\ UNCHANGED phase ELSE phase' = "done" /\ UNCHANGED <<next, had>>
\* Mutant of ContinueAfter: a page cut inside a time resumes after it.
ContinueAfterTime(places, last) == Resumes(last)
ContinueAfter(places, last) ==
  IF Len(places) > Limit
  THEN LET cut == places[Limit + 1] IN next' = cut[1] /\ had' = 1..(cut[2] - 1) /\ UNCHANGED phase
  ELSE Resumes(last)
\* A page: its values, and the continuation at the cut.
Page ==
  /\ phase = "reads" /\ Valid
  /\ \E last \in {PageLast} : \E places \in {Places(last)} :
       /\ got' = Append(got, [j \in 1..MinOf({Limit, Len(places)}) |-> Value(places[j][1], places[j][2], last)])
       /\ ContinueAfter(places, last)
  /\ UNCHANGED <<data, r>>

Refuses == phase = "reads" /\ ~Valid /\ phase' = "refused" /\ UNCHANGED <<data, r, next, had, got>>

Next == Page \/ Refuses
Spec == Init /\ [][Next]_vars

-----------------------------------------------------------------------------
(* The reference: each value from all of the node's records at once.       *)

Indexes(rs, P(_)) == {i \in DOMAIN rs : P(rs[i])}
RefInterpolated(rs, x, stepped) ==
  LET at == Indexes(rs, LAMBDA s : s.time = x /\ NotBad(s))
      befores == Indexes(rs, LAMBDA s : s.time < x /\ NotBad(s))
      afters == Indexes(rs, LAMBDA s : s.time > x /\ NotBad(s))
      p == rs[MaxOf(befores)]
      q == rs[MinOf(afters)]
      o == rs[MaxOf(befores \ {MaxOf(befores)})]
      over == ~\E i \in DOMAIN rs : rs[i].time > x
      badBefore == \E i \in DOMAIN rs : i > MaxOf(befores) /\ rs[i].time <= x /\ ~NotBad(rs[i])
      badAfter == \E i \in DOMAIN rs : i < MinOf(afters) /\ rs[i].time > x /\ ~NotBad(rs[i])
      used(S) == Unsure(badBefore \/ \E s \in S : s.class = "Uncertain")
      slopes == r.sloped /\ Cardinality(befores) > 1 /\ o.time < p.time /\ IsNumber(o.value)
  IN IF at # {} THEN RawOf(rs[MaxOf(at)])
     ELSE IF befores = {} THEN Missing
     ELSE IF stepped \/ ~IsNumber(p.value) THEN Stepped(p, IF over THEN "SubNormal" ELSE used({p}), over)
     ELSE IF afters = {} THEN IF slopes THEN Bound(Fraction(Line(o, p, x)), "SubNormal", FALSE, TRUE)
                              ELSE Stepped(p, "SubNormal", TRUE)
     ELSE IF ~IsNumber(q.value) THEN Stepped(p, IF badAfter THEN "SubNormal" ELSE used({p, q}), FALSE)
     ELSE Bound(Fraction(Line(p, q, x)), IF badAfter THEN "SubNormal" ELSE used({p, q}), FALSE, FALSE)

RefSimple(rs, x, stepped) ==
  LET at == Indexes(rs, LAMBDA s : s.time = x)
      befores == Indexes(rs, LAMBDA s : s.time < x)
      afters == Indexes(rs, LAMBDA s : s.time > x)
      p == rs[MaxOf(befores)]
      q == rs[MinOf(afters)]
      onLine == afters # {} /\ NotBad(q) /\ IsNumber(q.value) /\ IsNumber(p.value) /\ ~stepped
      sure == /\ afters # {} /\ p.class = "Good"
              /\ stepped \/ ~IsNumber(p.value) \/ q.class = "Good"
  IN IF at # {} THEN IF NotBad(rs[MaxOf(at)]) THEN RawOf(rs[MaxOf(at)]) ELSE Missing
     ELSE IF befores = {} \/ ~NotBad(p) THEN Missing
     ELSE Bound(Fraction(IF onLine THEN Line(p, q, x) ELSE p.value), Unsure(~sure), FALSE, afters = {})

\* Interval k: forward it holds its earlier end, in a reversed read its later one.
RefEnds(k) ==
  LET len == IF r.start < r.end THEN r.end - r.start ELSE r.start - r.end
      w == IF r.interval = 0 \/ r.interval > len THEN len ELSE r.interval
  IN IF r.start < r.end THEN <<r.start + k * w, MinOf({r.start + (k + 1) * w, r.end})>>
     ELSE <<MaxOf({r.start - (k + 1) * w, r.end}), r.start - k * w>>
InInterval(x, k) == IF r.start < r.end THEN RefEnds(k)[1] <= x /\ x < RefEnds(k)[2] ELSE RefEnds(k)[1] < x /\ x <= RefEnds(k)[2]
RefTs(k) == IF r.start < r.end THEN RefEnds(k)[1] ELSE RefEnds(k)[2]
SumOver(S, f(_)) == FoldLeft(LAMBDA x, y : x + f(y), 0, SetToSeq(S))

\* A value v, Calculated with a status and bits.
IsCalculated(v, value, status, bits) == v.value = value /\ v.status = status /\ v.bits = bits \cup {"Calculated"}
\* Of the Good records' values, and of all the interval's.
RefPartial(rs, in, k) ==
  IF /\ \E i \in DOMAIN rs : i < MinOf(in)
     /\ \E i \in DOMAIN rs : i > MaxOf(in)
     /\ RefEnds(k)[2] - RefEnds(k)[1] = RefEnds(0)[2] - RefEnds(0)[1] THEN {} ELSE {"Partial"}
RefCounted(all, good, bad) ==
  LET isGood == 100 * good >= r.percentGood * all
  IN IF 100 * bad >= r.percentBad * all /\ ~(isGood /\ r.percentGood + r.percentBad = 100) THEN "Bad" ELSE Unsure(~isGood)
IsRaw(v, s, bits) == v = [ts |-> s.time, value |-> <<s.value, 1>>, status |-> s.status, bits |-> bits]
IsRefExtreme(v, rs, extremes, k, clean, partial) ==
  LET ex == rs[MinOf(extremes)]
      multi == IF Cardinality(extremes) > 1 THEN {"MultiValue"} ELSE {}
  IN IF ex.time = RefTs(k) /\ clean THEN IsRaw(v, ex, multi \cup partial)
     ELSE IsCalculated(v, <<ex.value, 1>>, Unsure(~clean), multi \cup partial)
IsRefDeviation(v, n, sum, squares) ==
  IF n = 1 THEN v.value[1] = 0 ELSE v.value[2] = n - 1 /\ n * v.value[1] = n * squares - sum * sum
IsRefMedian(v, middle, status, partial) == IsCalculated(v, <<MinOf(middle) + MaxOf(middle), 2>>, status, partial)
IsRefOf(v, rs, k, in, good, counted, clean, partial) ==
  LET value(i) == rs[i].value
      n == Cardinality(good)
      plain == r.aggregate \in {"Count", "Start", "End"}
  IN IF (IF plain THEN in ELSE good) = {} THEN v = NoData(RefTs(k))
     ELSE IF ~plain /\ \E i \in good : ~IsNumber(value(i)) THEN v.status = "InvalidInputs"
     ELSE CASE r.aggregate = "Start" -> IsRaw(v, rs[MinOf(in)], partial)
            [] r.aggregate = "End" -> IsRaw(v, rs[MaxOf(in)], partial)
            [] r.aggregate = "Count" -> IF counted = "Bad" THEN v.status = "Bad" ELSE IsCalculated(v, <<n, 1>>, counted, partial)
            [] r.aggregate = "Average" ->
                 IF counted = "Bad" THEN v.status = "Bad" ELSE IsCalculated(v, <<SumOver(good, value), n>>, counted, {})
            [] r.aggregate \in {"Minimum", "Maximum"} ->
                 IsRefExtreme(v, rs, {i \in good : \A j \in good : IF r.aggregate = "Minimum" THEN value(i) <= value(j)
                                                                   ELSE value(i) >= value(j)}, k, clean, partial)
            [] r.aggregate = "StandardDeviationSample" ->
                 /\ v.status = Unsure(in # good) /\ v.bits = {"Calculated"} \cup partial
                 /\ IsRefDeviation(v, n, SumOver(good, value), SumOver(good, LAMBDA i : value(i) * value(i)))
            [] r.aggregate = "Median" ->
                 \* No more than half of the values lie on one side of the median.
                 IsRefMedian(v, {value(i) : i \in {i \in good : /\ 2 * Cardinality({j \in good : value(j) < value(i)}) <= n
                                                                /\ 2 * Cardinality({j \in good : value(j) > value(i)}) <= n}},
                             Unsure(in # good), partial)
IsRefIn(v, rs, k, in, good, bad) ==
  IsRefOf(v, rs, k, in, good, RefCounted(Cardinality(in), Cardinality(good), Cardinality(bad)), bad = {}, RefPartial(rs, in, k))
IsRefInterval(v, rs, k, in) == IsRefIn(v, rs, k, in, {i \in in : rs[i].class = "Good"}, {i \in in : rs[i].class = "Bad"})
IsRefAggregate(v, rs, k) == IsRefInterval(v, rs, k, Indexes(rs, LAMBDA s : InInterval(s.time, k)))

\* The values returned, and each one's place.
Values == FlattenSeq(got)
Place(j) == <<(j - 1) \div N, 1 + ((j - 1) % N)>>
RecordsAt(j) == Classed(r.nodes[Place(j)[2]])
SteppedAt(j) == r.nodes[Place(j)[2]] \in data.stepped

TypeOK ==
  /\ phase \in {"reads", "done", "refused"} /\ \A j \in DOMAIN got : got[j] # << >>
  /\ (phase # "refused" /\ Valid) => next \in 0..(Total - 1) /\ had \subseteq 1..(N - 1)

\* ReadAtTime and the Interpolative aggregate: the pass, its bounds and its probes find at each time what all of the
\* node's records say of it, wherever the page's range begins and ends (interpolated, simple, open, advance, finish).
BoundsAreTheNearest ==
  r.mode = "at" \/ r.aggregate = "Interpolative" =>
    \A j \in DOMAIN Values :
      LET x == IF r.mode = "at" THEN r.times[Place(j)[1] + 1] ELSE RefTs(Place(j)[1])
          bound == IF r.mode = "at" /\ r.simple THEN RefSimple(RecordsAt(j), x, SteppedAt(j))
                   ELSE RefInterpolated(RecordsAt(j), x, SteppedAt(j))
      IN Values[j] = Result(x, bound, {"Interpolated"})

\* ReadProcessed: each interval's value is that of the records in it, and its Partial bit says whether the node's data
\* begins or ends in it, whatever pages the intervals came in (Bucket, slotOf, DataBefore, DataAfter).
AggregatesAreTheRecords ==
  r.mode = "processed" /\ r.aggregate \notin {"Interpolative", "TimeAverage"} =>
    \A j \in DOMAIN Values : IsRefAggregate(Values[j], RecordsAt(j), Place(j)[1])

\* TimeAverage: over intervals whose bounds are known, none with two records at an end, the areas add up to that under
\* the whole range's line.
AreasAddUp ==
  LET whole(n) == LET rs == Classed(n)
                      lo == MinOf({r.start, r.end})
                      hi == MaxOf({r.start, r.end})
                      point(x) == [time |-> x, value |-> RefInterpolated(rs, x, FALSE).value[1]]
                  IN TwiceArea(<<point(lo)>> \o SelectSeq(InRange(rs, lo, hi), NotBad) \o <<point(hi)>>)
  IN (phase = "done" /\ r.mode = "processed" /\ r.aggregate = "TimeAverage") =>
       \A slot \in 1..N :
         LET mine == {j \in DOMAIN Values : Place(j)[2] = slot}
             area(j) == Values[j].value[1]
             rs == Classed(r.nodes[slot])
             once == \A i, j \in DOMAIN rs : (i < j /\ rs[i].time = rs[j].time) => \A k \in 0..(Count - 1) : rs[i].time \notin Ends(intervalOf(k))
         IN (once /\ \A j \in mine : Values[j].value # NoValue /\ Values[j].status = "Good") => SumOver(mine, area) = whole(r.nodes[slot])

\* Paging: the pages hold every time's or interval's value of every node once, each page no more than its limit,
\* and with OneDay no more than a day's (Last, OneDay, Emit).
PagesAreTheRead ==
  /\ \A p \in DOMAIN got : Len(got[p]) \in 1..Limit
  /\ phase = "reads" /\ got # << >> => Len(Values) = next * N + Cardinality(had)
  /\ phase = "done" => Len(Values) = Total * N
  /\ r.oneDay => \A p \in DOMAIN got :
       LET start == Len(FlattenSeq(SubSeq(got, 1, p - 1)))
       IN Cardinality({DayOf(TimeOf(Place(start + j)[1])) : j \in DOMAIN got[p]}) = 1
====
