----------------------------- MODULE HistCollect ----------------------------
(***************************************************************************)
(* What a group's members collect (libs/historian/src/Group.cpp): the      *)
(* compression test with its pending value, the heartbeat and its one      *)
(* timer, a connection's break and the first value after it, and the       *)
(* series of records all of it leaves for a node.                          *)
(*                                                                         *)
(* The source and its connection are the environment: a source that        *)
(* changes, a publish that delivers a change within Publishing of it, a    *)
(* connection that breaks with changes in flight and is reported broken    *)
(* within Publishing.  The wall clock, which the historian's times are in, *)
(* may be set back; timers run by a steady one.                            *)
(*                                                                         *)
(* The buffer's limit, its flush and its gaps are HistBuffer's; here a     *)
(* flush only takes heartbeats out of a drop's reach.                      *)
(***************************************************************************)
EXTENDS Integers, Sequences

CONSTANTS
  Nodes,      \* the group's members
  Values,     \* what a source may hold: numbers
  Band,       \* ExceptionDeviation, absolute; 0 stores every change
  Firsts,     \* thresholds a member may join with
  Configs,    \* those SetThresholds may give it
  Publishing, \* the publishing interval
  Stamps,     \* whether a value comes with a SourceTimestamp: one or both
  MaxTime,    \* bound on the steady clock
  MaxBack,    \* bound on how far the wall clock is set back
  MaxChanges, \* bound on a source's changes
  MaxBreaks,  \* bound on the connection's breaks
  MaxSerial,  \* bound on a node's pending values' timers
  LosesOlder  \* a break loses changes from before its own moment too

VARIABLES
  steady, back,     \* the steady clock, and what the wall clock is behind it
  changes, channel, \* each source's changes, and those on their way here
  broke, breaks,    \* when the connection broke, of how many times
  group,            \* the Group: see Group
  delivered         \* history: the newest value each node delivered

vars == <<steady, back, changes, channel, broke, breaks, group, delivered>>
source == <<changes, channel, broke, breaks>>

None == -1
now == steady - back
Larger(a, b) == IF a >= b THEN a ELSE b
Smaller(a, b) == IF a <= b THEN a ELSE b
Newest(times) == CHOOSE t \in times : \A u \in times : u <= t
Soonest(times) == CHOOSE t \in times : \A u \in times : t <= u
Elements(q) == {q[i] : i \in DOMAIN q}

\* A Bad_DataLost in Stored, where a value would be.
Lost == -2
NoPending == [time |-> None, val |-> None]

\* Group::Node, as Insert makes it for a node that is new to the group.
NewNode(config) ==
  [Config |-> config, Break |-> None, Stored |-> None, Marked |-> FALSE,
   ValueTs |-> None, RecordTs |-> None, KeptTs |-> None, StoredAt |-> 0,
   Pending |-> NoPending, Due |-> None, Serial |-> 0, Delivered |-> None,
   Offset |-> 0, Joined |-> TRUE, Beat |-> None, BeatAt |-> None,
   Since |-> 0] \* history: StoredAt, by the steady clock

\* The node's records in the order they were stored, less what DropBeats took.
Record == [kind : {"value", "beat", "marker"}, time : Nat, val : Values \cup {Lost},
           made : Nat, released : BOOLEAN]

NoBeat == [due |-> None, at |-> None]

Init ==
  /\ steady = 0 /\ back = 0
  /\ \E v \in Values, b \in Stamps :
       /\ changes = [n \in Nodes |-> <<[ts |-> 0, val |-> v]>>]
       /\ channel = [n \in Nodes |-> <<[ts |-> 0, val |-> v, sent |-> 0, stamped |-> b]>>]
  /\ broke = None /\ breaks = 0
  /\ \E config \in [Nodes -> Firsts] :
       group = [node |-> [n \in Nodes |-> NewNode(config[n])], down |-> None,
                series |-> [n \in Nodes |-> <<>>],
                queue |-> {}, beat |-> NoBeat, expiries |-> {}]
  /\ delivered = [n \in Nodes |-> None]

-----------------------------------------------------------------------------
(* Compress.cpp *)

Distance(a, b) == IF a >= b THEN a - b ELSE b - a

\* Passes: a status that differs, or a change that left the band.
Passes(stored, v) == stored = Lost \/ Band = 0 \/ Distance(stored, v) >= Band

\* Repeats: the same value on the wire.
Repeats(stored, v) == stored = v

-----------------------------------------------------------------------------
(* The heartbeat's timer *)

\* Whether the heartbeat repeats the node's last value.
Beats(x) ==
  /\ x.Config.max > 0 /\ x.Stored # None /\ ~x.Marked
  /\ x.Break = None /\ x.Pending = NoPending

\* Group::Watch.
Watch(g, n, due) ==
  [g EXCEPT !.node[n].BeatAt = due, !.queue = @ \cup {<<due, n>>}]

\* Group::ScheduleBeat: the timer that was is stale.
ScheduleBeat(g, due) ==
  [g EXCEPT !.beat = [due |-> due, at |-> steady + Larger(due - now, 0)]]

\* Group::Arm, of the group's timer.
ArmAt(g, due) ==
  IF g.beat # NoBeat /\ g.beat.due <= due THEN g ELSE ScheduleBeat(g, due)

\* Group::Arm, of a node.
Arm(g, n) ==
  LET x == g.node[n]
      due == Larger(x.StoredAt + x.Config.max, now)
      watched == IF x.BeatAt = None \/ x.BeatAt > due THEN Watch(g, n, due) ELSE g
  IN IF ~Beats(x) \/ g.down # None
     THEN g
     ELSE ArmAt(watched, Larger(watched.node[n].BeatAt, now))

-----------------------------------------------------------------------------
(* What is stored *)

\* Node::Keep.
Keep(x, t) ==
  [x EXCEPT !.KeptTs = Larger(@, t), !.RecordTs = Larger(@, t)]

\* Group::StoreRecord, of what is no heartbeat.
StoreRecord(g, n, kind, t, v) ==
  [g EXCEPT !.series[n] = Append(@, [kind |-> kind, time |-> t, val |-> v,
                                     made |-> 0, released |-> TRUE])]

\* A mutant of StoreValue: the node still counts as marked.
StoreValueMarked(g, n, t, v) ==
  LET x == [Keep(g.node[n], t) EXCEPT !.Stored = v, !.ValueTs = t,
                                      !.StoredAt = now, !.Since = steady]
  IN Arm(StoreRecord([g EXCEPT !.node[n] = x], n, "value", t, v), n)

\* Group::StoreValue.
StoreValue(g, n, t, v) ==
  LET x == [Keep(g.node[n], t) EXCEPT !.Stored = v, !.Marked = FALSE,
                                      !.ValueTs = t, !.StoredAt = now, !.Since = steady]
  IN Arm(StoreRecord([g EXCEPT !.node[n] = x], n, "value", t, v), n)

\* Group::Mark.
Mark(g, n, at) ==
  LET x == [Keep(g.node[n], at) EXCEPT !.Stored = Lost, !.Marked = TRUE,
                                       !.StoredAt = now, !.Since = steady]
  IN StoreRecord([g EXCEPT !.node[n] = x], n, "marker", at, Lost)

\* Group::Settle.
Settle(g, n) ==
  LET x == g.node[n]
      p == x.Pending
      g1 == [g EXCEPT !.node[n] = [x EXCEPT !.Pending = NoPending, !.Serial = @ + 1]]
  IN IF x.Stored = None \/ Passes(x.Stored, p.val)
     THEN StoreValue(g1, n, p.time, p.val)
     ELSE Arm(g1, n)
SettlePending(g, n) == IF g.node[n].Pending = NoPending THEN g ELSE Settle(g, n)

\* A mutant of ExpireAt: the timers of two pending values share a serial.
ExpireAtUnnumbered(g, n, due) ==
  [g EXCEPT !.node[n].Due = due,
            !.expiries = @ \cup {[node |-> n, serial |-> g.node[n].Serial,
                                  at |-> steady + Larger(due - now, 0)]}]

\* Group::ExpireAt.
ExpireAt(g, n, due) ==
  LET serial == g.node[n].Serial + 1
  IN [g EXCEPT !.node[n].Due = due, !.node[n].Serial = serial,
               !.expiries = @ \cup {[node |-> n, serial |-> serial,
                                     at |-> steady + Larger(due - now, 0)]}]

\* A heartbeat no flush has taken.
Droppable(r) == r.kind = "beat" /\ ~r.released

\* Group::DropBeats, by source time, or by when the timer made them.
DropBeats(g, n, from, made) ==
  LET x == g.node[n]
      After(r) == (IF made THEN r.made ELSE r.time) >= from
      left == SelectSeq(g.series[n], LAMBDA r : ~(Droppable(r) /\ After(r)))
      beats == {r.time : r \in {s \in Elements(left) : Droppable(s)}}
      beat == IF beats = {} THEN None ELSE Newest(beats)
  IN IF x.Beat = None \/ (~made /\ from > x.Beat)
     THEN g
     ELSE [g EXCEPT !.series[n] = left,
                    !.node[n].Beat = beat,
                    !.node[n].RecordTs = Larger(x.KeptTs, beat)]

-----------------------------------------------------------------------------
(* Group::Collect *)

\* Nothing was lost.
Compared(g, n) == Arm(g, n)

\* The first value after a break, which was at `at`; `last` the SourceTimestamp
\* delivered before it.
CollectAfterBreak(g0, n, at, last, src, time, v) ==
  LET g == SettlePending(g0, n)
      x == g.node[n]
      agrees == x.Marked \/ x.Stored = None \/ ~Passes(x.Stored, v)
                \/ Repeats(x.Stored, v)
      compared == src # None /\ last # None
      unbeaten == DropBeats(g, n, time, FALSE)
  IN CASE compared /\ src = last /\ agrees -> Compared(g, n)
       [] compared /\ src < last -> Mark(g, n, Larger(at, x.RecordTs))
       [] OTHER ->
            StoreValue(
              Mark(unbeaten, n,
                   Smaller(Larger(at, unbeaten.node[n].RecordTs), time)),
              n, time, v)

\* Mutants of CollectChange: a value the test drops leaves what is pending; a
\* change that is held pending, or stored, drops no heartbeat.
CollectChangeKeeping(g0, n, joined, src, time, v) ==
  LET g1 == IF joined \/ src = None THEN g0
            ELSE [g0 EXCEPT !.node[n].Offset = now - src]
      Within(g) == LET x == g.node[n]
                   IN x.Config.min > 0 /\ x.ValueTs # None /\ time - x.ValueTs < x.Config.min
      g2 == IF Within(g1) THEN g1 ELSE SettlePending(g1, n)
      x == g2.node[n]
      passes == x.Stored = None \/ Passes(x.Stored, v)
      g3 == IF passes THEN DropBeats(g2, n, time, FALSE) ELSE g2
      held == [g3 EXCEPT !.node[n].Pending = [time |-> time, val |-> v]]
  IN CASE ~passes -> g3
       [] x.Pending # NoPending -> held
       [] passes /\ ~Within(g2) -> StoreValue(g3, n, time, v)
       [] OTHER -> ExpireAt(held, n, now + Smaller(x.Config.min - (time - x.ValueTs), x.Config.min))
CollectChangeBeating(g0, n, joined, src, time, v) ==
  LET g1 == IF joined \/ src = None THEN g0
            ELSE [g0 EXCEPT !.node[n].Offset = now - src]
      x == g1.node[n]
  IN IF x.Stored = None \/ Passes(x.Stored, v) THEN StoreValue(g1, n, time, v) ELSE g1

\* Any other.
CollectChange(g0, n, joined, src, time, v) ==
  LET g1 == IF joined \/ src = None THEN g0
            ELSE [g0 EXCEPT !.node[n].Offset = now - src]
      Within(g) == LET x == g.node[n]
                   IN x.Config.min > 0 /\ x.ValueTs # None /\ time - x.ValueTs < x.Config.min
      g2 == IF Within(g1) THEN g1 ELSE SettlePending(g1, n)
      x == g2.node[n]
      passes == x.Stored = None \/ Passes(x.Stored, v)
      g3 == IF passes THEN DropBeats(g2, n, time, FALSE) ELSE g2
      held == [g3 EXCEPT !.node[n].Pending = [time |-> time, val |-> v]]
  IN CASE x.Pending # NoPending -> held
       [] x.Pending = NoPending /\ ~passes -> g3
       [] x.Pending = NoPending /\ passes /\ ~Within(g2) -> StoreValue(g3, n, time, v)
       [] OTHER -> ExpireAt(held, n, now + Smaller(x.Config.min - (time - x.ValueTs), x.Config.min))

\* A value that arrives while the connection is down was sent before the break,
\* which stands.
Collected(g, n, m) ==
  LET x == g.node[n]
      src == IF m.stamped THEN m.ts ELSE None
      time == IF m.stamped THEN m.ts ELSE now
      g1 == [g EXCEPT !.node[n] = [x EXCEPT !.Delivered = src, !.Joined = FALSE,
                                            !.Break = g.down]]
  IN IF x.Break # None /\ x.Break # g.down
     THEN CollectAfterBreak(g1, n, x.Break, x.Delivered, src, time, m.val)
     ELSE CollectChange(g1, n, x.Joined, src, time, m.val)

-----------------------------------------------------------------------------
(* Actions *)

\* Group::Enqueue, of what the publish delivers next for n.
Enqueue(n) ==
  /\ channel[n] # <<>>
  /\ LET m == Head(channel[n])
     IN /\ group' = Collected(group, n, m)
        /\ delivered' = [delivered EXCEPT ![n] = m.val]
  /\ channel' = [channel EXCEPT ![n] = Tail(@)]
  /\ UNCHANGED <<steady, back, changes, broke, breaks>>

\* Group::Expire.
Expire(e) ==
  /\ e \in group.expiries /\ e.at <= steady
  /\ LET g == [group EXCEPT !.expiries = @ \ {e}]
         x == g.node[e.node]
     IN group' = IF x.Pending # NoPending /\ x.Serial = e.serial
                 THEN Settle(g, e.node)
                 ELSE g
  /\ UNCHANGED <<steady, back, source, delivered>>

\* The heartbeat of a node whose MaxTimeInterval has passed.
BeatTime(x) == Larger(now - x.Offset, x.RecordTs + x.Config.max)
Beaten(g, n) ==
  LET t == BeatTime(g.node[n])
  IN [g EXCEPT !.node[n].RecordTs = t, !.node[n].StoredAt = now,
               !.node[n].Since = steady, !.node[n].Beat = t,
               !.series[n] = Append(@, [kind |-> "beat", time |-> t,
                                        val |-> g.node[n].Stored,
                                        made |-> now, released |-> FALSE])]

\* What the timer does for a node whose deadline has come.
LookAt(g, n) ==
  LET g1 == [g EXCEPT !.node[n].BeatAt = None,
                      !.node[n].StoredAt = IF Beats(g.node[n]) THEN Smaller(@, now) ELSE @]
      x == g1.node[n]
      g2 == IF x.StoredAt + x.Config.max <= now THEN Beaten(g1, n) ELSE g1
  IN IF Beats(g.node[n]) THEN Watch(g2, n, g2.node[n].StoredAt + x.Config.max) ELSE g1

\* A loop over the nodes whose turn for one touches that node and its records.
EachOf(g, turn) ==
  [g EXCEPT !.node = [n \in Nodes |-> turn[n].node[n]],
            !.series = [n \in Nodes |-> turn[n].series[n]]]

\* A mutant of Reset: deadlines from before the clock was set back stay.
ResetNone(g) == g

\* The wall clock was set back: every node waits from now.
Reset(g) ==
  LET Waits(x) == [x EXCEPT !.StoredAt = Smaller(@, now), !.Since = steady,
                            !.BeatAt = Smaller(x.StoredAt, now) + x.Config.max]
      waiting == {n \in Nodes : Beats(g.node[n])}
      node == [n \in Nodes |-> IF n \in waiting THEN Waits(g.node[n])
                               ELSE [g.node[n] EXCEPT !.BeatAt = None]]
  IN [g EXCEPT !.node = node, !.queue = {<<node[n].BeatAt, n>> : n \in waiting}]

\* Group::Beat: all the nodes whose deadline has come, then the next deadline.
Beat ==
  /\ group.beat # NoBeat /\ group.beat.at <= steady
  /\ LET g0 == [group EXCEPT !.beat = NoBeat]
         g1 == IF now < group.beat.due THEN Reset(g0) ELSE g0
         due == {e[2] : e \in {q \in g1.queue : q[1] <= now /\ g1.node[q[2]].BeatAt = q[1]}}
         h == [g1 EXCEPT !.queue = {q \in @ : q[1] > now}]
         g2 == [EachOf(h, [n \in Nodes |-> IF n \in due THEN LookAt(h, n) ELSE h])
                  EXCEPT !.queue = @ \cup UNION {LookAt(h, n).queue : n \in due}]
     IN group' = IF group.down # None THEN g0
                 ELSE IF g2.queue = {} THEN g2
                 ELSE ScheduleBeat(g2, Soonest({q[1] : q \in g2.queue}))
  /\ UNCHANGED <<steady, back, source, delivered>>

\* What Group::Take takes of the heartbeats still in the buffer: those as old
\* as the publishing interval, or from before a clock set back.
Taken(r) == Droppable(r) /\ (r.made <= now - Publishing \/ r.made > now)

\* When it was made matters no more.
Released(r) == [r EXCEPT !.released = TRUE, !.made = 0]

\* A mutant of Flush: what was taken is not kept.
FlushUnkept ==
  /\ \E n \in Nodes : \E r \in Elements(group.series[n]) : Taken(r)
  /\ group' = [group EXCEPT
                 !.series = [n \in Nodes |->
                   [i \in DOMAIN @[n] |->
                     IF Taken(@[n][i]) THEN Released(@[n][i]) ELSE @[n][i]]]]
  /\ UNCHANGED <<steady, back, source, delivered>>

\* Group::Take, of heartbeats: out of a drop's reach.
Flush ==
  /\ \E n \in Nodes : \E r \in Elements(group.series[n]) : Taken(r)
  /\ LET times(n) == {r.time : r \in {s \in Elements(group.series[n]) : Taken(s)}}
     IN group' = [group EXCEPT
          !.node = [n \in Nodes |-> IF times(n) = {} THEN @[n] ELSE Keep(@[n], Newest(times(n)))],
          !.series = [n \in Nodes |->
            [i \in DOMAIN @[n] |->
              IF Taken(@[n][i]) THEN Released(@[n][i]) ELSE @[n][i]]]]
  /\ UNCHANGED <<steady, back, source, delivered>>

\* Group::SetThresholds.
SetThresholds(n, c) ==
  /\ c # group.node[n].Config /\ group.node[n].Serial < MaxSerial
  /\ LET x == group.node[n]
         g == [group EXCEPT !.node[n].Config = c]
         due == x.Due + c.min - x.Config.min
         moved == IF x.Pending = NoPending \/ c.min = x.Config.min THEN g
                  ELSE IF due <= now THEN Settle(g, n) ELSE ExpireAt(g, n, due)
     IN group' = Arm(moved, n)
  /\ UNCHANGED <<steady, back, source, delivered>>

\* What Group::Disconnected does for a node.
BreakNode(g0, n, at) ==
  LET g == SettlePending(g0, n)
      x == g.node[n]
      broken == [g EXCEPT !.node[n].Break = at]
  IN IF x.Break # None THEN g
     ELSE IF x.StoredAt < at THEN broken
     ELSE [DropBeats(broken, n, at, TRUE) EXCEPT !.node[n].StoredAt = at]

\* Group::Disconnected.
Disconnected ==
  /\ broke # None /\ group.down = None
  /\ LET g == [group EXCEPT !.down = broke]
     IN group' = EachOf(g, [n \in Nodes |-> BreakNode(g, n, broke)])
  /\ UNCHANGED <<steady, back, source, delivered>>

\* Group::Connected, before the new subscription delivers each node's value.
Connected ==
  /\ group.down # None
  /\ group' = [group EXCEPT !.down = None]
  /\ broke' = None
  /\ \E b \in Stamps :
       channel' = [n \in Nodes |->
         LET c == changes[n][Len(changes[n])]
         IN <<[ts |-> c.ts, val |-> c.val, sent |-> steady, stamped |-> b]>>]
  /\ UNCHANGED <<steady, back, changes, breaks, delivered>>

-----------------------------------------------------------------------------
(* The source and its connection *)

\* A source changes, and the server sends it while the connection stands.
Change(n, v, ts, b) ==
  /\ Len(changes[n]) < MaxChanges
  /\ changes' = [changes EXCEPT ![n] = Append(@, [ts |-> ts, val |-> v])]
  /\ channel' = IF broke # None THEN channel
                ELSE [channel EXCEPT ![n] =
                        Append(@, [ts |-> ts, val |-> v, sent |-> steady, stamped |-> b])]
  /\ UNCHANGED <<steady, back, broke, breaks, group, delivered>>

\* The connection breaks, and loses some suffix of what was in flight.
Break ==
  /\ broke = None /\ breaks < MaxBreaks
  /\ broke' = now /\ breaks' = breaks + 1
  /\ \E left \in [Nodes -> 0 .. MaxChanges] :
       /\ \A n \in Nodes :
            /\ left[n] <= Len(channel[n])
            /\ \A i \in left[n] + 1 .. Len(channel[n]) :
                 LosesOlder \/ channel[n][i].sent = steady
       /\ channel' = [n \in Nodes |-> SubSeq(channel[n], 1, left[n])]
  /\ UNCHANGED <<steady, back, changes, group, delivered>>

\* Time passes: not past what a publish still owes, nor a break's report.
Tick ==
  /\ steady < MaxTime
  /\ \A n \in Nodes : channel[n] # <<>> => steady < channel[n][1].sent + Publishing
  /\ broke # None /\ group.down = None => steady < broke + back + Publishing
  /\ steady' = steady + 1
  /\ UNCHANGED <<back, source, group, delivered>>

\* The wall clock is set back.
SetBack ==
  /\ back < MaxBack /\ now > 0
  /\ back' = back + 1
  /\ UNCHANGED <<steady, source, group, delivered>>

Next ==
  \/ \E n \in Nodes : Enqueue(n)
  \/ \E e \in group.expiries : Expire(e)
  \/ Beat \/ Flush
  \/ \E n \in Nodes, c \in Configs : SetThresholds(n, c)
  \/ Disconnected \/ Connected
  \/ \E n \in Nodes, v \in Values, b \in Stamps, ts \in 0 .. now : Change(n, v, ts, b)
  \/ Break \/ Tick \/ SetBack

Spec == Init /\ [][Next]_vars

-----------------------------------------------------------------------------
(* Properties *)

\* Every variable has its type.
TypeOK ==
  /\ steady \in 0 .. MaxTime /\ back \in 0 .. MaxBack /\ now >= 0
  /\ \A n \in Nodes : channel[n] \in Seq([ts : Nat, val : Values, sent : Nat,
                                          stamped : BOOLEAN])
  /\ broke \in Nat \cup {None} /\ breaks \in 0 .. MaxBreaks
  /\ group.down \in Nat \cup {None}
  /\ group.queue \subseteq Nat \X Nodes
  /\ group.beat = NoBeat \/ group.beat \in [due : Nat, at : Nat]
  /\ group.expiries \subseteq [node : Nodes, serial : Nat, at : Nat]
  /\ \A n \in Nodes :
       LET x == group.node[n]
       IN /\ group.series[n] \in Seq(Record)
          /\ x.Config \in Configs \cup Firsts
          /\ x.Stored \in Values \cup {None, Lost}
          /\ (x.Marked <=> x.Stored = Lost)
          /\ x.Pending = NoPending \/ x.Pending \in [time : Nat, val : Values]
          /\ {x.Break, x.ValueTs, x.RecordTs, x.KeptTs, x.Due, x.Delivered, x.Beat,
              x.BeatAt} \subseteq Nat \cup {None}
          /\ x.StoredAt \in Nat /\ x.Since \in Nat /\ x.Serial \in Nat /\ x.Offset \in Int
          /\ x.Joined \in BOOLEAN

\* A record no drop takes back: what a read finds from now on.
Settled(r) == ~Droppable(r)

\* The record a read finds at t, in a series sorted by time, stably.
ReadAt(q, t, i) ==
  /\ Settled(q[i]) /\ q[i].time <= t
  /\ \A j \in DOMAIN q :
       Settled(q[j]) /\ q[j].time <= t =>
         q[j].time < q[i].time \/ (q[j].time = q[i].time /\ j <= i)

\* What a source held at some moment of t.
Held(n, t) ==
  {changes[n][k].val : k \in {i \in DOMAIN changes[n] :
     /\ changes[n][i].ts <= t
     /\ i < Len(changes[n]) => changes[n][i + 1].ts >= t}}

\* The two are not told apart by the node's compression test.
Near(v, w) == v = w \/ (Band > 0 /\ Distance(v, w) < Band)

\* The source's clock never went back.
Sourced(n) == \A i, j \in DOMAIN changes[n] : i < j => changes[n][i].ts <= changes[n][j].ts

\* With no break left to compare, and no minimum interval to pass over what is
\* brief, a value reads Good, before the node's newest record, only where its
\* source held it: what was lost to a break reads Bad, and no heartbeat replays
\* an old value over a change (Collect's gap comparison, DropBeats, Take's hold).
GoodIsTrue ==
  \A n \in Nodes :
    LET q == group.series[n]
    IN \A t \in 0 .. MaxTime, i \in DOMAIN q :
         (/\ broke = None /\ group.node[n].Break = None
          /\ group.node[n].Config.min = 0 /\ Sourced(n)
          /\ ReadAt(q, t, i) /\ q[i].kind # "marker"
          /\ \E j \in DOMAIN q : Settled(q[j]) /\ q[j].time > t)
         => \E w \in Held(n, t) : Near(q[i].val, w)

\* RecordTs is the newest time among the node's records, whatever heartbeats
\* were made, taken by a flush and dropped since; a marker's floor and the next
\* heartbeat count on it.
RecordIsNewest ==
  \A n \in Nodes :
    LET times == {r.time : r \in Elements(group.series[n])}
    IN group.node[n].RecordTs = IF times = {} THEN None ELSE Newest(times)

\* With no pending value, break or marker to say otherwise, the value a node
\* last stored stands for the one it last delivered: a spike inside the minimum
\* interval never stays as where the value settled (Collect, Settle, Expire).
StoredIsCurrent ==
  \A n \in Nodes :
    LET x == group.node[n]
    IN x.Pending = NoPending /\ x.Break = None /\ x.Stored \notin {None, Lost}
       => Near(x.Stored, delivered[n])

\* A pending value has one timer of its own, at its interval's end, however
\* often the interval was changed, and no earlier value's timer settles it
\* (ExpireAt, Expire, SetThresholds).
PendingHasItsTimer ==
  \A n \in Nodes :
    LET x == group.node[n]
        own == {e \in group.expiries : e.node = n /\ e.serial = x.Serial}
    IN x.Pending # NoPending =>
         \E e \in group.expiries : own = {e} /\ e.at = x.Due /\ x.Due <= now + x.Config.min

\* While the connection is up, a node with a value to repeat is waited for by
\* the group's timer, and for no longer than its own interval since it stored or
\* since the timer found the wall clock set back (Arm, Watch, Beat: "each node
\* waits from now, so none for longer than its own interval").
HeartbeatIsComing ==
  \A n \in Nodes :
    LET x == group.node[n]
    IN Beats(x) /\ group.down = None =>
         /\ group.beat # NoBeat
         /\ group.beat.at <= Larger(x.Since + x.Config.max, steady)
=============================================================================
