----------------------------- MODULE HistBuffer -----------------------------
(***************************************************************************)
(* The records of one historian group, from the moment they are buffered   *)
(* to the moment a day file holds them: Group::_values, _lost, _taken and  *)
(* _written (libs/historian/src/Group.cpp) and the data a flush moves      *)
(* (libs/historian/src/Flush.cpp).                                         *)
(*                                                                         *)
(* One action per hold of Group::_mutex that moves records.  The collector *)
(* stores values, markers and heartbeats; the heartbeat of an overtaken    *)
(* value is dropped; the Store's trim drops the oldest values of a full    *)
(* buffer; a flush takes the buffer, writes it day by day, and gives back  *)
(* what it could not write.  Everything but the flush may run between any  *)
(* two steps of the flush, which holds no lock while a write is out.       *)
(*                                                                         *)
(* Abstracted: a record's payload (a record is its Sequence, node, primary *)
(* time and kind), the deviation test that decides whether a change is     *)
(* stored (HistCollect), who asks for a flush and who waits for it         *)
(* (HistFlush), and the membership changes, whose queue no drop touches.   *)
(* The other groups of the Store are everywhere: their bytes may take the  *)
(* buffers past maxBuffer at any moment, so a trim may reach this group    *)
(* whenever it buffers a value.                                            *)
(***************************************************************************)
EXTENDS Integers, FiniteSets

CONSTANTS
  Nodes,    \* node indexes
  Times,    \* primary times (UA ticks)
  Day,      \* the day a time is filed under, DayOf
  Publishing, \* whether _publishingInterval is more than zero
  Cost,     \* what one record counts against maxBuffer, Group::Cost
  MaxSeq,   \* bound: Sequences the Store issues
  Turns     \* bound: turns failed flushes push to the front of the deque in

ASSUME NodesAssumption == IsFiniteSet(Nodes)
ASSUME TimesAssumption == Times \subseteq Nat
ASSUME DayAssumption == Day \in [Times -> Nat]
ASSUME PublishingAssumption == Publishing \in BOOLEAN
ASSUME CostAssumption == Cost \in Nat \ {0}
ASSUME MaxSeqAssumption == MaxSeq \in Nat
ASSUME TurnsAssumption == Turns \subseteq {turn \in Int : turn <= 0}

VARIABLES
  next,       \* Store::Sequence, the next one it issues
  values,     \* Group::_values, a deque: ordered by Before
  held,       \* Group::_held, what _values counts against maxBuffer
  lost,       \* Group::_lost, what a trim dropped of each node
  flushing,   \* a flush pass is between Take and its end
  taken,      \* Group::_taken, the batch of the running pass
  written,    \* Group::_written, those of it that are in a file, or refused
  todo,       \* the days of the batch the pass has yet to come to
  holding,    \* `held` of Flushing: what the pass gives back at its end
  files,      \* what the day files hold
  ending,     \* _stopped or _closed: nothing more is collected
  stored,     \* history: every record ever buffered
  refused,    \* history: those of a file the historian won't write to
  superseded, \* history: heartbeats DropBeats took back
  released    \* history: heartbeats a flush took, so sent to subscribers

vars == <<next, values, held, lost, flushing, taken, written, todo, holding,
          files, ending, stored, refused, superseded, released>>

passVars == <<flushing, taken, written, todo, holding, files, refused>>

Kinds == {"value", "beat", "marker"}

\* A record as a file holds it.
Record == [seq : Nat, node : Nodes, time : Times, kind : Kinds]

\* Group::Buffered: the record, whether a flush released it, and its turn,
\* which orders what failed flushes pushed to the front of the deque.
Buffered == [seq : Nat, node : Nodes, time : Times, kind : Kinds,
             released : BOOLEAN, turn : Int]

Core(b) == [seq |-> b.seq, node |-> b.node, time |-> b.time, kind |-> b.kind]
Cores(S) == {Core(b) : b \in S}

Fresh(s, n, t, k) == [seq |-> s, node |-> n, time |-> t, kind |-> k,
                      released |-> FALSE, turn |-> 0]

(***************************************************************************)
(* The deque's order: what was pushed to the front last comes first, and   *)
(* within one push Return sorts by Sequence, a gap's marker before the     *)
(* record that ends it, with which it shares one.  (That record can be a   *)
(* marker too, later than the gap's; two alike count as one here.)         *)
(***************************************************************************)
Before(a, b) ==
  \/ a.turn < b.turn
  \/ a.turn = b.turn /\ a.seq < b.seq
  \/ /\ a.turn = b.turn /\ a.seq = b.seq /\ a.kind = "marker"
     /\ b.kind # "marker" \/ a.time < b.time

IsFront(b) == b \in values /\ \A x \in values \ {b} : Before(b, x)

(***************************************************************************)
(* Group::Lost.  marker is the earliest time among the values dropped,     *)
(* newest the latest of them, written back (none, or one), seq newest's    *)
(* Sequence, kept when DropBeats takes newest, and count how many.         *)
(***************************************************************************)
Gap == [count : Nat, marker : Times \cup {0}, newest : SUBSET Buffered, seq : Nat]
NoGap == [count |-> 0, marker |-> 0, newest |-> {}, seq |-> 0]

\* Mutant of Marks: forgets that DropBeats may have taken the one written back.
MarksIfMany(g) == g.count > 1

\* A node that lost one value simply gets it back, so only more are marked.
Marks(g) == IF g.newest = {} THEN g.count > 0 ELSE g.count > 1

LostRecords(g, n) ==
  g.newest \cup (IF Marks(g) THEN {Fresh(g.seq, n, g.marker, "marker")} ELSE {})

AllLost == UNION {LostRecords(lost[n], n) : n \in Nodes}

(***************************************************************************)
(* What a read sees (Group::Snapshot and the files): the batch's records   *)
(* not yet written, the lost ones, the buffer and the day files.           *)
(***************************************************************************)
Snapshot == (taken \ written) \cup AllLost \cup values
Served == Cores(Snapshot) \cup files

-----------------------------------------------------------------------------
Init ==
  /\ next = 1
  /\ values = {} /\ held = 0
  /\ lost = [n \in Nodes |-> NoGap]
  /\ flushing = FALSE
  /\ taken = {} /\ written = {} /\ todo = {} /\ holding = {}
  /\ files = {}
  /\ ending = FALSE
  /\ stored = {} /\ refused = {} /\ superseded = {} /\ released = {}

\* Mutant of Droppable: reaches the heartbeats a failed write returned.
DroppableReleased == {b \in values \cup UNION {lost[n].newest : n \in Nodes} : b.kind = "beat"}

\* Heartbeats a drop can still reach: buffered, or what the trim would write
\* back, and no flush released them.
Droppable == {b \in values \cup UNION {lost[n].newest : n \in Nodes} :
                b.kind = "beat" /\ ~b.released}

\* Group::DropBeats: `doomed` goes from the buffer and from what the trim
\* holds.  What else the group lost stays marked.
DropBeats(doomed) ==
  /\ lost' = [n \in Nodes |->
                IF lost[n].newest \cap doomed = {} THEN lost[n]
                ELSE [lost[n] EXCEPT !.count = @ - 1, !.newest = {}]]
  /\ superseded' = superseded \cup Cores(doomed)

\* Mutant of Push: the heartbeats dropped still count as held.
PushUncounted(doomed, new) ==
  /\ values' = (values \ doomed) \cup new
  /\ held' = held + Cost * Cardinality(new)
  /\ next' = next + Cardinality(new)
  /\ stored' = stored \cup Cores(new)

\* What DropBeats and the pushes after it leave in _values and _held.
Push(doomed, new) ==
  /\ values' = (values \ doomed) \cup new
  /\ held' = held - Cost * Cardinality(values \cap doomed) + Cost * Cardinality(new)
  /\ next' = next + Cardinality(new)
  /\ stored' = stored \cup Cores(new)

\* A change that passed, at time t: heartbeats at or after it would replay
\* the old value over it.
Overtaken(n, t) == {b \in Droppable : b.node = n /\ b.time >= t}

\* Collect, for a value that is stored.
Collect(n, t) ==
  /\ ~ending
  /\ next <= MaxSeq
  /\ DropBeats(Overtaken(n, t))
  /\ Push(Overtaken(n, t), {Fresh(next, n, t, "value")})
  /\ UNCHANGED <<passVars, ending, released>>

\* Collect, for a value that passes and waits out MinTimeInterval.
Pend(n, t) ==
  /\ ~ending
  /\ DropBeats(Overtaken(n, t))
  /\ Push(Overtaken(n, t), {})
  /\ UNCHANGED <<passVars, ending, released>>

\* Settle, for a pending value that still passes.
Settle(n, t) ==
  /\ ~ending
  /\ next <= MaxSeq
  /\ Push({}, {Fresh(next, n, t, "value")})
  /\ UNCHANGED <<passVars, lost, ending, superseded, released>>

\* The node's records that no drop took back: their latest time is RecordTs.
Known(n) == {r \in stored \ superseded : r.node = n}

\* Collect, for a node's first value after a break: a Bad_DataLost marker, no
\* earlier than the node's newest record unless the value is, and the value.
CollectAfterBreak(n, at, t) ==
  /\ ~ending
  /\ next < MaxSeq
  /\ at <= t
  /\ at = t \/ \A r \in Known(n) \ Cores(Overtaken(n, t)) : r.time <= at
  /\ DropBeats(Overtaken(n, t))
  /\ Push(Overtaken(n, t), {Fresh(next, n, at, "marker"), Fresh(next + 1, n, t, "value")})
  /\ UNCHANGED <<passVars, ending, released>>

\* Collect, for one sourced earlier than what the node delivered last: the
\* marker alone, no earlier than the node's newest record.
MarkBreak(n, at) ==
  /\ ~ending
  /\ next <= MaxSeq
  /\ \A r \in Known(n) : r.time <= at
  /\ Push({}, {Fresh(next, n, at, "marker")})
  /\ UNCHANGED <<passVars, lost, ending, superseded, released>>

\* Beat, for a node whose last value no break ended: later than its newest
\* record.
Beat(n, t) ==
  /\ ~ending
  /\ next <= MaxSeq
  /\ \E v \in Known(n) :
       v.kind = "value" /\ \A r \in Known(n) : r.kind = "marker" => r.seq < v.seq
  /\ \A r \in Known(n) : r.time < t
  /\ Push({}, {Fresh(next, n, t, "beat")})
  /\ UNCHANGED <<passVars, lost, ending, superseded, released>>

\* Disconnected, reported late, for the nodes with no break standing: the
\* heartbeats made since the break, the ones with a Sequence from `made` on,
\* repeat the value over a dead feed.
Disconnected(who, made) ==
  LET doomed == {b \in Droppable : b.node \in who /\ b.seq >= made}
  IN /\ doomed # {}
     /\ DropBeats(doomed)
     /\ Push(doomed, {})
     /\ UNCHANGED <<passVars, ending, released>>

\* Stopping and Close: no record is collected after.
End ==
  /\ ~ending
  /\ ending' = TRUE
  /\ UNCHANGED <<next, values, held, lost, passVars, stored, superseded, released>>

\* What a node lost once b is dropped too.  The gap opens at the earliest time
\* lost, and ends at the latest.
EndsGap(g, b) == \A x \in g.newest : b.time >= x.time

Dropped(g, b) ==
  [count  |-> g.count + 1,
   marker |-> IF g.count = 0 \/ b.time < g.marker THEN b.time ELSE g.marker,
   newest |-> IF EndsGap(g, b) THEN {b} ELSE g.newest,
   seq    |-> IF EndsGap(g, b) THEN b.seq ELSE g.seq]

\* Drop, one turn of its loop: the front of the deque joins what its node lost.
Drop ==
  \E b \in values :
    /\ IsFront(b)
    /\ values' = values \ {b}
    /\ held' = held - Cost
    /\ lost' = [lost EXCEPT ![b.node] = Dropped(@, b)]
    /\ UNCHANGED <<next, passVars, ending, stored, superseded, released>>

-----------------------------------------------------------------------------
\* A record as Take hands it to the flush: a heartbeat is released.
Release(b) == [seq |-> b.seq, node |-> b.node, time |-> b.time, kind |-> b.kind,
               released |-> (b.kind = "beat"), turn |-> 0]

\* Take: the lost records, then the buffer, but for the heartbeats made less
\* than the publishing interval before, those with a Sequence past `cut`.
Take(cut) ==
  LET kept == {b \in values : Publishing /\ ~ending /\ b.kind = "beat" /\ b.seq > cut}
      batch == {Release(b) : b \in AllLost \cup (values \ kept)}
  IN /\ ~flushing
     /\ flushing' = TRUE
     /\ taken' = batch
     /\ written' = {}
     /\ holding' = {}
     /\ todo' = {Day[b.time] : b \in batch}
     /\ values' = kept
     /\ held' = Cost * Cardinality(kept)
     /\ lost' = [n \in Nodes |-> NoGap]
     /\ released' = released \cup Cores({b \in batch : b.kind = "beat"})
     /\ UNCHANGED <<next, files, ending, stored, refused, superseded>>

OfDay(d) == {b \in taken : Day[b.time] = d}
IsNext(d) == flushing /\ d \in todo /\ \A e \in todo : d <= e

\* Mutant of WriteDay: the file has the records before Wrote says so.
WriteDayUnmarked(d) ==
  /\ IsNext(d)
  /\ todo' = todo \ {d}
  /\ files' = files \cup Cores(OfDay(d))
  /\ UNCHANGED <<next, values, held, lost, flushing, taken, written, holding, ending,
                 stored, refused, superseded, released>>

\* A day's append or rewrite returned: Commit and Wrote, in one hold.
WriteDay(d) ==
  /\ IsNext(d)
  /\ todo' = todo \ {d}
  /\ files' = files \cup Cores(OfDay(d))
  /\ written' = written \cup OfDay(d)
  /\ UNCHANGED <<next, values, held, lost, flushing, taken, holding, ending,
                 stored, refused, superseded, released>>

\* Prepare refused the day's file, which the historian won't write to.
RefuseDay(d) ==
  /\ IsNext(d)
  /\ todo' = todo \ {d}
  /\ refused' = refused \cup Cores(OfDay(d))
  /\ written' = written \cup OfDay(d)
  /\ UNCHANGED <<next, values, held, lost, flushing, taken, holding, files,
                 ending, stored, superseded, released>>

\* The day failed, waits out its delay, or is an archive whose rewrite waits.
HoldDay(d) ==
  /\ IsNext(d)
  /\ todo' = todo \ {d}
  /\ holding' = holding \cup OfDay(d)
  /\ UNCHANGED <<next, values, held, lost, flushing, taken, written, files,
                 ending, stored, refused, superseded, released>>

\* The last of the turns that come before every turn in _values.
IsTurn(turn) ==
  /\ \A b \in values : turn < b.turn
  /\ \A later \in Turns : turn < later => \E b \in values : b.turn <= later

Turned(b, turn) == [seq |-> b.seq, node |-> b.node, time |-> b.time, kind |-> b.kind,
                    released |-> b.released, turn |-> turn]

\* Mutant of Return: what was dropped meanwhile is not marked apart.
ReturnUnmarked ==
  /\ flushing
  /\ todo = {}
  /\ holding # {}
  /\ \E turn \in Turns :
       LET back == {Turned(b, turn) : b \in holding}
       IN /\ IsTurn(turn)
          /\ values' = values \cup back
          /\ held' = held + Cost * Cardinality(back)
  /\ flushing' = FALSE
  /\ taken' = {} /\ written' = {} /\ holding' = {}
  /\ UNCHANGED <<next, lost, todo, files, ending, stored, refused, superseded, released>>

\* Mutant of Return: the gaps go before what the pass took first.
ReturnSwapped ==
  /\ flushing
  /\ todo = {}
  /\ holding # {}
  /\ \E turn \in Turns :
       LET back == {Turned(b, turn - 1) : b \in AllLost} \cup {Turned(b, turn) : b \in holding}
       IN /\ IsTurn(turn)
          /\ values' = values \cup back
          /\ held' = held + Cost * Cardinality(back)
  /\ lost' = [n \in Nodes |-> NoGap]
  /\ flushing' = FALSE
  /\ taken' = {} /\ written' = {} /\ holding' = {}
  /\ UNCHANGED <<next, todo, files, ending, stored, refused, superseded, released>>

\* Return, and the end of the pass: what it holds goes to the front of the
\* deque, followed by the marker and value of each gap dropped meanwhile.
Return ==
  /\ flushing
  /\ todo = {}
  /\ holding # {}
  /\ \E turn \in Turns :
       LET back == {Turned(b, turn) : b \in AllLost} \cup {Turned(b, turn - 1) : b \in holding}
       IN /\ IsTurn(turn)
          /\ values' = values \cup back
          /\ held' = held + Cost * Cardinality(back)
  /\ lost' = [n \in Nodes |-> NoGap]
  /\ flushing' = FALSE
  /\ taken' = {} /\ written' = {} /\ holding' = {}
  /\ UNCHANGED <<next, todo, files, ending, stored, refused, superseded, released>>

\* Mutant of Finish: the batch goes and its written marks stay.
FinishUncleared ==
  /\ flushing
  /\ todo = {}
  /\ holding = {}
  /\ flushing' = FALSE
  /\ taken' = {}
  /\ UNCHANGED <<next, values, held, lost, written, todo, holding, files, ending,
                 stored, refused, superseded, released>>

\* The end of a pass that holds nothing back.
Finish ==
  /\ flushing
  /\ todo = {}
  /\ holding = {}
  /\ flushing' = FALSE
  /\ taken' = {} /\ written' = {}
  /\ UNCHANGED <<next, values, held, lost, todo, holding, files, ending,
                 stored, refused, superseded, released>>

Next ==
  \/ \E n \in Nodes, t \in Times : Collect(n, t)
  \/ \E n \in Nodes, at, t \in Times : CollectAfterBreak(n, at, t)
  \/ \E n \in Nodes, t \in Times : Pend(n, t)
  \/ \E n \in Nodes, t \in Times : Settle(n, t)
  \/ \E n \in Nodes, at \in Times : MarkBreak(n, at)
  \/ \E n \in Nodes, t \in Times : Beat(n, t)
  \/ \E who \in SUBSET Nodes, made \in 1 .. MaxSeq : Disconnected(who, made)
  \/ End
  \/ Drop
  \/ \E cut \in 0 .. MaxSeq : Take(cut)
  \/ \E d \in todo : WriteDay(d)
  \/ \E d \in todo : RefuseDay(d)
  \/ \E d \in todo : HoldDay(d)
  \/ Return
  \/ Finish

Spec == Init /\ [][Next]_vars

-----------------------------------------------------------------------------
(***************************************************************************)
(* Properties.                                                             *)
(***************************************************************************)

\* Every variable holds what the code's declarations say.
TypeOK ==
  /\ next \in Nat
  /\ values \subseteq Buffered
  /\ held \in Int
  /\ lost \in [Nodes -> Gap]
  /\ flushing \in BOOLEAN
  /\ taken \subseteq Buffered
  /\ written \subseteq taken
  /\ holding \subseteq taken
  /\ todo \subseteq Nat
  /\ files \subseteq Record
  /\ ending \in BOOLEAN
  /\ stored \subseteq Record
  /\ refused \subseteq Record
  /\ superseded \subseteq Record
  /\ released \subseteq Record

\* A marker a read of node n is served at or before time t.
MarkedBy(n, t) == \E m \in Served \cup refused : m.kind = "marker" /\ m.node = n /\ m.time <= t

\* No value vanishes in silence (Group::Drop, Take, Return, MarkLost): a read
\* is served every value and marker ever buffered, from the buffer, a running
\* flush's batch or a file, or it is served a Bad_DataLost marker on the same
\* node at or before its time.  Only a heartbeat a change overtook, and the
\* records of a file the historian refuses to write to, are gone without one.
LostIsMarked ==
  \A r \in stored :
    \/ r \in Served \cup refused \cup superseded
    \/ MarkedBy(r.node, r.time)

\* A read finds each value and heartbeat in one place (the comments on
\* Group::Return and Taking): not at once in two of the buffer, the unwritten
\* part of the batch, what the trim writes back, and the files.
InOnePlace ==
  LET buffer == {Core(b) : b \in values}
      batch == {Core(b) : b \in taken \ written}
      back == {Core(b) : b \in UNION {lost[n].newest : n \in Nodes}}
      data(S) == {r \in S : r.kind # "marker"}
  IN /\ data(buffer) \cap data(batch) = {}
     /\ data(buffer) \cap data(back) = {}
     /\ data(batch) \cap data(back) = {}
     /\ data(files \cup refused) \cap data(buffer \cup batch \cup back) = {}

\* Group::_held, which ~Group and Take subtract from the Store's count of
\* bytes, is what the buffer really costs, so that unsigned count never wraps.
HeldIsCounted == held = Cost * Cardinality(values)

\* Of two values in the buffer the one that arrived first is first, whatever
\* flushes failed and gaps were marked in between: the trim, which takes the
\* front, drops the oldest.
ValuesInOrder ==
  \A x, y \in values :
    x.kind = "value" /\ y.kind = "value" /\ x.seq < y.seq => Before(x, y)

\* A heartbeat a flush released was sent to the subscribers, so neither a
\* change that overtakes it nor a break reported late takes it back, even
\* once a failed write returned it to the buffer.
ReleasedStays == superseded \cap released = {}

\* The node's values were buffered in the order of their times, and it has no
\* heartbeat.
InOrder(n) ==
  \A x \in stored :
    x.node = n =>
      /\ x.kind # "beat"
      /\ \A y \in stored :
           y.node = n /\ x.kind = "value" /\ y.kind = "value" /\ x.seq < y.seq
             => x.time < y.time

\* Gaps made while a flush was out keep markers of their own when the flush
\* fails and its records are dropped in turn (Group::Return): of a node whose
\* values came in order, no read carries a value that arrived before a lost
\* one across it, since a marker stands between them.
NoValueBridgesAGap ==
  \A r \in stored :
    \/ r \in Served \cup refused \cup superseded
    \/ ~InOrder(r.node)
    \/ \E m \in Served \cup refused :
         /\ m.kind = "marker" /\ m.node = r.node /\ m.time <= r.time
         /\ \A x \in Served :
              x.node = r.node /\ x.kind # "marker" /\ x.seq < r.seq => x.time <= m.time

\* While all that was stored is of one day, they do: the markers that Return
\* leaves come before the next record of their day, in the buffer and the file.
NoDayIsBridged ==
  (\A r, s \in stored : Day[r.time] = Day[s.time]) => NoValueBridgesAGap
=============================================================================
