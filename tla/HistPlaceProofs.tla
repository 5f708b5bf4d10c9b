--------------------------- MODULE HistPlaceProofs --------------------------
(***************************************************************************)
(* Proofs about HistBuffer, for every set of nodes, times and days and     *)
(* every bound: where a record is, in which order, and what it counts.     *)
(*                                                                         *)
(* InOnePlace is not inductive: a batch that a failed flush gives back,    *)
(* and the next one it takes, move records between places, so it needs     *)
(* that a Sequence is issued once (Issued) and names one record in each    *)
(* place (Apart), and that a day is written once (Passing).                *)
(***************************************************************************)
EXTENDS HistBufferProofs

Data(b) == b.kind # "marker"

\* The records a trim would write back, and those a pass has yet to write.
Back == UNION {lost[n].newest : n \in Nodes}
Unwritten == taken \ written

\* No record has a Sequence the Store has yet to issue.
Issued ==
  /\ next > 0
  /\ \A b \in values \cup Back \cup taken : b.seq < next
  /\ \A n \in Nodes : lost[n].seq < next
  /\ \A r \in files \cup refused \cup released \cup superseded : r.seq < next

\* Of two records with one Sequence that are no markers, neither is in a place
\* of its own.
Apart ==
  /\ \A x, y \in values \cup Back : Data(x) /\ Data(y) /\ x.seq = y.seq => x = y
  /\ \A x \in values : Data(x) => x \notin Back
  /\ \A x \in values \cup Back, y \in Unwritten : Data(x) /\ Data(y) => x.seq # y.seq
  /\ \A x, y \in taken : Data(x) /\ Data(y) /\ x.seq = y.seq => x = y
  /\ \A r \in files \cup refused, x \in values \cup Back \cup Unwritten :
       Data(r) /\ Data(x) => r.seq # x.seq

\* A pass has neither written nor held back what is of a day to come, nor both
\* of anything; and it took every heartbeat as released.
Passing ==
  /\ \A b \in taken : Day[b.time] \in todo => b \notin written /\ b \notin holding
  /\ \A b \in holding : b \notin written
  /\ ~flushing => todo = {}
  /\ \A b \in taken : b.kind = "beat" => b.released

\* A heartbeat that a drop can reach was not sent, and one in a place was not
\* taken back.
Beats ==
  /\ \A b \in values \cup Back : b.kind = "beat" /\ ~b.released => Core(b) \notin released
  /\ \A b \in values \cup Back \cup Unwritten : b.kind = "beat" => Core(b) \notin superseded
  /\ ReleasedStays

\* Values arrived in the order: the batch, what was dropped since, the buffer.
Ordered ==
  /\ ValuesInOrder
  /\ \A b \in values : b.turn <= 0
  /\ \A x \in Back, y \in values : x.kind = "value" /\ y.kind = "value" => x.seq < y.seq
  /\ \A x \in Unwritten, y \in values \cup Back :
       x.kind = "value" /\ y.kind = "value" => x.seq < y.seq

Places == Issued /\ Apart /\ Passing /\ Beats /\ Ordered /\ HeldIsCounted

-----------------------------------------------------------------------------
LEMMA BackTyped ==
  ASSUME TypeOK
  PROVE  Back \subseteq Buffered
  BY GapTyped DEF TypeOK, Back

\* What is lost is a record to write back or a marker, with the gap's Sequence.
LEMMA LostIs ==
  ASSUME TypeOK, NEW b \in AllLost
  PROVE  \/ b \in Back
         \/ b.kind = "marker" /\ \E n \in Nodes : b.seq = lost[n].seq
<1>1. PICK n \in Nodes : b \in LostRecords(lost[n], n)
  BY DEF AllLost
<1>2. CASE b \in lost[n].newest
  BY <1>2 DEF Back
<1>3. CASE b = Fresh(lost[n].seq, n, lost[n].marker, "marker")
  BY <1>3 DEF Fresh
<1> QED BY <1>1, <1>2, <1>3, Zenon DEF LostRecords

LEMMA BackIsLost == Back \subseteq AllLost
  BY DEF Back, AllLost, LostRecords

\* Where a push leaves the records.
LEMMA PushPlaces ==
  ASSUME StateOK, NEW doomed \in SUBSET Droppable, NEW new \in SUBSET Buffered, PushStep(doomed, new)
  PROVE  /\ values' = (values \ doomed) \cup new
         /\ \A b \in Back' : b \in Back /\ b \notin doomed
         /\ \A n \in Nodes : lost'[n].seq = lost[n].seq
         /\ next' = next + Cardinality(new)
         /\ superseded' = superseded \cup Cores(doomed)
         /\ UNCHANGED <<flushing, taken, written, todo, holding, files, refused, released>>
<1> USE DEF StateOK, PushStep
<1>1. ASSUME NEW n \in Nodes
      PROVE  /\ lost'[n].seq = lost[n].seq
             /\ \A b \in lost'[n].newest : b \in lost[n].newest /\ b \notin doomed
  <2>1. CASE lost[n].newest \cap doomed = {}
    <3>1. lost'[n] = lost[n]
      BY <2>1, Zenon DEF DropBeats
    <3> QED BY <3>1, <2>1
  <2>2. CASE lost[n].newest \cap doomed # {}
    <3>1. lost[n] \in Gap
      BY DEF TypeOK
    <3>2. lost'[n] = [lost[n] EXCEPT !.count = @ - 1, !.newest = {}]
      BY <2>2, Zenon DEF DropBeats
    <3>3. lost'[n].newest = {} /\ lost'[n].seq = lost[n].seq
      BY <3>1, <3>2, SMTT(30) DEF Gap
    <3> QED BY <3>3
  <2> QED BY <2>1, <2>2
<1>2. \A b \in Back' : b \in Back /\ b \notin doomed
  BY <1>1 DEF Back
<1>3. superseded' = superseded \cup Cores(doomed)
  BY Zenon DEF DropBeats
<1> QED BY <1>1, <1>2, <1>3 DEF Push, passVars

\* What a drop, a pass and its end do to the places.
LEMMA DropPlaces ==
  ASSUME StateOK, Drop
  PROVE  \E b \in values :
           /\ \A x \in values : x # b => Before(b, x)
           /\ values' = values \ {b} /\ held' = held - Cost
           /\ \A x \in Back' : x \in Back \/ x = b
           /\ \A n \in Nodes : lost'[n].seq = lost[n].seq \/ lost'[n].seq = b.seq
           /\ UNCHANGED <<next, flushing, taken, written, todo, holding, files, refused, superseded, released>>
<1> USE DEF StateOK
<1>1. PICK b \in values :
        /\ IsFront(b)
        /\ values' = values \ {b} /\ held' = held - Cost
        /\ lost' = [lost EXCEPT ![b.node] = Dropped(@, b)]
        /\ UNCHANGED <<next, passVars, ending, stored, superseded, released>>
  BY Zenon DEF Drop
<1>2. \A n \in Nodes : lost'[n] = lost[n] \/ lost'[n] = Dropped(lost[n], b)
  BY <1>1 DEF TypeOK
<1>3. ASSUME NEW n \in Nodes
      PROVE  /\ lost'[n].seq = lost[n].seq \/ lost'[n].seq = b.seq
             /\ \A x \in lost'[n].newest : x \in lost[n].newest \/ x = b
  <2>1. CASE lost'[n] = lost[n]
    BY <2>1
  <2>2. CASE lost'[n] = Dropped(lost[n], b)
    BY <2>2 DEF Dropped
  <2> QED BY <2>1, <2>2, <1>2
<1>4. \A x \in Back' : x \in Back \/ x = b
  BY <1>3 DEF Back
<1>5. \A x \in values : x # b => Before(b, x)
  BY <1>1 DEF IsFront
<1>6. UNCHANGED <<next, flushing, taken, written, todo, holding, files, refused, superseded, released>>
  BY <1>1 DEF passVars
<1> QED BY <1>1, <1>3, <1>4, <1>5, <1>6

LEMMA NoGapPlaces ==
  ASSUME lost' = [n \in Nodes |-> NoGap]
  PROVE  Back' = {} /\ \A n \in Nodes : lost'[n].seq = 0
  BY DEF NoGap, Back

\* Where the records of a batch come from: what the trim would write back, the
\* buffer, or a gap's marker.
TakenFrom(b, x) ==
  /\ b = Release(x) /\ b.seq = x.seq /\ b.kind = x.kind /\ Core(b) = Core(x) /\ (b.kind = "beat" => b.released)
  /\ \/ x \in Back
     \/ x \in values /\ x \notin values'
     \/ x.kind = "marker" /\ \E n \in Nodes : x.seq = lost[n].seq

LEMMA TakePlaces ==
  ASSUME StateOK, NEW cut, Take(cut)
  PROVE  /\ ~flushing /\ taken = {} /\ written' = {} /\ holding' = {} /\ flushing'
         /\ \A b \in values' : b \in values /\ b.kind = "beat"
         /\ held' = Cost * Cardinality(values')
         /\ Back' = {} /\ \A n \in Nodes : lost'[n].seq = 0
         /\ \A b \in taken' : \E x : TakenFrom(b, x)
         /\ released' = released \cup Cores({b \in taken' : b.kind = "beat"})
         /\ UNCHANGED <<next, files, refused, superseded>>
<1> USE DEF StateOK
<1> DEFINE kept == {b \in values : Publishing /\ ~ending /\ b.kind = "beat" /\ b.seq > cut}
           all == AllLost \cup (values \ kept)
<1>1. /\ ~flushing /\ flushing' = TRUE /\ taken' = {Release(b) : b \in all} /\ written' = {} /\ holding' = {}
      /\ values' = kept /\ held' = Cost * Cardinality(kept) /\ lost' = [n \in Nodes |-> NoGap]
      /\ released' = released \cup Cores({b \in taken' : b.kind = "beat"})
      /\ UNCHANGED <<next, files, refused, superseded>>
  BY Zenon DEF Take
<1>2. taken = {}
  BY <1>1 DEF PassOK
<1>3. \A b \in values' : b \in values /\ b.kind = "beat"
  BY <1>1
<1>4. ASSUME NEW x \in all
      PROVE  TakenFrom(Release(x), x)
  <2>1. x \in Buffered
    BY LostTyped DEF TypeOK
  <2>2. /\ Release(x).seq = x.seq /\ Release(x).kind = x.kind /\ Core(Release(x)) = Core(x)
        /\ Release(x).kind = "beat" => Release(x).released
    BY <2>1 DEF Release, Core
  <2>3. \/ x \in Back
        \/ x \in values /\ x \notin values'
        \/ x.kind = "marker" /\ \E n \in Nodes : x.seq = lost[n].seq
    BY <1>1, LostIs
  <2> QED BY <2>2, <2>3 DEF TakenFrom
<1>5. \A b \in taken' : \E x : TakenFrom(b, x)
  <2> HIDE DEF all
  <2> QED BY <1>1, <1>4, Zenon
<1> HIDE DEF kept, all
<1> QED BY <1>1, <1>2, <1>3, <1>5, NoGapPlaces

\* A day that is written, refused or held back.
LEMMA DayPlaces ==
  ASSUME StateOK, Passing, NEW d, WriteDay(d) \/ RefuseDay(d) \/ HoldDay(d)
  PROVE  /\ UNCHANGED <<next, values, held, lost, flushing, taken, superseded, released>>
         /\ Back' = Back
         /\ \A b \in Unwritten' : b \in Unwritten
         /\ \A r \in files' \cup refused' :
              r \in files \cup refused \/ \E b \in Unwritten : b \notin Unwritten' /\ r = Core(b)
         /\ Passing'
<1> USE DEF StateOK
<1>1. UNCHANGED <<next, values, held, lost, flushing, taken, superseded, released>> /\ flushing
  BY DEF WriteDay, RefuseDay, HoldDay, IsNext
<1>2. Back' = Back
  BY <1>1 DEF Back
<1>3. d \in todo /\ todo' = todo \ {d} /\ \A b \in OfDay(d) : b \in taken /\ b \notin written /\ b \notin holding
  BY DEF WriteDay, RefuseDay, HoldDay, IsNext, OfDay, Passing
<1>4. \/ /\ written' = written \cup OfDay(d) /\ holding' = holding
         /\ files' \cup refused' = files \cup refused \cup Cores(OfDay(d))
      \/ written' = written /\ holding' = holding \cup OfDay(d) /\ UNCHANGED <<files, refused>>
  BY Zenon DEF WriteDay, RefuseDay, HoldDay
<1>5. \A b \in Unwritten' : b \in Unwritten
  BY <1>1, <1>4 DEF Unwritten
<1>6. \A r \in files' \cup refused' :
        r \in files \cup refused \/ \E b \in Unwritten : b \notin Unwritten' /\ r = Core(b)
  BY <1>1, <1>3, <1>4 DEF Unwritten, Cores
<1>7. Passing'
  <2>1. \A b \in taken : Day[b.time] \in todo' => b \notin OfDay(d)
    BY <1>3 DEF OfDay
  <2> QED BY <2>1, <1>1, <1>3, <1>4 DEF Passing
<1> QED BY <1>1, <1>2, <1>5, <1>6, <1>7

\* b is x, given back with this turn.
IsTurned(b, x, turn) ==
  /\ b = Turned(x, turn) /\ b.seq = x.seq /\ b.kind = x.kind
  /\ Core(b) = Core(x) /\ b.released = x.released

\* What a pass gives back, and the gaps made meanwhile, before all that is buffered.
GivenBack(turn, gaps, late) ==
  /\ values' = values \cup (gaps \cup late)
  /\ held' = held + Cost * Cardinality(gaps \cup late)
  /\ IsFiniteSet(gaps \cup late)
  /\ \A b \in values : turn < b.turn
  /\ \A b \in gaps : b.turn = turn /\ \E x \in AllLost : IsTurned(b, x, turn)
  /\ \A b \in late : b.turn = turn - 1 /\ \E x \in Unwritten : IsTurned(b, x, turn - 1)
  /\ Back' = {} /\ (\A n \in Nodes : lost'[n].seq = 0)
  /\ ~flushing' /\ todo' = {} /\ taken' = {} /\ written' = {} /\ holding' = {}
  /\ UNCHANGED <<next, files, refused, superseded, released>>

LEMMA ReturnPlaces ==
  ASSUME StateOK, Passing, Return
  PROVE  \E turn \in Turns, gaps \in SUBSET Buffered, late \in SUBSET Buffered :
           GivenBack(turn, gaps, late)
<1> USE DEF StateOK
<1>1. PICK turn \in Turns :
        LET back == {Turned(b, turn) : b \in AllLost} \cup {Turned(b, turn - 1) : b \in holding}
        IN IsTurn(turn) /\ values' = values \cup back /\ held' = held + Cost * Cardinality(back)
  BY Zenon DEF Return
<1> DEFINE gaps == {Turned(b, turn) : b \in AllLost}
           late == {Turned(b, turn - 1) : b \in holding}
           f == [b \in AllLost |-> Turned(b, turn)]
           g == [b \in holding |-> Turned(b, turn - 1)]
<1>2. turn \in Int /\ turn - 1 \in Int
  BY TurnsAssumption
<1>3. AllLost \subseteq Buffered /\ holding \subseteq Buffered
  BY LostTyped DEF TypeOK
<1>4. ASSUME NEW x \in Buffered, NEW u \in Int
      PROVE  /\ Turned(x, u) \in Buffered /\ Turned(x, u).turn = u /\ Turned(x, u).seq = x.seq
             /\ Turned(x, u).kind = x.kind /\ Core(Turned(x, u)) = Core(x) /\ Turned(x, u).released = x.released
  BY SameRecord DEF Turned
<1>5. gaps \in SUBSET Buffered /\ late \in SUBSET Buffered
  BY <1>2, <1>3, <1>4
<1>6. IsFiniteSet(gaps \cup late)
  <2>1. IsFiniteSet(AllLost) /\ IsFiniteSet(holding)
    BY LostFinite, FS_Subset DEF FiniteOK, TypeOK
  <2>2. IsFiniteSet({f[b] : b \in AllLost}) /\ IsFiniteSet({g[b] : b \in holding})
    BY <2>1, ImageFinite, Zenon
  <2>3. IsFiniteSet(gaps) /\ IsFiniteSet(late)
    BY <2>2
  <2> QED BY <2>3, FS_Union, Zenon
<1>7. \A b \in gaps : b.turn = turn /\ \E x \in AllLost : IsTurned(b, x, turn)
  BY <1>2, <1>3, <1>4 DEF IsTurned
<1>8. holding \subseteq Unwritten
  BY DEF Passing, Unwritten, TypeOK
<1>9. \A b \in late : b.turn = turn - 1 /\ \E x \in Unwritten : IsTurned(b, x, turn - 1)
  BY <1>2, <1>3, <1>4, <1>8 DEF IsTurned
<1>10. \A b \in values : turn < b.turn
  BY <1>1 DEF IsTurn
<1>11. values' = values \cup (gaps \cup late) /\ held' = held + Cost * Cardinality(gaps \cup late)
  BY <1>1
<1>12. /\ ~flushing' /\ todo' = {} /\ taken' = {} /\ written' = {} /\ holding' = {}
       /\ lost' = [n \in Nodes |-> NoGap]
       /\ UNCHANGED <<next, files, refused, superseded, released>>
  BY DEF Return
<1>13. Back' = {} /\ \A n \in Nodes : lost'[n].seq = 0
  BY <1>12, NoGapPlaces
<1> HIDE DEF gaps, late
<1>14. GivenBack(turn, gaps, late)
  BY <1>6, <1>7, <1>9, <1>10, <1>11, <1>12, <1>13, Zenon DEF GivenBack
<1> QED BY <1>5, <1>14

-----------------------------------------------------------------------------
LEMMA Typed ==
  ASSUME TypeOK
  PROVE  /\ next \in Nat
         /\ \A b \in values \cup Back \cup taken : b.seq \in Nat /\ b.turn \in Int /\ b.released \in BOOLEAN
         /\ \A r \in files \cup refused \cup released \cup superseded : r.seq \in Nat
         /\ \A n \in Nodes : lost[n].seq \in Nat
<1>1. values \cup Back \cup taken \subseteq Buffered
  BY BackTyped DEF TypeOK
<1>2. next \in Nat /\ files \cup refused \cup released \cup superseded \subseteq Record
  BY DEF TypeOK
<1>3. \A n \in Nodes : lost[n].seq \in Nat
  BY DEF TypeOK, Gap
<1> QED BY <1>1, <1>2, <1>3 DEF Buffered, Record

\* A record's Core has its Sequence and its kind.
LEMMA CoreHas ==
  ASSUME NEW b
  PROVE  Core(b).seq = b.seq /\ Core(b).kind = b.kind
  BY DEF Core

LEMMA PushKeepsPlaces ==
  ASSUME StateOK, Places, NEW doomed \in SUBSET Droppable, NEW new \in SUBSET Buffered,
         NewOK(new), PushStep(doomed, new)
  PROVE  Places'
<1>1. /\ values' = (values \ doomed) \cup new
      /\ \A b \in Back' : b \in Back /\ b \notin doomed
      /\ \A n \in Nodes : lost'[n].seq = lost[n].seq
      /\ next' = next + Cardinality(new)
      /\ superseded' = superseded \cup Cores(doomed)
      /\ UNCHANGED <<flushing, taken, written, todo, holding, files, refused, released>>
  BY PushPlaces
<1>2. /\ IsFiniteSet(new) /\ Cardinality(new) \in Nat
      /\ \A b \in new : b.seq \in Nat /\ next <= b.seq /\ b.seq < next' /\ b.turn = 0 /\ ~b.released
      /\ \A x, y \in new : x.seq = y.seq => x = y
  BY <1>1, FS_CardinalityType DEF NewOK, Buffered
<1>3. /\ next \in Nat
      /\ \A b \in values \cup Back \cup taken : b.seq \in Nat /\ b.turn \in Int /\ b.released \in BOOLEAN
      /\ \A r \in files \cup refused \cup released \cup superseded : r.seq \in Nat
      /\ \A n \in Nodes : lost[n].seq \in Nat
  BY Typed DEF StateOK
<1>4. \A b \in doomed : b \in values \cup Back /\ b.kind = "beat" /\ ~b.released
  BY DEF Droppable, Back
<1>5. Unwritten' = Unwritten
  BY <1>1 DEF Unwritten
<1>6. Issued'
  <2>1. \A r \in superseded' : r \in superseded \/ \E b \in doomed : r.seq = b.seq
    BY <1>1, CoreHas DEF Cores
  <2>2. next <= next'
    BY <1>1, <1>2, <1>3
  <2>3. \A r \in superseded' : r.seq < next'
    <3>1. \A r \in superseded' : r.seq \in Nat /\ r.seq < next
      BY <2>1, <1>3, <1>4 DEF Places, Issued
    <3>2. next' \in Nat
      BY <1>1, <1>2, <1>3
    <3> QED BY <3>1, <3>2, <2>2, <1>3
  <2>4. \A b \in values' \cup Back' \cup taken' : b.seq < next'
    BY <2>2, <1>1, <1>2, <1>3 DEF Places, Issued
  <2>5. next' > 0 /\ \A n \in Nodes : lost'[n].seq < next'
    BY <2>2, <1>1, <1>2, <1>3 DEF Places, Issued
  <2>6. \A r \in files' \cup refused' \cup released' : r.seq < next'
    BY <2>2, <1>1, <1>2, <1>3 DEF Places, Issued
  <2> QED BY <2>3, <2>4, <2>5, <2>6 DEF Issued
<1>7. \A x \in new : /\ \A b \in values \cup Back \cup taken : b.seq # x.seq /\ b # x
                     /\ \A r \in files \cup refused \cup released \cup superseded : r.seq # x.seq
  BY <1>2, <1>3 DEF Places, Issued
<1>8. Apart'
  <2>1. \A x, y \in values' \cup Back' : Data(x) /\ Data(y) /\ x.seq = y.seq => x = y
    BY <1>1, <1>2, <1>7 DEF Places, Apart
  <2>2. \A x \in values' : Data(x) => x \notin Back'
    BY <1>1, <1>7 DEF Places, Apart
  <2>3. \A x \in values' \cup Back', y \in Unwritten : Data(x) /\ Data(y) => x.seq # y.seq
    BY <1>1, <1>7 DEF Places, Apart, Unwritten
  <2>4. \A r \in files \cup refused, x \in values' \cup Back' \cup Unwritten :
          Data(r) /\ Data(x) => r.seq # x.seq
    BY <1>1, <1>7 DEF Places, Apart
  <2> QED BY <2>1, <2>2, <2>3, <2>4, <1>1, <1>5 DEF Places, Apart
<1>9. Passing'
  BY <1>1 DEF Places, Passing
<1>10. Beats'
  <2>1. \A x \in new : Core(x) \notin released /\ Core(x) \notin superseded
    BY <1>7, CoreHas
  <2>2. \A x \in new, b \in doomed : Core(x) # Core(b)
    BY <1>4, <1>7, CoreHas
  <2>3. ASSUME NEW b \in (values \ doomed) \cup Back' \cup Unwritten, b.kind = "beat", NEW x \in doomed
        PROVE  Core(b) # Core(x)
    <3>1. b # x
      BY <1>1, <1>4, <2>3 DEF Places, Apart, Data, Unwritten
    <3>2. b.seq # x.seq
      BY <1>1, <1>4, <2>3, <3>1 DEF Places, Apart, Data
    <3> QED BY <3>2, CoreHas
  <2>4. \A b \in values' \cup Back' : b.kind = "beat" /\ ~b.released => Core(b) \notin released'
    BY <1>1, <2>1 DEF Places, Beats
  <2>5. \A b \in values' \cup Back' \cup Unwritten' : b.kind = "beat" => Core(b) \notin superseded'
    BY <1>1, <1>5, <2>1, <2>2, <2>3 DEF Places, Beats, Cores
  <2>6. ReleasedStays'
    <3>1. \A b \in doomed : Core(b) \notin released
      BY <1>4 DEF Places, Beats
    <3> QED BY <1>1, <3>1 DEF Places, Beats, ReleasedStays, Cores
  <2> QED BY <2>4, <2>5, <2>6 DEF Beats
<1>11. Ordered'
  <2>1. ASSUME NEW x \in values', NEW y \in values', x.kind = "value", y.kind = "value", x.seq < y.seq
        PROVE  Before(x, y)
    <3>1. CASE y \in new
      <4>1. x.turn <= 0 /\ y.turn = 0 /\ x.turn \in Int
        BY <3>1, <1>1, <1>2, <1>3 DEF Places, Ordered
      <4> QED BY <4>1, <2>1 DEF Before
    <3>2. CASE y \notin new
      <4>1. x \notin new
        BY <3>2, <2>1, <1>1, <1>2, <1>3 DEF Places, Issued
      <4> QED BY <4>1, <3>2, <2>1, <1>1 DEF Places, Ordered, ValuesInOrder
    <3> QED BY <3>1, <3>2
  <2>2. ValuesInOrder'
    BY <2>1 DEF ValuesInOrder, Before
  <2>3. \A b \in values' : b.turn <= 0
    BY <1>1, <1>2 DEF Places, Ordered
  <2>4. \A x \in Back' \cup Unwritten, y \in new : x.seq < y.seq
    BY <1>1, <1>2, <1>3 DEF Places, Issued, Unwritten
  <2>5. \A x \in Back', y \in values' : x.kind = "value" /\ y.kind = "value" => x.seq < y.seq
    BY <2>4, <1>1 DEF Places, Ordered
  <2>6. \A x \in Unwritten, y \in values' \cup Back' : x.kind = "value" /\ y.kind = "value" => x.seq < y.seq
    BY <2>4, <1>1 DEF Places, Ordered
  <2> QED BY <2>2, <2>3, <2>5, <2>6, <1>5 DEF Ordered
<1>12. HeldIsCounted'
  <2>1. IsFiniteSet(values)
    BY DEF StateOK, FiniteOK
  <2>2. /\ IsFiniteSet(values \ doomed)
        /\ Cardinality(values \ doomed) = Cardinality(values) - Cardinality(values \cap doomed)
    BY <2>1, FS_Difference, Zenon
  <2>3. (values \ doomed) \cap new = {}
    BY <1>7
  <2>4. Cardinality(values') = Cardinality(values \ doomed) + Cardinality(new) - Cardinality((values \ doomed) \cap new)
    BY <2>2, <1>1, <1>2, FS_Union, Zenon
  <2>5. Cardinality((values \ doomed) \cap new) = 0
    BY <2>3, FS_EmptySet, Zenon
  <2>6. Cardinality(values) \in Nat /\ Cardinality(values \cap doomed) \in Nat /\ Cost \in Nat
    BY <2>1, FS_CardinalityType, FS_Intersection, CostAssumption
  <2>7. held' = held - Cost * Cardinality(values \cap doomed) + Cost * Cardinality(new)
    BY DEF PushStep, Push
  <2>8. held = Cost * Cardinality(values)
    BY DEF Places, HeldIsCounted
  <2>9. \A a, b, c \in Nat : Cost * a - Cost * b + Cost * c = Cost * (a - b + c)
    BY <2>6
  <2>10. Cardinality(values') = Cardinality(values) - Cardinality(values \cap doomed) + Cardinality(new)
    BY <2>2, <2>4, <2>5, <2>6, <1>2
  <2>11. held' = Cost * Cardinality(values')
    BY <2>6, <2>7, <2>8, <2>9, <2>10, <1>2
  <2> QED BY <2>11 DEF HeldIsCounted
<1> QED BY <1>6, <1>8, <1>9, <1>10, <1>11, <1>12 DEF Places

LEMMA DropKeepsPlaces ==
  ASSUME StateOK, Places, Drop
  PROVE  Places'
<1>1. PICK b \in values :
        /\ \A x \in values : x # b => Before(b, x)
        /\ values' = values \ {b} /\ held' = held - Cost
        /\ \A x \in Back' : x \in Back \/ x = b
        /\ \A n \in Nodes : lost'[n].seq = lost[n].seq \/ lost'[n].seq = b.seq
        /\ UNCHANGED <<next, flushing, taken, written, todo, holding, files, refused, superseded, released>>
  BY DropPlaces
<1>2. /\ next \in Nat
      /\ \A x \in values \cup Back \cup taken : x.seq \in Nat /\ x.turn \in Int /\ x.released \in BOOLEAN
  BY Typed DEF StateOK
<1>3. Unwritten' = Unwritten
  BY <1>1 DEF Unwritten
<1>4. \A x \in values' \cup Back' : x \in values \cup Back
  BY <1>1
<1>5. Issued'
  BY <1>1, <1>4 DEF Places, Issued
<1>6. Apart'
  <2>1. \A x \in values' : Data(x) => x \notin Back'
    BY <1>1 DEF Places, Apart
  <2> QED BY <2>1, <1>1, <1>3, <1>4 DEF Places, Apart
<1>7. Passing'
  BY <1>1 DEF Places, Passing
<1>8. Beats'
  BY <1>1, <1>3, <1>4 DEF Places, Beats, ReleasedStays
<1>9. Ordered'
  <2>1. ASSUME NEW y \in values, y # b, b.kind = "value", y.kind = "value"
        PROVE  b.seq < y.seq
    <3>1. Before(b, y)
      BY <1>1, <2>1
    <3>2. y.seq < b.seq => Before(y, b)
      BY <2>1 DEF Places, Ordered, ValuesInOrder
    <3>3. ~(Before(b, y) /\ Before(y, b))
      BY <1>2, <2>1 DEF Before
    <3>4. y.seq # b.seq
      BY <2>1 DEF Places, Apart, Data
    <3> QED BY <3>1, <3>2, <3>3, <3>4, <1>2
  <2>2. ValuesInOrder'
    BY <1>1 DEF Places, Ordered, ValuesInOrder, Before
  <2>3. \A x \in Back', y \in values' : x.kind = "value" /\ y.kind = "value" => x.seq < y.seq
    BY <2>1, <1>1 DEF Places, Ordered
  <2> QED BY <2>2, <2>3, <1>1, <1>3, <1>4 DEF Places, Ordered
<1>10. HeldIsCounted'
  <2>1. IsFiniteSet(values) /\ Cardinality(values) \in Nat /\ Cost \in Nat
    BY FS_CardinalityType, CostAssumption DEF StateOK, FiniteOK
  <2>2. Cardinality(values') = Cardinality(values) - 1
    BY <2>1, <1>1, FS_RemoveElement, Zenon
  <2>3. \A a \in Nat : Cost * a - Cost = Cost * (a - 1)
    BY <2>1
  <2> QED BY <2>1, <2>2, <2>3, <1>1 DEF Places, HeldIsCounted
<1> QED BY <1>5, <1>6, <1>7, <1>8, <1>9, <1>10 DEF Places

LEMMA TakeKeepsPlaces ==
  ASSUME StateOK, Places, NEW cut, Take(cut)
  PROVE  Places'
<1>1. /\ ~flushing /\ taken = {} /\ written' = {} /\ holding' = {} /\ flushing'
      /\ \A b \in values' : b \in values /\ b.kind = "beat"
      /\ held' = Cost * Cardinality(values')
      /\ Back' = {} /\ \A n \in Nodes : lost'[n].seq = 0
      /\ \A b \in taken' : \E x : TakenFrom(b, x)
      /\ released' = released \cup Cores({b \in taken' : b.kind = "beat"})
      /\ UNCHANGED <<next, files, refused, superseded>>
  BY TakePlaces
<1>2. Unwritten' = taken'
  BY <1>1 DEF Unwritten
<1>3. ASSUME NEW b \in taken'
      PROVE  b.seq < next /\ (b.kind = "beat" => b.released)
  <2>1. PICK x : TakenFrom(b, x)
    BY <1>1
  <2> QED BY <2>1 DEF TakenFrom, Places, Issued
<1>4. ASSUME NEW b \in taken', Data(b)
      PROVE  \E x \in values \cup Back :
               /\ b = Release(x) /\ b.seq = x.seq /\ b.kind = x.kind /\ Core(b) = Core(x) /\ x \notin values'
  <2>1. PICK x : TakenFrom(b, x)
    BY <1>1
  <2>2. x \in Back => x \notin values'
    BY <1>1, <1>4, <2>1 DEF Places, Apart, Data, TakenFrom
  <2>3. x \in values \cup Back /\ x \notin values'
    BY <1>4, <2>1, <2>2 DEF TakenFrom, Data
  <2> QED BY <2>1, <2>3 DEF TakenFrom
<1>5. Issued'
  <2>1. \A r \in released' : r.seq < next
    BY <1>1, <1>3, CoreHas DEF Places, Issued, Cores
  <2>2. next > 0 /\ \A b \in values' \cup Back' \cup taken' : b.seq < next
    BY <1>1, <1>3 DEF Places, Issued
  <2>3. \A r \in files \cup refused \cup superseded : r.seq < next
    BY DEF Places, Issued
  <2> QED BY <2>1, <2>2, <2>3, <1>1 DEF Issued
<1>6. \A x \in values', y \in taken' : Data(x) /\ Data(y) => x.seq # y.seq
  <2> SUFFICES ASSUME NEW x \in values', NEW y \in taken', Data(x), Data(y)
               PROVE  x.seq # y.seq
    OBVIOUS
  <2>1. PICK z \in values \cup Back : y.seq = z.seq /\ y.kind = z.kind /\ z \notin values'
    BY <1>4
  <2> QED BY <2>1, <1>1 DEF Places, Apart, Data
<1>7. Apart'
  <2>1. \A x, y \in taken' : Data(x) /\ Data(y) /\ x.seq = y.seq => x = y
    <3> SUFFICES ASSUME NEW x \in taken', NEW y \in taken', Data(x), Data(y), x.seq = y.seq
                 PROVE  x = y
      OBVIOUS
    <3>1. PICK u \in values \cup Back : x = Release(u) /\ x.seq = u.seq /\ x.kind = u.kind
      BY <1>4
    <3>2. PICK v \in values \cup Back : y = Release(v) /\ y.seq = v.seq /\ y.kind = v.kind
      BY <1>4
    <3>3. u = v
      BY <3>1, <3>2 DEF Places, Apart, Data
    <3> QED BY <3>1, <3>2, <3>3
  <2>2. \A r \in files \cup refused, x \in taken' : Data(r) /\ Data(x) => r.seq # x.seq
    BY <1>4 DEF Places, Apart, Data
  <2>3. \A x, y \in values' : Data(x) /\ Data(y) /\ x.seq = y.seq => x = y
    BY <1>1 DEF Places, Apart
  <2>4. \A r \in files \cup refused, x \in values' : Data(r) /\ Data(x) => r.seq # x.seq
    BY <1>1 DEF Places, Apart
  <2> QED BY <1>1, <1>2, <1>6, <2>1, <2>2, <2>3, <2>4 DEF Apart
<1>8. Passing'
  BY <1>1, <1>3 DEF Passing
<1>9. Beats'
  <2>1. ASSUME NEW b \in taken', b.kind = "beat"
        PROVE  Core(b) \notin superseded
    BY <1>4, <2>1 DEF Places, Beats, Data
  <2>2. ASSUME NEW b \in values', NEW x \in taken', x.kind = "beat"
        PROVE  Core(b) # Core(x)
    BY <1>1, <1>6, <2>2, CoreHas DEF Data
  <2>3. \A b \in values' : b.kind = "beat" /\ ~b.released => Core(b) \notin released'
    BY <1>1, <2>2 DEF Places, Beats, Cores
  <2>4. \A b \in values' \cup taken' : b.kind = "beat" => Core(b) \notin superseded'
    BY <1>1, <2>1 DEF Places, Beats
  <2>5. ReleasedStays'
    BY <1>1, <2>1 DEF Places, Beats, ReleasedStays, Cores
  <2> QED BY <2>3, <2>4, <2>5, <1>1, <1>2 DEF Beats
<1>10. Ordered'
  BY <1>1 DEF Places, Ordered, ValuesInOrder, Before
<1>11. HeldIsCounted'
  BY <1>1 DEF HeldIsCounted
<1> QED BY <1>5, <1>7, <1>8, <1>9, <1>10, <1>11 DEF Places

LEMMA DayKeepsPlaces ==
  ASSUME StateOK, Places, NEW d, WriteDay(d) \/ RefuseDay(d) \/ HoldDay(d)
  PROVE  Places'
<1>1. /\ UNCHANGED <<next, values, held, lost, flushing, taken, superseded, released>>
      /\ Back' = Back
      /\ \A b \in Unwritten' : b \in Unwritten
      /\ \A r \in files' \cup refused' :
           r \in files \cup refused \/ \E b \in Unwritten : b \notin Unwritten' /\ r = Core(b)
      /\ Passing'
  BY DayPlaces DEF Places
<1>u. /\ UNCHANGED <<next, values, held, lost, flushing, taken, superseded, released>>
      /\ Back' = Back
  BY <1>1
<1>w. Unwritten' \subseteq Unwritten
  BY <1>1
<1>2. ASSUME NEW r \in files' \cup refused', r \notin files \cup refused
      PROVE  \E b \in taken : b \in Unwritten /\ b \notin Unwritten' /\ r.seq = b.seq /\ r.kind = b.kind
  BY <1>1, <1>2, CoreHas DEF Unwritten
<1>3. Issued'
  BY <1>u, <1>w, <1>2 DEF Places, Issued
<1>4. Apart'
  <2>1. \A r \in files' \cup refused', x \in values \cup Back : Data(r) /\ Data(x) => r.seq # x.seq
    BY <1>2 DEF Places, Apart, Data
  <2>2. \A x \in Unwritten' : x \in taken
    BY <1>u DEF Unwritten
  <2>3. \A r \in files' \cup refused', x \in Unwritten' : Data(r) /\ Data(x) => r.seq # x.seq
    BY <1>w, <1>2, <2>2 DEF Places, Apart, Data
  <2> QED BY <2>1, <2>3, <1>u, <1>w DEF Places, Apart
<1>5. Beats'
  BY <1>u, <1>w DEF Places, Beats, ReleasedStays
<1>6. Ordered'
  BY <1>u, <1>w DEF Places, Ordered, ValuesInOrder, Before
<1>7. HeldIsCounted'
  BY <1>u DEF Places, HeldIsCounted
<1> QED BY <1>1, <1>3, <1>4, <1>5, <1>6, <1>7 DEF Places

LEMMA ReturnKeepsPlaces ==
  ASSUME StateOK, Places, Return
  PROVE  Places'
<1>1. PICK turn \in Turns, gaps \in SUBSET Buffered, late \in SUBSET Buffered :
        GivenBack(turn, gaps, late)
  BY ReturnPlaces DEF Places
<1>v. values' = values \cup gaps \cup late /\ \A b \in values : turn < b.turn
  BY <1>1 DEF GivenBack
<1>g. \A b \in gaps : b.turn = turn /\ \E x \in AllLost : IsTurned(b, x, turn)
  BY <1>1 DEF GivenBack
<1>l. \A b \in late : b.turn = turn - 1 /\ \E x \in Unwritten : IsTurned(b, x, turn - 1)
  BY <1>1 DEF GivenBack
<1>u. /\ Back' = {} /\ (\A n \in Nodes : lost'[n].seq = 0)
      /\ ~flushing' /\ todo' = {} /\ taken' = {} /\ written' = {} /\ holding' = {}
      /\ UNCHANGED <<next, files, refused, superseded, released>>
  BY <1>1 DEF GivenBack
<1>2. Unwritten' = {}
  BY <1>u DEF Unwritten
<1>3. ASSUME NEW b \in gaps
      PROVE  /\ b.turn = turn /\ b.seq < next
             /\ Data(b) => \E x \in Back : IsTurned(b, x, turn)
  <2>1. PICK x \in AllLost : IsTurned(b, x, turn)
    BY <1>g
  <2>2. x \in Back \/ (x.kind = "marker" /\ \E n \in Nodes : x.seq = lost[n].seq)
    BY LostIs DEF StateOK
  <2>3. b.turn = turn /\ b.seq < next
    BY <1>g, <2>1, <2>2 DEF Places, Issued, IsTurned
  <2> QED BY <2>1, <2>2, <2>3 DEF Data, IsTurned
<1>4. ASSUME NEW b \in late
      PROVE  /\ b.turn = turn - 1 /\ b.seq < next
             /\ \E x \in Unwritten : IsTurned(b, x, turn - 1)
  BY <1>l DEF Places, Issued, Unwritten, IsTurned
<1>5. turn \in Int /\ turn <= 0
  BY TurnsAssumption
<1>6. \A b \in values \cup gaps \cup late : b.seq \in Nat /\ b.turn \in Int
  BY DEF StateOK, TypeOK, Buffered
<1>7. Issued'
  BY <1>v, <1>u, <1>3, <1>4 DEF Places, Issued
<1>8. \A x \in values, y \in gaps \cup late : Data(x) /\ Data(y) => x.seq # y.seq
  BY <1>3, <1>4 DEF Places, Apart, Data, IsTurned
<1>9. \A x \in gaps, y \in late : Data(x) /\ Data(y) => x.seq # y.seq
  BY <1>3, <1>4 DEF Places, Apart, Data, IsTurned
<1>10. \A x, y \in gaps : Data(x) /\ Data(y) /\ x.seq = y.seq => x = y
  BY <1>3 DEF Places, Apart, Data, IsTurned
<1>11. \A x, y \in late : Data(x) /\ Data(y) /\ x.seq = y.seq => x = y
  BY <1>4 DEF Places, Apart, Data, Unwritten, IsTurned
<1>12. Apart'
  <2>1. \A x, y \in values' : Data(x) /\ Data(y) /\ x.seq = y.seq => x = y
    BY <1>v, <1>8, <1>9, <1>10, <1>11 DEF Places, Apart
  <2>2. \A r \in files \cup refused, x \in gaps \cup late : Data(r) /\ Data(x) => r.seq # x.seq
    BY <1>3, <1>4 DEF Places, Apart, Data, IsTurned
  <2>3. \A r \in files \cup refused, x \in values' : Data(r) /\ Data(x) => r.seq # x.seq
    BY <2>2, <1>v DEF Places, Apart
  <2> QED BY <2>1, <2>3, <1>u, <1>2 DEF Apart
<1>13. Passing'
  BY <1>u DEF Passing
<1>14. Beats'
  <2>1. \A b \in gaps : b.kind = "beat" => (~b.released => Core(b) \notin released) /\ Core(b) \notin superseded
    BY <1>3 DEF Places, Beats, Data, IsTurned
  <2>2. \A b \in late : b.kind = "beat" => b.released /\ Core(b) \notin superseded
    BY <1>4 DEF Places, Beats, Passing, Unwritten, IsTurned
  <2>3. \A b \in values' : b.kind = "beat" => (~b.released => Core(b) \notin released) /\ Core(b) \notin superseded
    BY <2>1, <2>2, <1>v DEF Places, Beats
  <2> QED BY <2>3, <1>u, <1>2 DEF Places, Beats, ReleasedStays
<1>15. Ordered'
  <2>1. \A x \in gaps, y \in values : x.kind = "value" /\ y.kind = "value" => x.seq < y.seq
    BY <1>3 DEF Places, Ordered, Data, IsTurned
  <2>2. \A x \in late, y \in values : x.kind = "value" /\ y.kind = "value" => x.seq < y.seq
    BY <1>4 DEF Places, Ordered, IsTurned
  <2>3. \A x \in late, y \in gaps : x.kind = "value" /\ y.kind = "value" => x.seq < y.seq
    BY <1>3, <1>4 DEF Places, Ordered, Data, IsTurned
  <2>4. ASSUME NEW x \in values', NEW y \in values', x.kind = "value", y.kind = "value", x.seq < y.seq
        PROVE  Before(x, y)
    <3>1. CASE x \in values
      <4>1. y \in values
        BY <2>1, <2>2, <2>4, <3>1, <1>v, <1>6
      <4> QED BY <4>1, <3>1, <2>4 DEF Places, Ordered, ValuesInOrder
    <3>2. CASE x \in gaps
      <4>1. y \in values \cup gaps
        BY <2>3, <2>4, <3>2, <1>v, <1>6
      <4>2. y.turn >= turn /\ x.turn = turn
        BY <4>1, <3>2, <1>v, <1>g, <1>5, <1>6
      <4> QED BY <4>2, <2>4, <1>5, <1>6, <1>v DEF Before
    <3>3. CASE x \in late
      <4>1. y.turn >= turn - 1 /\ x.turn = turn - 1 /\ y.turn \in Int
        BY <3>3, <1>v, <1>g, <1>l, <1>5, <1>6
      <4> QED BY <4>1, <2>4, <1>5 DEF Before
    <3> QED BY <3>1, <3>2, <3>3, <1>v
  <2>5. ValuesInOrder'
    BY <2>4 DEF ValuesInOrder, Before
  <2>6. \A b \in values' : b.turn <= 0
    BY <1>v, <1>g, <1>l, <1>5 DEF Places, Ordered
  <2> QED BY <2>5, <2>6, <1>u, <1>2 DEF Ordered
<1>16. HeldIsCounted'
  <2> DEFINE back == gaps \cup late
  <2>1. values \cap back = {}
    BY <1>v, <1>g, <1>l, <1>5, <1>6
  <2>2. IsFiniteSet(values) /\ IsFiniteSet(back)
    BY <1>1 DEF StateOK, FiniteOK, GivenBack
  <2>3. Cardinality(values \cup back) = Cardinality(values) + Cardinality(back) - Cardinality(values \cap back)
    <3> HIDE DEF back
    <3> QED BY <2>2, FS_Union, Zenon
  <2>4. Cardinality(values \cap back) = 0
    BY <2>1, FS_EmptySet, Zenon
  <2>5. Cardinality(values) \in Nat /\ Cardinality(back) \in Nat /\ Cost \in Nat
    <3> HIDE DEF back
    <3> QED BY <2>2, FS_CardinalityType, CostAssumption
  <2>6. \A a, c \in Nat : Cost * a + Cost * c = Cost * (a + c)
    BY <2>5
  <2>7. values' = values \cup back /\ held' = held + Cost * Cardinality(back)
    BY <1>1 DEF GivenBack
  <2> HIDE DEF back
  <2>8. Cardinality(values') = Cardinality(values) + Cardinality(back)
    BY <2>3, <2>4, <2>5, <2>7
  <2> QED BY <2>5, <2>6, <2>7, <2>8 DEF Places, HeldIsCounted
<1> QED BY <1>7, <1>12, <1>13, <1>14, <1>15, <1>16 DEF Places

LEMMA FinishKeepsPlaces ==
  ASSUME StateOK, Places, Finish
  PROVE  Places'
<1>1. flushing' = FALSE /\ taken' = {} /\ written' = {} /\ todo = {} /\ holding = {}
      /\ UNCHANGED <<next, values, held, lost, todo, holding, files, refused, superseded, released>>
  BY DEF Finish
<1>2. Unwritten' = {} /\ Back' = Back
  BY <1>1 DEF Unwritten, Back
<1>3. Issued'
  BY <1>1, <1>2 DEF Places, Issued
<1>4. Apart'
  BY <1>1, <1>2 DEF Places, Apart
<1>5. Passing'
  BY <1>1 DEF Passing
<1>6. Beats'
  BY <1>1, <1>2 DEF Places, Beats, ReleasedStays
<1>7. Ordered' /\ HeldIsCounted'
  BY <1>1, <1>2 DEF Places, Ordered, ValuesInOrder, Before, HeldIsCounted
<1> QED BY <1>3, <1>4, <1>5, <1>6, <1>7 DEF Places

LEMMA IdleKeepsPlaces ==
  ASSUME Places, End \/ UNCHANGED vars
  PROVE  Places'
<1>1. UNCHANGED <<next, values, held, lost, passVars, superseded, released>>
  BY Zenon DEF End, vars, passVars
<1>2. UNCHANGED <<flushing, taken, written, todo, holding, files, refused>>
  BY <1>1 DEF passVars
<1>3. Unwritten' = Unwritten /\ Back' = Back
  BY <1>1, <1>2 DEF Unwritten, Back
<1>4. Issued'
  BY <1>1, <1>2, <1>3 DEF Places, Issued
<1>5. Apart'
  BY <1>1, <1>2, <1>3 DEF Places, Apart
<1>6. Passing'
  BY <1>2 DEF Places, Passing
<1>7. Beats'
  BY <1>1, <1>2, <1>3 DEF Places, Beats, ReleasedStays
<1>8. Ordered' /\ HeldIsCounted'
  BY <1>1, <1>2, <1>3 DEF Places, Ordered, ValuesInOrder, Before, HeldIsCounted
<1> QED BY <1>4, <1>5, <1>6, <1>7, <1>8 DEF Places

LEMMA InitPlaces ==
  ASSUME Init
  PROVE  Places
<1>1. /\ next = 1 /\ values = {} /\ held = 0 /\ lost = [n \in Nodes |-> NoGap] /\ ~flushing
      /\ taken = {} /\ written = {} /\ todo = {} /\ holding = {}
      /\ files = {} /\ refused = {} /\ superseded = {} /\ released = {}
  BY DEF Init
<1>2. Back = {} /\ Unwritten = {} /\ \A n \in Nodes : lost[n].seq = 0
  BY <1>1 DEF Back, Unwritten, NoGap
<1>3. Issued /\ Apart
  BY <1>1, <1>2 DEF Issued, Apart
<1>4. Passing /\ Beats
  BY <1>1 DEF Passing, Beats, ReleasedStays
<1>5. Ordered
  BY <1>1, <1>2 DEF Ordered, ValuesInOrder
<1>6. HeldIsCounted
  BY <1>1, FS_EmptySet, CostAssumption DEF HeldIsCounted
<1> QED BY <1>3, <1>4, <1>5, <1>6 DEF Places

LEMMA NextPlaces ==
  ASSUME StateOK, Places, [Next]_vars
  PROVE  Places'
<1>1. ASSUME NEW n \in Nodes, NEW at \in Times, NEW t \in Times, NEW who, NEW made,
             \/ Collect(n, t) \/ Pend(n, t) \/ Settle(n, t) \/ CollectAfterBreak(n, at, t)
             \/ MarkBreak(n, at) \/ Beat(n, t) \/ Disconnected(who, made)
      PROVE  Places'
  <2>1. PICK doomed \in SUBSET Droppable, new \in SUBSET Buffered : NewOK(new) /\ PushStep(doomed, new)
    BY <1>1, PushActions
  <2> QED BY <2>1, PushKeepsPlaces
<1>2. CASE \E n \in Nodes, t \in Times : Collect(n, t) \/ Pend(n, t) \/ Settle(n, t) \/ Beat(n, t)
  BY <1>1, <1>2
<1>3. CASE \E n \in Nodes, at, t \in Times : CollectAfterBreak(n, at, t) \/ MarkBreak(n, at)
  BY <1>1, <1>3
<1>4. CASE \E who \in SUBSET Nodes, made \in 1 .. MaxSeq : Disconnected(who, made)
  <2>1. PICK who \in SUBSET Nodes, made \in 1 .. MaxSeq : Disconnected(who, made)
    BY <1>4
  <2>2. Droppable # {}
    BY <2>1 DEF Disconnected
  <2>3. \E n \in Nodes, t \in Times : TRUE
    BY <2>2 DEF Droppable, StateOK, TypeOK, Gap, Buffered
  <2> QED BY <2>1, <2>3, <1>1
<1>5. CASE Drop
  BY <1>5, DropKeepsPlaces
<1>6. CASE \E cut \in 0 .. MaxSeq : Take(cut)
  BY <1>6, TakeKeepsPlaces
<1>7. CASE \E d \in todo : WriteDay(d) \/ RefuseDay(d) \/ HoldDay(d)
  BY <1>7, DayKeepsPlaces
<1>8. CASE Return
  BY <1>8, ReturnKeepsPlaces
<1>9. CASE Finish
  BY <1>9, FinishKeepsPlaces
<1>10. CASE End \/ UNCHANGED vars
  BY <1>10, IdleKeepsPlaces
<1> QED BY <1>2, <1>3, <1>4, <1>5, <1>6, <1>7, <1>8, <1>9, <1>10 DEF Next

LEMMA PlacesInvariance == Spec => []Places
<1>1. Init => Places
  BY InitPlaces
<1>2. Inv /\ Places /\ [Next]_vars => Places'
  BY NextPlaces DEF Inv
<1> QED BY <1>1, <1>2, Invariance, PTL DEF Spec

-----------------------------------------------------------------------------
\* A read finds each value and heartbeat in one place, for any number of nodes,
\* days and failed flushes: Take, Wrote, Return and Drop move a record and
\* never copy one.
THEOREM EachInOnePlace == Spec => []InOnePlace
<1>1. Places => InOnePlace
  <2> SUFFICES ASSUME Places
               PROVE  InOnePlace
    OBVIOUS
  <2>1. \A x, y : Core(x) = Core(y) => x.seq = y.seq /\ x.kind = y.kind
    BY CoreHas
  <2>2. \A x \in values, y \in Back : Data(x) /\ Data(y) => x.seq # y.seq
    BY DEF Places, Apart
  <2>3. \A x \in values \cup Back, y \in Unwritten : Data(x) /\ Data(y) => x.seq # y.seq
    BY DEF Places, Apart
  <2>4. \A r \in files \cup refused, x \in values \cup Back \cup Unwritten :
          Data(r) /\ Data(x) => r.seq # x.seq
    BY DEF Places, Apart
  <2> DEFINE buffer == {Core(b) : b \in values}
             batch == {Core(b) : b \in Unwritten}
             back == {Core(b) : b \in Back}
             data(S) == {r \in S : r.kind # "marker"}
  <2>5. data(buffer) \cap data(batch) = {}
    BY <2>1, <2>3, CoreHas DEF Data
  <2>6. data(buffer) \cap data(back) = {}
    BY <2>1, <2>2, CoreHas DEF Data
  <2>7. data(batch) \cap data(back) = {}
    BY <2>1, <2>3, CoreHas DEF Data
  <2>8. data(files \cup refused) \cap data(buffer \cup batch \cup back) = {}
    BY <2>4, CoreHas DEF Data
  <2> QED BY <2>5, <2>6, <2>7, <2>8, Zenon DEF InOnePlace, Unwritten, Back
<1> QED BY <1>1, PlacesInvariance, PTL

\* Group::_held counts what the buffer costs after any sequence of pushes,
\* dropped heartbeats, trims and failed flushes, so what ~Group and Take
\* subtract from the Store's unsigned count is what was added.
THEOREM HeldIsExact == Spec => []HeldIsCounted
<1>1. Places => HeldIsCounted
  BY DEF Places
<1> QED BY <1>1, PlacesInvariance, PTL

\* The trim drops the oldest value: whatever flushes failed and gaps Return
\* marked in between, values stand in the deque in the order they arrived.
THEOREM OldestIsFirst == Spec => []ValuesInOrder
<1>1. Places => ValuesInOrder
  BY DEF Places, Ordered
<1> QED BY <1>1, PlacesInvariance, PTL

\* DropBeats takes back no heartbeat a flush sent, whether its write failed or
\* not.
THEOREM SentBeatStays == Spec => []ReleasedStays
<1>1. Places => ReleasedStays
  BY DEF Places, Beats
<1> QED BY <1>1, PlacesInvariance, PTL
=============================================================================
