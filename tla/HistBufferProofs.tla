-------------------------- MODULE HistBufferProofs --------------------------
(***************************************************************************)
(* Proofs about HistBuffer, for every set of nodes, times and days and     *)
(* every bound.                                                            *)
(*                                                                         *)
(* LostIsMarked is not inductive as it stands.  It needs to know that a    *)
(* gap counts the record it writes back and opens no later than it (GapOK) *)
(* and that a pass accounts for every record of its batch (PassOK): else   *)
(* a drop could merge two records under a marker after one of them, and    *)
(* the end of a pass could forget a record it neither wrote nor held.      *)
(***************************************************************************)
EXTENDS HistBuffer, FiniteSetTheorems, TLAPS

\* A gap with a record to write back counts it, is that record's node's, and
\* opens at or before it; a gap that counts anything opens at a time.
WellFormed(g, n) ==
  /\ g.newest # {} => g.count > 0
  /\ \A x \in g.newest : x.node = n /\ g.marker <= x.time
  /\ \A x, y \in g.newest : x = y
  /\ g.count > 0 => g.marker \in Times

GapOK == \A n \in Nodes : WellFormed(lost[n], n)

\* No batch is out between passes; in one, each record of it is written, held
\* back, or of a day still to come.
PassOK ==
  /\ ~flushing => taken = {}
  /\ \A b \in taken : b \in written \/ b \in holding \/ Day[b.time] \in todo

\* What _held counts can be counted.
FiniteOK == IsFiniteSet(values) /\ IsFiniteSet(taken)

StateOK == TypeOK /\ GapOK /\ PassOK /\ FiniteOK

Inv == StateOK /\ LostIsMarked

LEMMA GapTyped ==
  ASSUME NEW g \in Gap
  PROVE  g.count \in Nat /\ g.seq \in Nat /\ g.newest \subseteq Buffered
  BY DEF Gap

LEMMA MarksIs ==
  ASSUME NEW g, g.count \in Nat
  PROVE  /\ g.count > 1 => Marks(g)
         /\ g.count > 0 /\ g.newest = {} => Marks(g)
         /\ g.count = 0 => ~Marks(g)
         /\ Marks(g) /\ g.newest # {} => g.count > 1
  BY DEF Marks

LEMMA ProductTyped ==
  ASSUME NEW x \in Nat, NEW y \in Nat
  PROVE  x * y \in Int
  OBVIOUS

LEMMA LostTyped ==
  ASSUME TypeOK, GapOK
  PROVE  AllLost \subseteq Buffered
<1> SUFFICES ASSUME NEW n \in Nodes, NEW b \in LostRecords(lost[n], n)
             PROVE  b \in Buffered
  BY DEF AllLost
<1>1. lost[n] \in Gap
  BY DEF TypeOK
<1>2. CASE b \in lost[n].newest
  BY <1>1, <1>2 DEF Gap
<1>3. CASE Marks(lost[n]) /\ b = Fresh(lost[n].seq, n, lost[n].marker, "marker")
  <2>1. lost[n].count > 0
    BY <1>1, <1>3 DEF Marks, Gap
  <2>2. lost[n].marker \in Times /\ lost[n].seq \in Nat
    BY <2>1, <1>1 DEF GapOK, WellFormed, Gap
  <2> QED BY <2>2, <1>3 DEF Fresh, Buffered, Kinds
<1> QED BY <1>2, <1>3 DEF LostRecords

LEMMA FreshTyped ==
  ASSUME NEW s \in Nat, NEW n \in Nodes, NEW t \in Times, NEW k \in Kinds
  PROVE  Fresh(s, n, t, k) \in Buffered
  BY DEF Fresh, Buffered

LEMMA CoreTyped ==
  ASSUME NEW b \in Buffered
  PROVE  Core(b) \in Record
  BY DEF Core, Buffered, Record

LEMMA DropBeatsTyped ==
  ASSUME TypeOK, GapOK, NEW doomed, doomed \subseteq Droppable, DropBeats(doomed)
  PROVE  lost' \in [Nodes -> Gap] /\ superseded' \subseteq Record /\ GapOK'
<1>1. doomed \subseteq Buffered
  <2>1. \A n \in Nodes : lost[n].newest \subseteq Buffered
    BY DEF TypeOK, Gap
  <2>2. \A b \in doomed : b \in values \/ \E n \in Nodes : b \in lost[n].newest
    BY Zenon DEF Droppable
  <2> QED BY <2>1, <2>2, Zenon DEF TypeOK
<1>2. superseded' \subseteq Record
  BY <1>1, CoreTyped, Zenon DEF DropBeats, TypeOK, Cores
<1>3. ASSUME NEW n \in Nodes
      PROVE  lost'[n] \in Gap /\ WellFormed(lost'[n], n)
  <2>1. lost[n] \in Gap
    BY DEF TypeOK
  <2>2. CASE lost[n].newest \cap doomed = {}
    <3>1. lost'[n] = lost[n]
      BY <2>2, Zenon DEF DropBeats
    <3> QED BY <3>1, <2>1, Zenon DEF GapOK
  <2>3. CASE lost[n].newest \cap doomed # {}
    <3>1. lost'[n] = [lost[n] EXCEPT !.count = @ - 1, !.newest = {}]
      BY <2>3, Zenon DEF DropBeats
    <3>2. lost[n].count > 0 /\ lost[n].count \in Nat
      BY <2>1, <2>3 DEF GapOK, WellFormed, Gap
    <3>3. /\ lost'[n].count = lost[n].count - 1 /\ lost'[n].newest = {}
          /\ lost'[n].marker = lost[n].marker /\ lost'[n].seq = lost[n].seq
      BY <3>1, <2>1 DEF Gap
    <3>4. lost'[n] \in Gap
      <4> DEFINE B == SUBSET Buffered
      <4>1. lost[n].count - 1 \in Nat /\ {} \in B
        BY <3>2
      <4>2. lost[n] \in [count : Nat, marker : Times \cup {0}, newest : B, seq : Nat]
        BY <2>1 DEF Gap
      <4> HIDE DEF B
      <4>3. lost'[n] \in [count : Nat, marker : Times \cup {0}, newest : B, seq : Nat]
        BY <4>1, <4>2, <3>1, Zenon
      <4> QED BY <4>3 DEF Gap, B
    <3> QED BY <3>2, <3>3, <3>4, Zenon DEF GapOK, WellFormed
  <2> QED BY <2>2, <2>3
<1>4. GapOK'
  BY <1>3 DEF GapOK
<1>5. lost' \in [Nodes -> Gap]
  BY <1>3, Zenon DEF DropBeats
<1> QED BY <1>2, <1>4, <1>5

\* A record handed to a flush, or pushed back by one, is the same record.
LEMMA SameRecord ==
  ASSUME NEW b \in Buffered, NEW turn \in Int
  PROVE  /\ Release(b) \in Buffered /\ Core(Release(b)) = Core(b)
         /\ Turned(b, turn) \in Buffered /\ Core(Turned(b, turn)) = Core(b)
  BY DEF Release, Turned, Core, Buffered

LEMMA ImageFinite ==
  ASSUME NEW S, IsFiniteSet(S), NEW f
  PROVE  IsFiniteSet({f[x] : x \in S})
<1> DEFINE T == {f[x] : x \in S}
           g == [x \in S |-> f[x]]
<1>1. g \in Surjection(S, T)
  BY DEF Surjection
<1> QED BY <1>1, FS_Surjection

LEMMA PairFinite ==
  ASSUME NEW x, NEW y
  PROVE  IsFiniteSet({x, y}) /\ (x # y => Cardinality({x, y}) = 2)
<1>1. {x, y} = {x} \cup {y}
  OBVIOUS
<1>2. IsFiniteSet({x}) /\ Cardinality({x}) = 1
  BY FS_Singleton, Zenon
<1>3. IsFiniteSet({x} \cup {y}) /\ (y \notin {x} => Cardinality({x} \cup {y}) = Cardinality({x}) + 1)
  BY <1>2, FS_AddElement, Zenon
<1> QED BY <1>1, <1>2, <1>3

LEMMA LostFinite ==
  ASSUME TypeOK, GapOK
  PROVE  IsFiniteSet(AllLost)
<1> DEFINE f == [n \in Nodes |-> LostRecords(lost[n], n)]
<1>1. ASSUME NEW n \in Nodes
      PROVE  IsFiniteSet(f[n])
  <2>1. CASE lost[n].newest = {}
    BY <2>1, FS_EmptySet, FS_Singleton, FS_Union, Zenon DEF LostRecords
  <2>2. CASE lost[n].newest # {}
    <3>1. PICK x \in lost[n].newest : TRUE
      BY <2>2
    <3>2. lost[n].newest = {x}
      BY <3>1 DEF GapOK, WellFormed
    <3> QED BY <3>2, FS_EmptySet, FS_Singleton, FS_Union, Zenon DEF LostRecords
  <2> QED BY <2>1, <2>2
<1>2. IsFiniteSet({f[n] : n \in Nodes})
  BY NodesAssumption, ImageFinite, Zenon
<1>3. IsFiniteSet(UNION {f[n] : n \in Nodes})
  <2>1. \A T \in {f[n] : n \in Nodes} : IsFiniteSet(T)
    BY <1>1
  <2> HIDE DEF f
  <2> QED BY <1>2, <2>1, FS_UNION
<1> QED BY <1>3, Zenon DEF AllLost

\* The step every push shares: DropBeats, then the new records.
PushStep(doomed, new) ==
  /\ DropBeats(doomed)
  /\ Push(doomed, new)
  /\ UNCHANGED <<passVars, ending, released>>

LEMMA PushKeepsState ==
  ASSUME StateOK, NEW doomed, NEW new, doomed \subseteq Droppable, new \subseteq Buffered,
         IsFiniteSet(new), PushStep(doomed, new)
  PROVE  StateOK'
<1> USE DEF StateOK, PushStep
<1>1. Cardinality(new) \in Nat /\ Cardinality(values \cap doomed) \in Nat
  BY FS_CardinalityType, FS_Intersection, Zenon DEF FiniteOK
<1>2. values' \subseteq Buffered /\ IsFiniteSet(values')
  <2>1. IsFiniteSet(values \ doomed)
    BY FS_Difference, Zenon DEF FiniteOK
  <2> QED BY <2>1, FS_Union, Zenon DEF Push, TypeOK
<1>3. stored' \subseteq Record
  BY CoreTyped DEF Push, TypeOK, Cores
<1>4. next' \in Nat
  BY <1>1 DEF Push, TypeOK
<1>5. held' \in Int
  BY <1>1, CostAssumption DEF Push, TypeOK
<1>6. lost' \in [Nodes -> Gap] /\ superseded' \subseteq Record /\ GapOK'
  BY DropBeatsTyped
<1>7. UNCHANGED <<flushing, taken, written, todo, holding, files, refused, ending, released>>
  BY DEF passVars
<1>8. TypeOK'
  BY <1>2, <1>3, <1>4, <1>5, <1>6, <1>7 DEF TypeOK
<1>9. PassOK' /\ FiniteOK'
  BY <1>2, <1>7 DEF PassOK, FiniteOK
<1> QED BY <1>6, <1>8, <1>9

\* A push that drops no heartbeat.
LEMMA PlainPush ==
  ASSUME TypeOK, NEW new, Push({}, new), UNCHANGED <<passVars, lost, ending, superseded, released>>
  PROVE  PushStep({}, new)
<1>1. lost' = [n \in Nodes |-> IF lost[n].newest \cap {} = {} THEN lost[n]
                               ELSE [lost[n] EXCEPT !.count = @ - 1, !.newest = {}]]
  BY DEF TypeOK
<1>2. superseded' = superseded \cup Cores({})
  BY DEF Cores
<1> QED BY <1>1, <1>2 DEF PushStep, DropBeats

LEMMA DroppedGap ==
  ASSUME NEW n \in Nodes, NEW g \in Gap, WellFormed(g, n), NEW b \in Buffered, b.node = n
  PROVE  /\ Dropped(g, b) \in Gap
         /\ WellFormed(Dropped(g, b), n)
         /\ Dropped(g, b).count = g.count + 1
         /\ Dropped(g, b).marker \in Times /\ Dropped(g, b).marker <= b.time
         /\ g.count > 0 => Dropped(g, b).marker <= g.marker
<1> DEFINE h == Dropped(g, b)
<1>1. g.count \in Nat /\ (g.count > 0 => g.marker \in Times) /\ g.seq \in Nat
      /\ g.newest \in SUBSET Buffered
  BY DEF WellFormed, Gap
<1>2. b.time \in Times /\ b.seq \in Nat
  BY DEF Buffered
<1>3. h.count = g.count + 1
      /\ h.marker = (IF g.count = 0 \/ b.time < g.marker THEN b.time ELSE g.marker)
  BY DEF Dropped
<1>4. h.count \in Nat /\ h.count > 0
  BY <1>1, <1>3
<1>5. h.marker \in Times /\ h.marker <= b.time /\ (g.count > 0 => h.marker <= g.marker)
  <2> HIDE DEF h
  <2>1. b.time \in Nat
    BY <1>2, TimesAssumption, Zenon
  <2>2. CASE g.count = 0
    BY <2>1, <2>2, <1>2, <1>3
  <2>3. CASE g.count > 0
    <3>1. g.marker \in Times /\ g.marker \in Nat
      BY <2>3, <1>1, TimesAssumption, Zenon
    <3>2. CASE b.time < g.marker
      BY <3>1, <3>2, <2>1, <1>2, <1>3
    <3>3. CASE ~(b.time < g.marker)
      BY <3>1, <3>3, <2>1, <2>3, <1>2, <1>3
    <3> QED BY <3>2, <3>3
  <2> QED BY <2>2, <2>3, <1>1
<1>6. (h.newest = {b} /\ h.seq = b.seq) \/ (h.newest = g.newest /\ h.seq = g.seq)
  <2>1. /\ h.newest = IF EndsGap(g, b) THEN {b} ELSE g.newest
        /\ h.seq = IF EndsGap(g, b) THEN b.seq ELSE g.seq
    BY DEF Dropped
  <2> HIDE DEF h
  <2> QED BY <2>1
<1>7. h.newest \in SUBSET Buffered /\ h.seq \in Nat
  BY <1>1, <1>2, <1>6
<1>8. h \in Gap
  <2> DEFINE B == SUBSET Buffered
  <2>1. h = [count |-> h.count, marker |-> h.marker, newest |-> h.newest, seq |-> h.seq]
    BY DEF Dropped
  <2>2. h.newest \in B
    BY <1>7
  <2> HIDE DEF h, B
  <2>3. h \in [count : Nat, marker : Times \cup {0}, newest : B, seq : Nat]
    BY <1>4, <1>5, <1>7, <2>1, <2>2
  <2> QED BY <2>3 DEF Gap, B
<1>9. ASSUME NEW x \in h.newest
      PROVE  x.node = n /\ h.marker <= x.time
  <2>1. CASE x = b
    BY <2>1, <1>5
  <2>2. CASE x \in g.newest
    <3>1. x.time \in Times /\ x.node = n /\ g.marker <= x.time /\ g.count > 0
      BY <2>2, <1>1 DEF WellFormed, Buffered
    <3>2. g.marker \in Nat /\ h.marker \in Nat /\ x.time \in Nat /\ h.marker <= g.marker
      BY <3>1, <1>1, <1>5, TimesAssumption
    <3> QED BY <3>1, <3>2
  <2> HIDE DEF h
  <2> QED BY <2>1, <2>2, <1>6
<1>10. \A x, y \in h.newest : x = y
  <2> HIDE DEF h
  <2> QED BY <1>6 DEF WellFormed
<1> HIDE DEF h
<1>11. WellFormed(h, n)
  BY <1>4, <1>5, <1>9, <1>10 DEF WellFormed
<1> QED BY <1>3, <1>4, <1>5, <1>8, <1>11 DEF h

LEMMA DropKeepsState ==
  ASSUME StateOK, Drop
  PROVE  StateOK'
<1> USE DEF StateOK
<1>1. PICK b \in values :
        /\ values' = values \ {b}
        /\ held' = held - Cost
        /\ lost' = [lost EXCEPT ![b.node] = Dropped(@, b)]
        /\ UNCHANGED <<next, passVars, ending, stored, superseded, released>>
  BY Zenon DEF Drop
<1>2. b \in Buffered /\ b.node \in Nodes
  BY DEF TypeOK, Buffered
<1>3. \A n \in Nodes : lost'[n] = IF n = b.node THEN Dropped(lost[n], b) ELSE lost[n]
  BY <1>1, <1>2 DEF TypeOK
<1>4. ASSUME NEW n \in Nodes
      PROVE  lost'[n] \in Gap /\ WellFormed(lost'[n], n)
  <2>1. lost[n] \in Gap /\ WellFormed(lost[n], n)
    BY DEF TypeOK, GapOK
  <2> QED BY <2>1, <1>2, <1>3, DroppedGap
<1>5. lost' \in [Nodes -> Gap] /\ GapOK'
  BY <1>1, <1>4, Zenon DEF TypeOK, GapOK
<1>6. UNCHANGED <<next, flushing, taken, written, todo, holding, files, refused, ending,
                  stored, superseded, released>>
  BY <1>1 DEF passVars
<1>7. values' \subseteq Buffered /\ IsFiniteSet(values') /\ held' \in Int
  BY <1>1, FS_RemoveElement, CostAssumption DEF TypeOK, FiniteOK
<1>8. TypeOK' /\ PassOK' /\ FiniteOK'
  BY <1>5, <1>6, <1>7 DEF TypeOK, PassOK, FiniteOK
<1> QED BY <1>5, <1>8

LEMMA NoGapOK ==
  ASSUME lost' = [n \in Nodes |-> NoGap]
  PROVE  lost' \in [Nodes -> Gap] /\ GapOK' /\ AllLost' = {}
<1>1. NoGap \in Gap
  BY DEF NoGap, Gap
<1>2. \A n \in Nodes : WellFormed(NoGap, n) /\ LostRecords(NoGap, n) = {}
  BY DEF NoGap, WellFormed, LostRecords, Marks
<1> QED BY <1>1, <1>2 DEF GapOK, AllLost

LEMMA TakeKeepsState ==
  ASSUME StateOK, NEW cut, Take(cut)
  PROVE  StateOK'
<1> USE DEF StateOK
<1> DEFINE kept == {b \in values : Publishing /\ ~ending /\ b.kind = "beat" /\ b.seq > cut}
           all == AllLost \cup (values \ kept)
           batch == {Release(b) : b \in all}
           f == [b \in all |-> Release(b)]
<1>1. all \subseteq Buffered /\ batch \subseteq Buffered
  <2>1. all \subseteq Buffered
    BY LostTyped DEF TypeOK
  <2> HIDE DEF all
  <2> QED BY <2>1, SameRecord
<1>2. IsFiniteSet(kept) /\ IsFiniteSet(all)
  BY LostFinite, FS_Subset, FS_Difference, FS_Union, Zenon DEF FiniteOK
<1>3. IsFiniteSet(batch)
  <2> HIDE DEF all
  <2>1. IsFiniteSet({f[b] : b \in all})
    BY <1>2, ImageFinite, Zenon
  <2> QED BY <2>1
<1>4. /\ flushing' = TRUE /\ taken' = batch /\ written' = {} /\ holding' = {}
      /\ todo' = {Day[b.time] : b \in batch} /\ values' = kept
      /\ held' = Cost * Cardinality(kept) /\ lost' = [n \in Nodes |-> NoGap]
      /\ released' = released \cup Cores({b \in batch : b.kind = "beat"})
      /\ UNCHANGED <<next, files, ending, stored, refused, superseded>>
  BY DEF Take
<1>5. todo' \subseteq Nat
  <2> HIDE DEF batch
  <2> QED BY <1>1, <1>4, DayAssumption DEF Buffered
<1>6. released' \subseteq Record
  <2> HIDE DEF batch
  <2> QED BY <1>1, <1>4, CoreTyped DEF Cores, TypeOK
<1>7. held' \in Int
  <2> HIDE DEF kept
  <2>1. Cardinality(kept) \in Nat
    BY <1>2, FS_CardinalityType
  <2>2. Cost * Cardinality(kept) \in Int
    BY <2>1, CostAssumption, ProductTyped
  <2> QED BY <2>2, <1>4
<1>8. values' \subseteq Buffered
  BY <1>4 DEF TypeOK
<1> HIDE DEF kept, batch
<1>9. TypeOK'
  BY <1>1, <1>4, <1>5, <1>6, <1>7, <1>8, NoGapOK DEF TypeOK
<1>10. PassOK' /\ FiniteOK'
  BY <1>2, <1>3, <1>4 DEF PassOK, FiniteOK
<1> QED BY <1>4, <1>9, <1>10, NoGapOK

LEMMA DayKeepsState ==
  ASSUME StateOK, NEW d, WriteDay(d) \/ RefuseDay(d) \/ HoldDay(d)
  PROVE  StateOK'
<1> USE DEF StateOK
<1>1. OfDay(d) \subseteq taken /\ Cores(OfDay(d)) \subseteq Record
  BY CoreTyped DEF TypeOK, OfDay, Cores
<1>2. UNCHANGED <<next, values, held, lost, flushing, taken, ending, stored, superseded, released>>
  BY DEF WriteDay, RefuseDay, HoldDay
<1>3. /\ written' \in {written, written \cup OfDay(d)}
      /\ holding' \in {holding, holding \cup OfDay(d)}
      /\ files' \in {files, files \cup Cores(OfDay(d))}
      /\ refused' \in {refused, refused \cup Cores(OfDay(d))}
      /\ todo' = todo \ {d}
      /\ OfDay(d) \subseteq written' \cup holding'
  BY DEF WriteDay, RefuseDay, HoldDay
<1>4. TypeOK'
  BY <1>1, <1>2, <1>3, Zenon DEF TypeOK
<1>5. PassOK'
  BY <1>2, <1>3 DEF PassOK, OfDay
<1> QED BY <1>2, <1>4, <1>5 DEF GapOK, FiniteOK

LEMMA ReturnKeepsState ==
  ASSUME StateOK, Return
  PROVE  StateOK'
<1> USE DEF StateOK
<1>1. PICK turn \in Turns :
        LET back == {Turned(b, turn) : b \in AllLost} \cup {Turned(b, turn - 1) : b \in holding}
        IN values' = values \cup back /\ held' = held + Cost * Cardinality(back)
  BY Zenon DEF Return
<1> DEFINE gaps == {Turned(b, turn) : b \in AllLost}
           late == {Turned(b, turn - 1) : b \in holding}
           f == [b \in AllLost |-> Turned(b, turn)]
           g == [b \in holding |-> Turned(b, turn - 1)]
<1>2. turn \in Int /\ turn - 1 \in Int
  BY TurnsAssumption
<1>3. gaps \subseteq Buffered /\ late \subseteq Buffered
  BY <1>2, LostTyped, SameRecord DEF TypeOK
<1>4. IsFiniteSet(gaps) /\ IsFiniteSet(late)
  <2>1. IsFiniteSet(AllLost) /\ IsFiniteSet(holding)
    BY LostFinite, FS_Subset DEF FiniteOK, TypeOK
  <2>2. IsFiniteSet({f[b] : b \in AllLost}) /\ IsFiniteSet({g[b] : b \in holding})
    BY <2>1, ImageFinite, Zenon
  <2> QED BY <2>2
<1>5. values' = values \cup (gaps \cup late) /\ held' = held + Cost * Cardinality(gaps \cup late)
  BY <1>1
<1> HIDE DEF gaps, late
<1>6. IsFiniteSet(gaps \cup late) /\ IsFiniteSet(values')
  BY <1>4, <1>5, FS_Union, Zenon DEF FiniteOK
<1>7. held' \in Int /\ values' \subseteq Buffered
  BY <1>3, <1>5, <1>6, FS_CardinalityType, CostAssumption DEF TypeOK
<1>8. /\ flushing' = FALSE /\ taken' = {} /\ written' = {} /\ holding' = {}
      /\ lost' = [n \in Nodes |-> NoGap]
      /\ UNCHANGED <<next, todo, files, ending, stored, refused, superseded, released>>
  BY DEF Return
<1>9. TypeOK'
  BY <1>7, <1>8, NoGapOK, Zenon DEF TypeOK
<1>10. PassOK' /\ FiniteOK'
  BY <1>6, <1>8, FS_EmptySet DEF PassOK, FiniteOK
<1> QED BY <1>8, <1>9, <1>10, NoGapOK

\* New records have the Sequences the Store issues next, one each, and are at
\* the back of the deque.
NewOK(new) ==
  /\ IsFiniteSet(new)
  /\ \A b \in new : next <= b.seq /\ b.seq < next + Cardinality(new) /\ b.turn = 0 /\ ~b.released
  /\ \A x, y \in new : x.seq = y.seq => x = y

\* The new records of each action that only pushes, and the heartbeats it drops.
LEMMA PushActions ==
  ASSUME StateOK, NEW n \in Nodes, NEW at \in Times, NEW t \in Times,
         NEW who, NEW made,
         \/ Collect(n, t) \/ Pend(n, t) \/ Settle(n, t) \/ CollectAfterBreak(n, at, t)
         \/ MarkBreak(n, at) \/ Beat(n, t) \/ Disconnected(who, made)
  PROVE  \E doomed \in SUBSET Droppable, new \in SUBSET Buffered :
           NewOK(new) /\ PushStep(doomed, new)
<1> USE DEF StateOK
<1> DEFINE one(k, u) == {Fresh(next, n, u, k)}
<1>1. ASSUME NEW k \in Kinds, NEW u \in Times
      PROVE  one(k, u) \in SUBSET Buffered /\ NewOK(one(k, u))
  <2>1. Fresh(next, n, u, k) \in Buffered
    BY FreshTyped DEF TypeOK
  <2>2. IsFiniteSet(one(k, u)) /\ Cardinality(one(k, u)) = 1
    BY FS_Singleton, Zenon
  <2>3. next \in Nat
    BY DEF TypeOK
  <2>4. \A b \in one(k, u) : b.seq = next /\ b.turn = 0 /\ b.released = FALSE
    BY DEF Fresh
  <2> QED BY <2>1, <2>2, <2>3, <2>4 DEF NewOK
<1>2. {} \in SUBSET Droppable /\ {} \in SUBSET Buffered /\ NewOK({})
  BY FS_EmptySet DEF NewOK
<1>3. Overtaken(n, t) \in SUBSET Droppable
  BY DEF Overtaken
<1>4. CASE Collect(n, t)
  BY <1>1, <1>3, <1>4 DEF Collect, PushStep, Kinds
<1>5. CASE Pend(n, t)
  BY <1>2, <1>3, <1>5 DEF Pend, PushStep
<1>6. CASE Settle(n, t)
  BY <1>1, <1>2, <1>6, PlainPush DEF Settle, Kinds
<1>7. CASE CollectAfterBreak(n, at, t)
  <2> DEFINE two == {Fresh(next, n, at, "marker"), Fresh(next + 1, n, t, "value")}
  <2>1. two \in SUBSET Buffered
    BY FreshTyped DEF TypeOK, Kinds
  <2>2. NewOK(two)
    <3>1. next \in Nat
      BY DEF TypeOK
    <3>2. Fresh(next, n, at, "marker") # Fresh(next + 1, n, t, "value")
      BY <3>1 DEF Fresh
    <3>3. IsFiniteSet(two) /\ Cardinality(two) = 2
      BY <3>2, PairFinite
    <3>4. \A b \in two : b.seq \in {next, next + 1} /\ b.turn = 0 /\ b.released = FALSE
      BY DEF Fresh
    <3>5. \A x, y \in two : x.seq = y.seq => x = y
      <4>1. /\ Fresh(next, n, at, "marker").seq = next
            /\ Fresh(next + 1, n, t, "value").seq = next + 1
        BY DEF Fresh
      <4>2. next # next + 1
        BY <3>1
      <4> HIDE DEF Fresh
      <4> QED BY <4>1, <4>2, Zenon
    <3> QED BY <3>1, <3>3, <3>4, <3>5 DEF NewOK
  <2> QED BY <2>1, <2>2, <1>3, <1>7 DEF CollectAfterBreak, PushStep
<1>8. CASE MarkBreak(n, at)
  BY <1>1, <1>2, <1>8, PlainPush DEF MarkBreak, Kinds
<1>9. CASE Beat(n, t)
  BY <1>1, <1>2, <1>9, PlainPush DEF Beat, Kinds
<1>10. CASE Disconnected(who, made)
  <2> DEFINE doomed == {b \in Droppable : b.node \in who /\ b.seq >= made}
  <2>1. doomed \in SUBSET Droppable
    OBVIOUS
  <2> QED BY <2>1, <1>2, <1>10 DEF Disconnected, PushStep
<1> QED BY <1>4, <1>5, <1>6, <1>7, <1>8, <1>9, <1>10

\* What a step must do to keep LostIsMarked: each record a read was served, or
\* that was refused, is still, or a heartbeat taken back, or a marker stands
\* at or before it.
Carries ==
  /\ \A r \in Served \cup refused :
       \/ r \in (Served \cup refused)'
       \/ r.kind = "beat" /\ r \in superseded'
       \/ MarkedBy(r.node, r.time)'
  /\ superseded \subseteq superseded'
  /\ stored' \subseteq stored \cup Served'

LEMMA ServedTyped ==
  ASSUME TypeOK, GapOK
  PROVE  Served \cup refused \subseteq Record
  BY LostTyped, CoreTyped DEF TypeOK, Served, Snapshot, Cores

LEMMA CarriesMarks ==
  ASSUME StateOK, StateOK', LostIsMarked, Carries
  PROVE  LostIsMarked'
<1> USE DEF StateOK
<1>1. Served \cup refused \subseteq Record /\ (Served \cup refused)' \subseteq Record
  <2>1. Served \cup refused \subseteq Record
    BY ServedTyped
  <2>2. (Served \cup refused \subseteq Record)'
    BY ServedTyped, PTL
  <2> QED BY <2>1, <2>2
<1>2. ASSUME NEW n, NEW t \in Times, MarkedBy(n, t)
      PROVE  MarkedBy(n, t)'
  <2>1. PICK m \in Served \cup refused : m.kind = "marker" /\ m.node = n /\ m.time <= t
    BY <1>2 DEF MarkedBy
  <2>2. CASE m \in (Served \cup refused)'
    BY <2>1, <2>2 DEF MarkedBy
  <2>3. CASE MarkedBy(m.node, m.time)'
    <3>1. PICK k \in (Served \cup refused)' : k.kind = "marker" /\ k.node = m.node /\ k.time <= m.time
      BY <2>3 DEF MarkedBy
    <3>2. k.time \in Nat /\ m.time \in Nat /\ t \in Nat
      BY <3>1, <2>1, <1>1, TimesAssumption, Zenon DEF Record
    <3> QED BY <3>1, <3>2, <2>1 DEF MarkedBy
  <2> QED BY <2>1, <2>2, <2>3 DEF Carries
<1>3. SUFFICES ASSUME NEW r \in stored'
               PROVE  \/ r \in (Served \cup refused \cup superseded)'
                      \/ MarkedBy(r.node, r.time)'
  BY DEF LostIsMarked
<1>4. CASE r \in Served'
  BY <1>4
<1>5. CASE r \in stored
  <2>1. r.time \in Times
    BY <1>5 DEF TypeOK, Record
  <2>2. CASE r \in Served \cup refused
    BY <2>2 DEF Carries
  <2>3. CASE r \in superseded
    BY <2>3 DEF Carries
  <2>4. CASE MarkedBy(r.node, r.time)
    BY <2>1, <2>4, <1>2
  <2> QED BY <1>5, <2>2, <2>3, <2>4 DEF LostIsMarked
<1> QED BY <1>4, <1>5 DEF Carries

LEMMA PushCarries ==
  ASSUME StateOK, NEW doomed \in SUBSET Droppable, NEW new \in SUBSET Buffered,
         PushStep(doomed, new)
  PROVE  Carries
<1> USE DEF StateOK, PushStep
<1>1. UNCHANGED <<taken, written, files, refused>>
  BY DEF passVars
<1>2. \A b \in doomed : b.kind = "beat"
  BY Zenon DEF Droppable
<1>3. superseded' = superseded \cup Cores(doomed) /\ stored' = stored \cup Cores(new)
      /\ values' = (values \ doomed) \cup new
  BY Zenon DEF DropBeats, Push
<1>4. ASSUME NEW b \in AllLost, b \notin doomed
      PROVE  b \in AllLost'
  <2>1. PICK n \in Nodes : b \in LostRecords(lost[n], n)
    BY DEF AllLost
  <2>2. CASE lost[n].newest \cap doomed = {}
    <3>1. lost'[n] = lost[n]
      BY <2>2, Zenon DEF DropBeats
    <3> QED BY <3>1, <2>1, Zenon DEF AllLost
  <2>3. CASE lost[n].newest \cap doomed # {}
    <3>1. lost[n] \in Gap /\ WellFormed(lost[n], n)
      BY Zenon DEF TypeOK, GapOK
    <3>2. lost'[n] = [lost[n] EXCEPT !.count = @ - 1, !.newest = {}]
      BY <2>3, Zenon DEF DropBeats
    <3>3. /\ lost'[n].count = lost[n].count - 1 /\ lost'[n].newest = {}
          /\ lost'[n].marker = lost[n].marker /\ lost'[n].seq = lost[n].seq
      BY <3>1, <3>2, SMTT(30) DEF Gap
    <3>4. b \notin lost[n].newest
      BY <2>3, <3>1, <1>4 DEF WellFormed
    <3>5. Marks(lost[n]) /\ b = Fresh(lost[n].seq, n, lost[n].marker, "marker")
      BY <3>4, <2>1 DEF LostRecords
    <3>6. Marks(lost'[n])
      <4>1. lost[n].count \in Nat /\ lost[n].newest # {}
        BY <3>1, <2>3, GapTyped
      <4>2. lost[n].count > 1
        BY <4>1, <3>5, MarksIs
      <4>3. lost'[n].count \in Nat /\ lost'[n].count > 0
        BY <4>1, <4>2, <3>3, SMTT(30)
      <4> QED BY <4>3, <3>3, MarksIs
    <3>7. b \in LostRecords(lost'[n], n)
      BY <3>3, <3>5, <3>6 DEF LostRecords
    <3> QED BY <3>7 DEF AllLost
  <2> QED BY <2>2, <2>3
<1>5. \A b \in Snapshot : b \in Snapshot' \/ b \in doomed
  BY <1>1, <1>3, <1>4 DEF Snapshot
<1>6. \A b : Core(b).kind = b.kind
  BY SMTT(30) DEF Core
<1>7. \A r \in Cores(Snapshot) : r \in Cores(Snapshot)' \/ (r.kind = "beat" /\ r \in Cores(doomed))
  BY <1>2, <1>5, <1>6 DEF Cores
<1>8. new \subseteq Snapshot'
  BY <1>3 DEF Snapshot
<1> QED BY <1>1, <1>3, <1>7, <1>8 DEF Carries, Served, Cores

LEMMA DropCarries ==
  ASSUME StateOK, Drop
  PROVE  Carries
<1> USE DEF StateOK
<1>1. PICK b \in values :
        /\ values' = values \ {b}
        /\ lost' = [lost EXCEPT ![b.node] = Dropped(@, b)]
        /\ UNCHANGED <<next, passVars, ending, stored, superseded, released>>
  BY Zenon DEF Drop
<1> DEFINE n == b.node
           g == lost[n]
           h == Dropped(g, b)
<1>2. b \in Buffered /\ n \in Nodes /\ b.time \in Times /\ g \in Gap /\ WellFormed(g, n)
  BY DEF TypeOK, GapOK, Buffered
<1>3. lost'[n] = h /\ \A k \in Nodes : k # n => lost'[k] = lost[k]
  BY <1>1, <1>2 DEF TypeOK
<1>4. UNCHANGED <<taken, written, files, refused>>
  BY <1>1 DEF passVars
<1>5. /\ h \in Gap /\ WellFormed(h, n) /\ h.count = g.count + 1
      /\ h.marker \in Times /\ h.marker <= b.time
      /\ g.count > 0 => h.marker <= g.marker
  BY <1>2, DroppedGap
<1>6. (h.newest = {b}) \/ (h.newest = g.newest)
  BY DEF Dropped
<1>7. g.newest = {} => h.newest = {b}
  BY DEF Dropped, EndsGap
<1> HIDE DEF h
<1>8. LostRecords(h, n) \subseteq AllLost'
  BY <1>2, <1>3 DEF AllLost
<1>9. CASE g.count = 0
  <2>0. g.count \in Nat /\ ~(g.count > 0)
    BY <1>2, <1>9, GapTyped, SMTT(30)
  <2> HIDE DEF g
  <2>1. g.newest = {} /\ ~Marks(g)
    BY <2>0, <1>2, <1>9, MarksIs DEF WellFormed
  <2> USE DEF g
  <2>2. LostRecords(g, n) = {} /\ b \in LostRecords(h, n)
    BY <2>1, <1>7 DEF LostRecords
  <2>3. AllLost \subseteq AllLost' /\ b \in AllLost'
    BY <2>2, <1>3, <1>8 DEF AllLost
  <2>4. Snapshot \subseteq Snapshot'
    BY <2>3, <1>1, <1>4 DEF Snapshot
  <2> QED BY <2>4, <1>1, <1>4 DEF Carries, Served, Cores
<1>10. CASE g.count > 0
  <2> DEFINE m == Fresh(h.seq, n, h.marker, "marker")
  <2>1. Marks(h)
    <3>1. g.count \in Nat
      BY <1>2, GapTyped
    <3>2. h.count \in Nat /\ h.count > 1
      BY <3>1, <1>5, <1>10, SMTT(30)
    <3> QED BY <3>2, MarksIs
  <2>2. m \in AllLost'
    BY <2>1, <1>8, SMTT(30) DEF LostRecords
  <2>3. Core(m) \in Served' /\ Core(m).kind = "marker" /\ Core(m).node = n /\ Core(m).time = h.marker
    BY <2>2 DEF Served, Snapshot, Cores, Core, Fresh
  <2>4. ASSUME NEW x \in Snapshot
        PROVE  x \in Snapshot' \/ (x.node = n /\ h.marker <= x.time)
    <3>1. CASE x \in (taken \ written) \cup (values \ {b})
      BY <3>1, <1>1, <1>4 DEF Snapshot
    <3>2. CASE x = b
      BY <3>2, <1>5
    <3>3. CASE x \in AllLost
      <4>1. PICK k \in Nodes : x \in LostRecords(lost[k], k)
        BY <3>3 DEF AllLost
      <4>2. CASE k # n
        BY <4>1, <4>2, <1>3, SMTT(30) DEF AllLost, Snapshot
      <4>3. CASE k = n
        <5>1. h.marker \in Nat /\ g.marker \in Nat /\ h.marker <= g.marker
          BY <1>2, <1>5, <1>10, TimesAssumption, Zenon DEF WellFormed
        <5>2. CASE x \in g.newest
          <6>1. x.node = n /\ g.marker <= x.time /\ x.time \in Nat
            BY <5>2, <1>2, TimesAssumption, Zenon DEF WellFormed, Gap, Buffered
          <6>2. h.marker <= x.time
            BY <5>1, <6>1, SMTT(30)
          <6> QED BY <6>1, <6>2
        <5>3. CASE x = Fresh(g.seq, n, g.marker, "marker")
          BY <5>1, <5>3 DEF Fresh
        <5> QED BY <4>1, <4>3, <5>2, <5>3, SMTT(30) DEF LostRecords
      <4> QED BY <4>2, <4>3
    <3> QED BY <3>1, <3>2, <3>3 DEF Snapshot
  <2>5. \A x \in Snapshot : Core(x) \in Served' \/ MarkedBy(Core(x).node, Core(x).time)'
    <3>1. \A x : Core(x).node = x.node /\ Core(x).time = x.time
      BY DEF Core
    <3> QED BY <2>3, <2>4, <3>1 DEF MarkedBy, Served, Cores
  <2> QED BY <2>5, <1>1, <1>4 DEF Carries, Served, Cores
<1> QED BY <1>2, <1>9, <1>10, SMTT(30) DEF Gap

LEMMA TakeCarries ==
  ASSUME StateOK, NEW cut, Take(cut)
  PROVE  Carries
<1> USE DEF StateOK
<1> DEFINE kept == {b \in values : Publishing /\ ~ending /\ b.kind = "beat" /\ b.seq > cut}
           all == AllLost \cup (values \ kept)
<1>1. taken' = {Release(b) : b \in all} /\ written' = {} /\ values' = kept
      /\ UNCHANGED <<files, refused, superseded, stored>>
  BY Zenon DEF Take
<1>2. taken = {}
  BY Zenon DEF Take, PassOK
<1>3. all \subseteq Buffered
  BY LostTyped DEF TypeOK
<1>4. \A b \in all : Core(b) \in Cores(Snapshot)'
  <2> HIDE DEF all
  <2>1. \A b \in all : Release(b) \in Snapshot' /\ Core(Release(b)) = Core(b)
    BY <1>1, <1>3, SameRecord, SMTT(30) DEF Snapshot
  <2> QED BY <2>1 DEF Cores
<1>5. \A b \in kept : Core(b) \in Cores(Snapshot)'
  BY <1>1 DEF Cores, Snapshot
<1>6. Snapshot \subseteq all \cup kept
  BY <1>2 DEF Snapshot
<1>7. Cores(Snapshot) \subseteq Cores(Snapshot)'
  <2> HIDE DEF all, kept
  <2>1. \A b \in Snapshot : Core(b) \in Cores(Snapshot)'
    BY <1>4, <1>5, <1>6
  <2> QED BY <2>1 DEF Cores
<1> QED BY <1>1, <1>7, SMTT(30) DEF Carries, Served

LEMMA DayCarries ==
  ASSUME StateOK, NEW d, WriteDay(d) \/ RefuseDay(d) \/ HoldDay(d)
  PROVE  Carries
<1>1. UNCHANGED <<values, lost, taken, stored, superseded>>
  BY DEF WriteDay, RefuseDay, HoldDay
<1>2. AllLost' = AllLost
  BY <1>1 DEF AllLost
<1>3. files \subseteq files' /\ refused \subseteq refused'
      /\ \A b \in taken \ written : b \in taken \ written' \/ Core(b) \in files' \cup refused'
  BY DEF WriteDay, RefuseDay, HoldDay, Cores
<1>4. \A b \in Snapshot : b \in Snapshot' \/ Core(b) \in files' \cup refused'
  BY <1>1, <1>2, <1>3 DEF Snapshot
<1>5. \A r \in Cores(Snapshot) : r \in Cores(Snapshot)' \/ r \in files' \cup refused'
  BY <1>4 DEF Cores
<1> QED BY <1>1, <1>3, <1>5 DEF Carries, Served

LEMMA ReturnCarries ==
  ASSUME StateOK, Return
  PROVE  Carries
<1> USE DEF StateOK
<1>1. PICK turn \in Turns :
        values' = values \cup ({Turned(b, turn) : b \in AllLost}
                               \cup {Turned(b, turn - 1) : b \in holding})
  BY DEF Return
<1>2. UNCHANGED <<files, refused, superseded, stored>>
  BY DEF Return
<1>3. turn \in Int /\ turn - 1 \in Int
  BY TurnsAssumption
<1>4. taken \ written \subseteq holding
  BY DEF Return, PassOK
<1>5. ASSUME NEW b \in AllLost \cup holding
      PROVE  Core(b) \in Cores(Snapshot)'
  <2>1. b \in Buffered
    BY LostTyped DEF TypeOK
  <2>2. Turned(b, turn) \in values' \/ Turned(b, turn - 1) \in values'
    BY <1>1
  <2>3. Core(Turned(b, turn)) = Core(b) /\ Core(Turned(b, turn - 1)) = Core(b)
    BY <2>1, <1>3, SameRecord
  <2> QED BY <2>2, <2>3 DEF Cores, Snapshot
<1>6. \A b \in values : Core(b) \in Cores(Snapshot)'
  BY <1>1 DEF Cores, Snapshot
<1>7. Cores(Snapshot) \subseteq Cores(Snapshot)'
  <2>1. \A b \in Snapshot : Core(b) \in Cores(Snapshot)'
    BY <1>4, <1>5, <1>6 DEF Snapshot
  <2> QED BY <2>1 DEF Cores
<1> QED BY <1>2, <1>7 DEF Carries, Served

\* A step that leaves the records where they are.
LEMMA IdleKeeps ==
  ASSUME StateOK, End \/ UNCHANGED vars
  PROVE  StateOK' /\ Carries
<1>1. UNCHANGED <<next, values, held, lost, passVars, stored, superseded, released>>
      /\ ending' \in {ending, TRUE}
  BY Zenon DEF End, vars, passVars
<1>2. UNCHANGED <<flushing, taken, written, todo, holding, files, refused>>
  BY <1>1 DEF passVars
<1>3. AllLost' = AllLost
  BY <1>1 DEF AllLost
<1>4. Snapshot' = Snapshot
  BY <1>1, <1>2, <1>3 DEF Snapshot
<1>5. Carries
  BY <1>1, <1>2, <1>4 DEF Carries, Served, Cores
<1>6. TypeOK'
  BY <1>1, <1>2, Zenon DEF StateOK, TypeOK
<1>7. GapOK' /\ PassOK' /\ FiniteOK'
  BY <1>1, <1>2 DEF StateOK, GapOK, PassOK, FiniteOK
<1> QED BY <1>5, <1>6, <1>7 DEF StateOK

LEMMA FinishKeeps ==
  ASSUME StateOK, Finish
  PROVE  StateOK' /\ Carries
<1> USE DEF StateOK
<1>1. flushing' = FALSE /\ taken' = {} /\ written' = {} /\ todo = {} /\ holding = {}
      /\ UNCHANGED <<next, values, held, lost, todo, holding, files, ending,
                     stored, refused, superseded, released>>
  BY DEF Finish
<1>2. taken \ written = {}
  BY <1>1 DEF PassOK
<1>3. AllLost' = AllLost
  BY <1>1 DEF AllLost
<1>4. Snapshot' = Snapshot
  BY <1>1, <1>2, <1>3 DEF Snapshot
<1>5. Carries
  BY <1>1, <1>4 DEF Carries, Served, Cores
<1>6. TypeOK'
  BY <1>1, Zenon DEF TypeOK
<1>7. GapOK' /\ PassOK' /\ FiniteOK'
  BY <1>1, FS_EmptySet DEF GapOK, PassOK, FiniteOK
<1> QED BY <1>5, <1>6, <1>7

LEMMA InitInv ==
  ASSUME Init
  PROVE  Inv
<1>1. lost = [n \in Nodes |-> NoGap]
  BY DEF Init
<1>2. lost \in [Nodes -> Gap] /\ GapOK
  <2>1. NoGap \in Gap
    BY DEF NoGap, Gap
  <2>2. \A n \in Nodes : WellFormed(NoGap, n)
    BY SMTT(30) DEF NoGap, WellFormed
  <2> QED BY <1>1, <2>1, <2>2 DEF GapOK
<1>3. TypeOK
  <2>1. flushing \in BOOLEAN /\ ending \in BOOLEAN
    BY Zenon DEF Init
  <2>2. next \in Nat /\ held \in Int
    BY DEF Init
  <2>3. /\ values = {} /\ taken = {} /\ written = {} /\ holding = {} /\ todo = {}
        /\ files = {} /\ stored = {} /\ refused = {} /\ superseded = {} /\ released = {}
    BY DEF Init
  <2> QED BY <1>2, <2>1, <2>2, <2>3 DEF TypeOK
<1> QED BY <1>2, <1>3, FS_EmptySet DEF Init, Inv, StateOK, PassOK, FiniteOK, LostIsMarked

LEMMA NextInv ==
  ASSUME Inv, [Next]_vars
  PROVE  Inv'
<1> USE DEF Inv
<1>1. SUFFICES StateOK' /\ Carries
  BY <1>1, CarriesMarks
<1>2. ASSUME NEW n \in Nodes, NEW at \in Times, NEW t \in Times, NEW who, NEW made,
             \/ Collect(n, t) \/ Pend(n, t) \/ Settle(n, t) \/ CollectAfterBreak(n, at, t)
             \/ MarkBreak(n, at) \/ Beat(n, t) \/ Disconnected(who, made)
      PROVE  StateOK' /\ Carries
  <2>1. PICK doomed \in SUBSET Droppable, new \in SUBSET Buffered :
          IsFiniteSet(new) /\ PushStep(doomed, new)
    BY <1>2, PushActions DEF NewOK
  <2>2. StateOK'
    BY <2>1, PushKeepsState
  <2> QED BY <2>1, <2>2, PushCarries
<1>3. CASE \E n \in Nodes, t \in Times : Collect(n, t) \/ Pend(n, t) \/ Settle(n, t) \/ Beat(n, t)
  BY <1>2, <1>3
<1>4. CASE \E n \in Nodes, at, t \in Times : CollectAfterBreak(n, at, t) \/ MarkBreak(n, at)
  BY <1>2, <1>4
<1>5. CASE \E who \in SUBSET Nodes, made \in 1 .. MaxSeq : Disconnected(who, made)
  <2>1. PICK who \in SUBSET Nodes, made \in 1 .. MaxSeq : Disconnected(who, made)
    BY <1>5
  <2>2. Droppable # {}
    BY <2>1 DEF Disconnected
  <2>3. \E n \in Nodes, t \in Times : TRUE
    BY <2>2 DEF Droppable, StateOK, TypeOK, Gap, Buffered
  <2> QED BY <2>1, <2>3, <1>2
<1>6. CASE Drop
  BY <1>6, DropKeepsState, DropCarries
<1>7. CASE \E cut \in 0 .. MaxSeq : Take(cut)
  BY <1>7, TakeKeepsState, TakeCarries
<1>8. CASE \E d \in todo : WriteDay(d) \/ RefuseDay(d) \/ HoldDay(d)
  BY <1>8, DayKeepsState, DayCarries
<1>9. CASE Return
  BY <1>9, ReturnKeepsState, ReturnCarries
<1>10. CASE Finish
  BY <1>10, FinishKeeps
<1>11. CASE End \/ UNCHANGED vars
  BY <1>11, IdleKeeps
<1> QED BY <1>3, <1>4, <1>5, <1>6, <1>7, <1>8, <1>9, <1>10, <1>11 DEF Next

LEMMA Invariance == Spec => []Inv
<1>1. Init => Inv
  BY InitInv
<1>2. Inv /\ [Next]_vars => Inv'
  BY NextInv
<1> QED BY <1>1, <1>2, PTL DEF Spec

\* The buffer, the lost records, the batch and the files keep their types: no
\* count of lost values goes below zero when DropBeats takes one back.
THEOREM TypeCorrect == Spec => []TypeOK
<1>1. Inv => TypeOK
  BY DEF Inv, StateOK
<1> QED BY <1>1, Invariance, PTL

\* No value vanishes in silence, for any number of nodes, days and failures:
\* Drop, DropBeats, Take, Return and the writes of a flush keep every record
\* served, or marked Bad_DataLost at or before its time.
THEOREM NothingLostInSilence == Spec => []LostIsMarked
<1>1. Inv => LostIsMarked
  BY DEF Inv
<1> QED BY <1>1, Invariance, PTL
=============================================================================
