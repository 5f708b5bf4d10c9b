------------------------- MODULE HistCollectProofs --------------------------
(***************************************************************************)
(* Proofs about HistCollect, for any nodes, values, deadband, thresholds   *)
(* and clocks: what a node stores stands for what its source delivered,    *)
(* and a value that is held has a timer of its own.                        *)
(*                                                                         *)
(* A node is a record of seventeen fields, and an operation of the group   *)
(* writes several of them one after the other.  The theorems are about     *)
(* eight.  The first lemmas say, of each helper of the code, that it       *)
(* leaves those eight (Alike) or what it makes of them (IsStored,          *)
(* IsMarked, IsSettled); the next, that a node that was Sane and stood for *)
(* a value (Current) is and does so after it; the last lift that to the    *)
(* group (GroupOK) and to the steps.                                       *)
(*                                                                         *)
(* Sane is what makes it inductive: the serials of a node's timers never   *)
(* run ahead of the node's (Numbered), so that a serial just taken is new, *)
(* and what is pending has the timer of the node's serial (Timed).         *)
(***************************************************************************)
EXTENDS HistCollect, TLAPS

IsNode(x) ==
  x = [Config |-> x.Config, Break |-> x.Break, Stored |-> x.Stored, Marked |-> x.Marked,
       ValueTs |-> x.ValueTs, RecordTs |-> x.RecordTs, KeptTs |-> x.KeptTs, StoredAt |-> x.StoredAt,
       Pending |-> x.Pending, Due |-> x.Due, Serial |-> x.Serial, Delivered |-> x.Delivered,
       Offset |-> x.Offset, Joined |-> x.Joined, Beat |-> x.Beat, BeatAt |-> x.BeatAt,
       Since |-> x.Since]

IsGroup(g) ==
  /\ g = [node |-> g.node, down |-> g.down, series |-> g.series, queue |-> g.queue,
          beat |-> g.beat, expiries |-> g.expiries]
  /\ g.node = [m \in Nodes |-> g.node[m]]
  /\ \A m \in Nodes : IsNode(g.node[m])

\* y is a node with these for the fields the theorems are about.
Has(y, config, break, stored, marked, ts, pending, due, serial) ==
  /\ IsNode(y)
  /\ y.Config = config /\ y.Break = break /\ y.Stored = stored /\ y.Marked = marked
  /\ y.ValueTs = ts /\ y.Pending = pending /\ y.Due = due /\ y.Serial = serial

\* They are y's as they are x's.
Alike(x, y) ==
  Has(y, x.Config, x.Break, x.Stored, x.Marked, x.ValueTs, x.Pending, x.Due, x.Serial)

\* h is g but for node n, its records, and the heartbeat's timer and queue.
Touches(g, h, n) ==
  /\ IsGroup(h)
  /\ h.down = g.down
  /\ \A m \in Nodes \ {n} : h.node[m] = g.node[m]

Same(g, h, n) == Touches(g, h, n) /\ h.expiries = g.expiries /\ Alike(g.node[n], h.node[n])

\* Replacing node n of a group touches nothing but node n.
LEMMA SetNode ==
  ASSUME NEW g, IsGroup(g), NEW n \in Nodes, NEW x, IsNode(x)
  PROVE  /\ Touches(g, [g EXCEPT !.node[n] = x], n)
         /\ [g EXCEPT !.node[n] = x].expiries = g.expiries
         /\ [g EXCEPT !.node[n] = x].node[n] = x
<1> DEFINE h == [g EXCEPT !.node[n] = x]
<1>0. PICK f, a, b, c, d, e : g = [node |-> f, down |-> a, series |-> b, queue |-> c,
                                   beat |-> d, expiries |-> e]
  BY Zenon DEF IsGroup
<1>a. h = [node |-> [f EXCEPT ![n] = x], down |-> a, series |-> b, queue |-> c,
           beat |-> d, expiries |-> e]
  BY <1>0
<1> HIDE DEF h
<1>1. h = [node |-> h.node, down |-> h.down, series |-> h.series, queue |-> h.queue,
          beat |-> h.beat, expiries |-> h.expiries]
  BY <1>a, Zenon
<1>2. h.node = [g.node EXCEPT ![n] = x] /\ h.down = g.down /\ h.expiries = g.expiries
  BY <1>0, <1>a, Zenon
<1>3. h.node[n] = x /\ \A m \in Nodes \ {n} : h.node[m] = g.node[m]
  BY <1>2, Zenon DEF IsGroup
<1>4. h.node = [m \in Nodes |-> h.node[m]]
  BY <1>2, Zenon DEF IsGroup
<1>5. \A m \in Nodes : IsNode(h.node[m])
  BY <1>3, Zenon DEF IsGroup
<1> QED BY <1>1, <1>2, <1>3, <1>4, <1>5, Zenon DEF Touches, IsGroup, h

\* h has the nodes of g.
Keeps(g, h) == IsGroup(h) /\ h.node = g.node
HoldsTimers(g, h) == h.down = g.down /\ h.expiries = g.expiries

\* Writing the heartbeat queue leaves the group's nodes and timers.
LEMMA SetQueue ==
  ASSUME NEW g, IsGroup(g), NEW q
  PROVE  Keeps(g, [g EXCEPT !.queue = q]) /\ HoldsTimers(g, [g EXCEPT !.queue = q])
BY DEF IsGroup, Keeps, HoldsTimers

\* Arming the heartbeat's timer leaves them too.
LEMMA SetBeat ==
  ASSUME NEW g, IsGroup(g), NEW q
  PROVE  Keeps(g, [g EXCEPT !.beat = q]) /\ HoldsTimers(g, [g EXCEPT !.beat = q])
BY DEF IsGroup, Keeps, HoldsTimers

\* So does keeping records.
LEMMA SetSeries ==
  ASSUME NEW g, IsGroup(g), NEW q
  PROVE  Keeps(g, [g EXCEPT !.series = q]) /\ HoldsTimers(g, [g EXCEPT !.series = q])
BY DEF IsGroup, Keeps, HoldsTimers

\* So does noting when the source went down or came back.
LEMMA SetDown ==
  ASSUME NEW g, IsGroup(g), NEW q
  PROVE  /\ Keeps(g, [g EXCEPT !.down = q])
         /\ [g EXCEPT !.down = q].down = q
         /\ [g EXCEPT !.down = q].expiries = g.expiries
BY DEF IsGroup, Keeps

\* Adding or removing a timer leaves the nodes.
LEMMA SetExpiries ==
  ASSUME NEW g, IsGroup(g), NEW q
  PROVE  /\ Keeps(g, [g EXCEPT !.expiries = q])
         /\ [g EXCEPT !.expiries = q].expiries = q
         /\ [g EXCEPT !.expiries = q].down = g.down
BY DEF IsGroup, Keeps

\* Queueing a node for its heartbeat leaves what it stores and holds.
LEMMA WatchSame ==
  ASSUME NEW g, IsGroup(g), NEW n \in Nodes, NEW due
  PROVE  Same(g, Watch(g, n, due), n)
<1> DEFINE x == g.node[n]
           y == [x EXCEPT !.BeatAt = due]
           h == [g EXCEPT !.node[n] = y]
           q == g.queue \cup {<<due, n>>}
<1>0. Watch(g, n, due) = [h EXCEPT !.queue = q]
  BY Zenon DEF Watch
<1>1. IsNode(x)
  BY Zenon DEF IsGroup
<1> HIDE DEF x
<1>2. IsNode(y) /\ Alike(x, y)
  BY <1>1 DEF IsNode, Alike, Has
<1> HIDE DEF y
<1>3. Touches(g, h, n) /\ h.expiries = g.expiries /\ h.node[n] = y
  BY <1>2, SetNode
<1> HIDE DEF h
<1>4. Keeps(h, [h EXCEPT !.queue = q]) /\ HoldsTimers(h, [h EXCEPT !.queue = q])
  BY <1>3, SetQueue, Zenon DEF Touches
<1> QED BY <1>0, <1>2, <1>3, <1>4, Zenon DEF Touches, Same, Keeps, HoldsTimers, x

\* So does Group::Arm, whichever timer it (re)schedules.
LEMMA ArmSame ==
  ASSUME NEW g, IsGroup(g), NEW n \in Nodes
  PROVE  Same(g, Arm(g, n), n)
<1>1. Same(g, g, n)
  BY Zenon DEF Same, Touches, Alike, Has, IsGroup
<1>2. ASSUME NEW h, Same(g, h, n), NEW due
      PROVE  Same(g, ArmAt(h, due), n)
  <2>1. ArmAt(h, due) = h \/ \E q : ArmAt(h, due) = [h EXCEPT !.beat = q]
    BY Zenon DEF ArmAt, ScheduleBeat
  <2>2. ASSUME NEW q
        PROVE  Same(g, [h EXCEPT !.beat = q], n)
    <3>1. Keeps(h, [h EXCEPT !.beat = q]) /\ HoldsTimers(h, [h EXCEPT !.beat = q])
      BY <1>2, SetBeat, Zenon DEF Same, Touches
    <3> QED BY <1>2, <3>1, Zenon DEF Touches, Same, Keeps, HoldsTimers
  <2> QED BY <1>2, <2>1, <2>2, Zenon
<1>3. \A due : Same(g, Watch(g, n, due), n)
  BY WatchSame, Zenon
<1>4. Arm(g, n) = g \/ \E due, e : Arm(g, n) = ArmAt(g, due) \/ Arm(g, n) = ArmAt(Watch(g, n, e), due)
  BY Zenon DEF Arm
<1> QED BY <1>1, <1>2, <1>3, <1>4, Zenon

-----------------------------------------------------------------------------
(* What storing, marking, settling and expiring leave of a node *)

\* A value was stored: v, with time t.
IsStored(x, y, t, v) ==
  Has(y, x.Config, x.Break, v, FALSE, t, x.Pending, x.Due, x.Serial)

\* What follows was lost.
IsMarked(x, y) ==
  Has(y, x.Config, x.Break, Lost, TRUE, x.ValueTs, x.Pending, x.Due, x.Serial)

\* The pending value was stored, or was not told apart from what is.
IsSettled(x, y) ==
  \/ Has(y, x.Config, x.Break, x.Pending.val, FALSE, x.Pending.time, NoPending,
         x.Due, x.Serial + 1)
  \/ /\ x.Stored # None /\ ~Passes(x.Stored, x.Pending.val)
     /\ Has(y, x.Config, x.Break, x.Stored, x.Marked, x.ValueTs, NoPending,
            x.Due, x.Serial + 1)

\* What was stored, marked or alike after an alike node is so after the node itself.
LEMMA AlikeIs ==
  ASSUME NEW x, NEW k, NEW y, Alike(x, k)
  PROVE  /\ \A t, v : IsStored(k, y, t, v) => IsStored(x, y, t, v)
         /\ IsMarked(k, y) => IsMarked(x, y)
         /\ Alike(k, y) => Alike(x, y)
BY Zenon DEF Alike, Has, IsStored, IsMarked

\* Group::StoreRecord writes a record, and no node.
LEMMA StoreRecordKeeps ==
  ASSUME NEW g, IsGroup(g), NEW n \in Nodes, NEW kind, NEW t, NEW v
  PROVE  Keeps(g, StoreRecord(g, n, kind, t, v)) /\ HoldsTimers(g, StoreRecord(g, n, kind, t, v))
<1>1. \E q : StoreRecord(g, n, kind, t, v) = [g EXCEPT !.series = q]
  BY Zenon DEF StoreRecord
<1> QED BY <1>1, SetSeries, Zenon

\* Keeping the time of a record changes no value.
LEMMA KeepAlike ==
  ASSUME NEW x, IsNode(x), NEW t
  PROVE  Alike(x, Keep(x, t))
<1> DEFINE y == [x EXCEPT !.KeptTs = Larger(@, t)]
           q == Larger(y.RecordTs, t)
<1>1. Keep(x, t) = [y EXCEPT !.RecordTs = q]
  BY Zenon DEF Keep
<1>2. Alike(x, y)
  BY DEF IsNode, Alike, Has
<1> HIDE DEF y, q
<1>3. Alike(y, [y EXCEPT !.RecordTs = q])
  BY <1>2 DEF IsNode, Alike, Has
<1> QED BY <1>1, <1>2, <1>3, AlikeIs, Zenon

\* The assignments of StoreValue, one after the other.
LEMMA StoredFields ==
  ASSUME NEW k, IsNode(k), NEW v, NEW m, NEW t, NEW a, NEW s
  PROVE  Has([k EXCEPT !.Stored = v, !.Marked = m, !.ValueTs = t, !.StoredAt = a, !.Since = s],
             k.Config, k.Break, v, m, t, k.Pending, k.Due, k.Serial)
<1> DEFINE x1 == [k EXCEPT !.Stored = v]
           x2 == [x1 EXCEPT !.Marked = m]
           x3 == [x2 EXCEPT !.ValueTs = t]
           x4 == [x3 EXCEPT !.StoredAt = a]
           x5 == [x4 EXCEPT !.Since = s]
<1>0. [k EXCEPT !.Stored = v, !.Marked = m, !.ValueTs = t, !.StoredAt = a, !.Since = s] = x5
  BY Zenon
<1>1. Has(x1, k.Config, k.Break, v, k.Marked, k.ValueTs, k.Pending, k.Due, k.Serial)
  BY DEF IsNode, Has
<1> HIDE DEF x1
<1>2. Has(x2, k.Config, k.Break, v, m, k.ValueTs, k.Pending, k.Due, k.Serial)
  BY <1>1 DEF IsNode, Has
<1> HIDE DEF x2
<1>3. Has(x3, k.Config, k.Break, v, m, t, k.Pending, k.Due, k.Serial)
  BY <1>2 DEF IsNode, Has
<1> HIDE DEF x3
<1>4. Has(x4, k.Config, k.Break, v, m, t, k.Pending, k.Due, k.Serial)
  BY <1>3 DEF IsNode, Has
<1> HIDE DEF x4
<1>5. Has(x5, k.Config, k.Break, v, m, t, k.Pending, k.Due, k.Serial)
  BY <1>4 DEF IsNode, Has
<1> QED BY <1>0, <1>5, Zenon

\* The assignments of Mark, one after the other.
LEMMA MarkedFields ==
  ASSUME NEW k, IsNode(k), NEW v, NEW m, NEW a, NEW s
  PROVE  Has([k EXCEPT !.Stored = v, !.Marked = m, !.StoredAt = a, !.Since = s],
             k.Config, k.Break, v, m, k.ValueTs, k.Pending, k.Due, k.Serial)
<1> DEFINE x1 == [k EXCEPT !.Stored = v]
           x2 == [x1 EXCEPT !.Marked = m]
           x4 == [x2 EXCEPT !.StoredAt = a]
           x5 == [x4 EXCEPT !.Since = s]
<1>0. [k EXCEPT !.Stored = v, !.Marked = m, !.StoredAt = a, !.Since = s] = x5
  BY Zenon
<1>1. Has(x1, k.Config, k.Break, v, k.Marked, k.ValueTs, k.Pending, k.Due, k.Serial)
  BY DEF IsNode, Has
<1> HIDE DEF x1
<1>2. Has(x2, k.Config, k.Break, v, m, k.ValueTs, k.Pending, k.Due, k.Serial)
  BY <1>1 DEF IsNode, Has
<1> HIDE DEF x2
<1>4. Has(x4, k.Config, k.Break, v, m, k.ValueTs, k.Pending, k.Due, k.Serial)
  BY <1>2 DEF IsNode, Has
<1> HIDE DEF x4
<1>5. Has(x5, k.Config, k.Break, v, m, k.ValueTs, k.Pending, k.Due, k.Serial)
  BY <1>4 DEF IsNode, Has
<1> QED BY <1>0, <1>5, Zenon

\* Group::StoreValue stores v with time t, and touches only node n.
LEMMA StoreValueIs ==
  ASSUME NEW g, IsGroup(g), NEW n \in Nodes, NEW t, NEW v
  PROVE  /\ Touches(g, StoreValue(g, n, t, v), n)
         /\ StoreValue(g, n, t, v).expiries = g.expiries
         /\ IsStored(g.node[n], StoreValue(g, n, t, v).node[n], t, v)
<1> DEFINE k == Keep(g.node[n], t)
           x == [k EXCEPT !.Stored = v, !.Marked = FALSE,
                          !.ValueTs = t, !.StoredAt = now, !.Since = steady]
           h == [g EXCEPT !.node[n] = x]
           r == StoreRecord(h, n, "value", t, v)
<1>0. StoreValue(g, n, t, v) = Arm(r, n)
  BY Zenon DEF StoreValue
<1>1. Alike(g.node[n], k)
  BY KeepAlike, Zenon DEF IsGroup
<1> HIDE DEF k
<1>2. IsStored(k, x, t, v)
  <2>1. PICK m : m = FALSE
    BY Zenon
  <2>2. PICK a : a = now
    BY Zenon
  <2>3. PICK s : s = steady
    BY Zenon
  <2>4. IsNode(k)
    BY <1>1, Zenon DEF Alike, Has
  <2>5. Has([k EXCEPT !.Stored = v, !.Marked = m, !.ValueTs = t, !.StoredAt = a, !.Since = s],
             k.Config, k.Break, v, m, t, k.Pending, k.Due, k.Serial)
    BY <2>4, StoredFields, Zenon
  <2> QED BY <2>1, <2>2, <2>3, <2>5, Zenon DEF IsStored
<1> HIDE DEF x
<1>3. Touches(g, h, n) /\ h.expiries = g.expiries /\ h.node[n] = x
  BY <1>2, SetNode DEF IsStored, Has
<1> HIDE DEF h
<1>4. Keeps(h, r) /\ HoldsTimers(h, r)
  BY <1>3, StoreRecordKeeps, Zenon DEF Touches
<1> HIDE DEF r
<1>5. Same(r, Arm(r, n), n)
  BY <1>4, ArmSame, Zenon DEF Keeps
<1>6. IsStored(k, Arm(r, n).node[n], t, v)
  BY <1>2, <1>3, <1>4, <1>5, Zenon DEF IsStored, Same, Alike, Keeps, Has
<1>7. IsStored(g.node[n], Arm(r, n).node[n], t, v)
  BY <1>1, <1>6, AlikeIs
<1> QED BY <1>0, <1>3, <1>4, <1>5, <1>7, Zenon DEF Touches, Same, Keeps, HoldsTimers

\* Group::Mark stores that what follows was lost, and touches only node n.
LEMMA MarkIs ==
  ASSUME NEW g, IsGroup(g), NEW n \in Nodes, NEW at
  PROVE  /\ Touches(g, Mark(g, n, at), n)
         /\ Mark(g, n, at).expiries = g.expiries
         /\ IsMarked(g.node[n], Mark(g, n, at).node[n])
<1> DEFINE k == Keep(g.node[n], at)
           x == [k EXCEPT !.Stored = Lost, !.Marked = TRUE,
                          !.StoredAt = now, !.Since = steady]
           h == [g EXCEPT !.node[n] = x]
           r == StoreRecord(h, n, "marker", at, Lost)
<1>0. Mark(g, n, at) = r
  BY Zenon DEF Mark
<1>1. Alike(g.node[n], k)
  BY KeepAlike, Zenon DEF IsGroup
<1> HIDE DEF k
<1>2. IsMarked(k, x)
  <2>0. PICK v : v = Lost
    BY Zenon
  <2>1. PICK m : m = TRUE
    BY Zenon
  <2>2. PICK a : a = now
    BY Zenon
  <2>3. PICK s : s = steady
    BY Zenon
  <2>4. IsNode(k)
    BY <1>1, Zenon DEF Alike, Has
  <2>5. Has([k EXCEPT !.Stored = v, !.Marked = m, !.StoredAt = a, !.Since = s],
             k.Config, k.Break, v, m, k.ValueTs, k.Pending, k.Due, k.Serial)
    BY <2>4, MarkedFields, Zenon
  <2> QED BY <2>0, <2>1, <2>2, <2>3, <2>5, Zenon DEF IsMarked
<1> HIDE DEF x
<1>3. Touches(g, h, n) /\ h.expiries = g.expiries /\ h.node[n] = x
  BY <1>2, SetNode DEF IsMarked, Has
<1> HIDE DEF h
<1>4. Keeps(h, r) /\ HoldsTimers(h, r)
  BY <1>3, StoreRecordKeeps, Zenon DEF Touches
<1> HIDE DEF r
<1>5. IsMarked(g.node[n], x)
  BY <1>1, <1>2, AlikeIs, Zenon
<1> QED BY <1>0, <1>3, <1>4, <1>5, Zenon DEF Touches, Keeps, HoldsTimers

\* The assignments of Settle, before it stores.
LEMMA SettledFields ==
  ASSUME NEW x, IsNode(x), NEW p, NEW s
  PROVE  Has([x EXCEPT !.Pending = p, !.Serial = s],
             x.Config, x.Break, x.Stored, x.Marked, x.ValueTs, p, x.Due, s)
<1> DEFINE x1 == [x EXCEPT !.Pending = p]
           x2 == [x1 EXCEPT !.Serial = s]
<1>0. [x EXCEPT !.Pending = p, !.Serial = s] = x2
  BY Zenon
<1>1. Has(x1, x.Config, x.Break, x.Stored, x.Marked, x.ValueTs, p, x.Due, x.Serial)
  BY DEF IsNode, Has
<1> HIDE DEF x1
<1>2. Has(x2, x.Config, x.Break, x.Stored, x.Marked, x.ValueTs, p, x.Due, s)
  BY <1>1 DEF IsNode, Has
<1> QED BY <1>0, <1>2, Zenon

\* Group::Settle ends node n's wait: its value is stored, or is not told apart from
\* the stored one.
LEMMA SettleIs ==
  ASSUME NEW g, IsGroup(g), NEW n \in Nodes
  PROVE  /\ Touches(g, Settle(g, n), n)
         /\ Settle(g, n).expiries = g.expiries
         /\ IsSettled(g.node[n], Settle(g, n).node[n])
<1> DEFINE x == g.node[n]
           p == x.Pending
           y == [x EXCEPT !.Pending = NoPending, !.Serial = @ + 1]
           h == [g EXCEPT !.node[n] = y]
           passes == x.Stored = None \/ Passes(x.Stored, p.val)
<1>0. Settle(g, n) = IF passes THEN StoreValue(h, n, p.time, p.val) ELSE Arm(h, n)
  BY Zenon DEF Settle
<1>1. IsNode(x)
  BY Zenon DEF IsGroup
<1>2. Has(y, x.Config, x.Break, x.Stored, x.Marked, x.ValueTs, NoPending, x.Due, x.Serial + 1)
  <2>1. PICK q : q = NoPending
    BY Zenon
  <2>2. PICK s : s = x.Serial + 1
    BY Zenon
  <2>3. Has([x EXCEPT !.Pending = q, !.Serial = s],
             x.Config, x.Break, x.Stored, x.Marked, x.ValueTs, q, x.Due, s)
    BY <1>1, SettledFields, Zenon
  <2> QED BY <2>1, <2>2, <2>3, Zenon
<1> HIDE DEF y
<1>3. Touches(g, h, n) /\ h.expiries = g.expiries /\ h.node[n] = y
  BY <1>2, SetNode DEF Has
<1> HIDE DEF h
<1>4. CASE passes
  <2>0. PICK t, v : t = p.time /\ v = p.val
    BY Zenon
  <2> DEFINE s == StoreValue(h, n, t, v)
  <2>1. Touches(h, s, n) /\ s.expiries = h.expiries /\ IsStored(h.node[n], s.node[n], t, v)
    BY <1>3, StoreValueIs DEF Touches
  <2>3. Settle(g, n) = s
    BY <1>0, <1>4, <2>0, Zenon
  <2> HIDE DEF s
  <2>2. IsSettled(x, s.node[n])
    BY <2>0, <2>1, <1>2, <1>3, Zenon DEF IsSettled, IsStored, Has
  <2> QED BY <1>3, <2>1, <2>2, <2>3, Zenon DEF Touches
<1>5. CASE ~passes
  <2>1. Same(h, Arm(h, n), n)
    BY <1>3, ArmSame, Zenon DEF Touches
  <2>2. Settle(g, n) = Arm(h, n)
    BY <1>0, <1>5, Zenon
  <2>3. IsSettled(x, Arm(h, n).node[n])
    BY <2>1, <1>2, <1>3, <1>5, Zenon DEF IsSettled, Same, Alike, Has
  <2> QED BY <1>3, <2>1, <2>2, <2>3, Zenon DEF Same, Touches
<1> QED BY <1>4, <1>5, Zenon

\* A timer for node n is due at `due`.
IsExpiry(e, n, serial, due) ==
  e = [node |-> n, serial |-> serial, at |-> steady + Larger(due - now, 0)]

\* Group::ExpireAt gives node n a new serial and one timer of that serial.
LEMMA ExpireAtIs ==
  ASSUME NEW g, IsGroup(g), NEW n \in Nodes, NEW due
  PROVE  /\ Touches(g, ExpireAt(g, n, due), n)
         /\ \E e : /\ IsExpiry(e, n, g.node[n].Serial + 1, due)
                   /\ ExpireAt(g, n, due).expiries = g.expiries \cup {e}
         /\ LET x == g.node[n]
            IN Has(ExpireAt(g, n, due).node[n], x.Config, x.Break, x.Stored, x.Marked, x.ValueTs,
                   x.Pending, due, x.Serial + 1)
<1> DEFINE x == g.node[n]
<1>0. PICK serial : serial = x.Serial + 1
  BY Zenon
<1>e. PICK e : IsExpiry(e, n, serial, due)
  BY Zenon DEF IsExpiry
<1> DEFINE y == [x EXCEPT !.Due = due]
           z == [y EXCEPT !.Serial = serial]
           h1 == [g EXCEPT !.node[n] = y]
           h2 == [h1 EXCEPT !.node[n] = z]
           q == g.expiries \cup {e}
<1>1. IsNode(x)
  BY Zenon DEF IsGroup
<1>2. Has(y, x.Config, x.Break, x.Stored, x.Marked, x.ValueTs, x.Pending, due, x.Serial)
  BY <1>1 DEF IsNode, Has
<1>4. ExpireAt(g, n, due) = [[h1 EXCEPT !.node[n].Serial = serial] EXCEPT !.expiries = q]
  BY <1>0, <1>e, Zenon DEF ExpireAt, IsExpiry
<1> HIDE DEF y
<1>3. Touches(g, h1, n) /\ h1.expiries = g.expiries /\ h1.node[n] = y
  BY <1>2, SetNode DEF Has
<1>4a. [h1 EXCEPT !.node[n].Serial = serial] = h2
  BY <1>3, Zenon
<1> HIDE DEF h1
<1>5. Has(z, x.Config, x.Break, x.Stored, x.Marked, x.ValueTs, x.Pending, due, serial)
  BY <1>2 DEF IsNode, Has
<1> HIDE DEF z
<1>6. Touches(h1, h2, n) /\ h2.expiries = h1.expiries /\ h2.node[n] = z
  BY <1>3, <1>5, SetNode DEF Touches, Has
<1> HIDE DEF h2, q
<1> DEFINE h3 == [h2 EXCEPT !.expiries = q]
<1>7. /\ Keeps(h2, h3)
      /\ h3.expiries = q
      /\ h3.down = h2.down
  BY <1>6, SetExpiries, Zenon DEF Touches
<1>8. ExpireAt(g, n, due) = h3
  BY <1>4, <1>4a, Zenon
<1> HIDE DEF h3
<1>9. Touches(g, h3, n)
  BY <1>3, <1>6, <1>7, Zenon DEF Touches, Keeps
<1>10. h3.expiries = g.expiries \cup {e}
  BY <1>7, Zenon DEF q
<1>11. Has(h3.node[n], x.Config, x.Break, x.Stored, x.Marked, x.ValueTs, x.Pending, due, x.Serial + 1)
  BY <1>0, <1>5, <1>6, <1>7, Zenon DEF Keeps
<1> QED BY <1>0, <1>e, <1>8, <1>9, <1>10, <1>11, Zenon

\* Dropping heartbeat records leaves what a node stores and holds.
LEMMA SetBeats ==
  ASSUME NEW g, IsGroup(g), NEW n \in Nodes, NEW a, NEW b, NEW c
  PROVE  Same(g, [g EXCEPT !.series[n] = a, !.node[n].Beat = b, !.node[n].RecordTs = c], n)
<1> DEFINE h == [g EXCEPT !.series[n] = a]
           x == h.node[n]
           y == [x EXCEPT !.Beat = b]
           z == [y EXCEPT !.RecordTs = c]
           h1 == [h EXCEPT !.node[n] = y]
           h2 == [h1 EXCEPT !.node[n] = z]
<1>1. Keeps(g, h) /\ HoldsTimers(g, h)
  <2>1. \E q : h = [g EXCEPT !.series = q]
    BY Zenon
  <2> QED BY <2>1, SetSeries, Zenon
<1>0. [g EXCEPT !.series[n] = a, !.node[n].Beat = b, !.node[n].RecordTs = c]
        = [h1 EXCEPT !.node[n].RecordTs = c]
  BY Zenon
<1> HIDE DEF h
<1>2. IsNode(x)
  BY <1>1, Zenon DEF Keeps, IsGroup
<1>2a. x = g.node[n]
  BY <1>1, Zenon DEF Keeps
<1> HIDE DEF x
<1>3. Alike(x, y)
  BY <1>2 DEF IsNode, Alike, Has
<1> HIDE DEF y
<1>4. Touches(h, h1, n) /\ h1.expiries = h.expiries /\ h1.node[n] = y
  <2>1. IsNode(y)
    BY <1>3, Zenon DEF Alike, Has
  <2>2. IsGroup(h)
    BY <1>1, Zenon DEF Keeps
  <2>3. /\ Touches(h, [h EXCEPT !.node[n] = y], n)
        /\ [h EXCEPT !.node[n] = y].expiries = h.expiries
        /\ [h EXCEPT !.node[n] = y].node[n] = y
    BY <2>1, <2>2, SetNode
  <2> QED BY <2>3, Zenon
<1>5. [h1 EXCEPT !.node[n].RecordTs = c] = h2
  BY <1>4, Zenon
<1> HIDE DEF h1
<1>6. Alike(y, z)
  BY <1>3 DEF IsNode, Alike, Has
<1> HIDE DEF z
<1>7. Touches(h1, h2, n) /\ h2.expiries = h1.expiries /\ h2.node[n] = z
  BY <1>4, <1>6, SetNode DEF Touches, Alike, Has
<1> HIDE DEF h2
<1>8. Alike(x, z)
  BY <1>3, <1>6, AlikeIs, Zenon
<1>9. Same(g, h2, n)
  BY <1>1, <1>2a, <1>4, <1>7, <1>8, Zenon DEF Same, Touches, Keeps, HoldsTimers
<1> QED BY <1>0, <1>5, <1>9, Zenon

\* So does DropBeats, whether or not it has any to drop.
LEMMA DropBeatsSame ==
  ASSUME NEW g, IsGroup(g), NEW n \in Nodes, NEW from, NEW made
  PROVE  Same(g, DropBeats(g, n, from, made), n)
<1>1. Same(g, g, n)
  BY Zenon DEF Same, Touches, Alike, Has, IsGroup
<1> DEFINE x == g.node[n]
           After(r) == (IF made THEN r.made ELSE r.time) >= from
           left == SelectSeq(g.series[n], LAMBDA r : ~(Droppable(r) /\ After(r)))
           beats == {r.time : r \in {s \in Elements(left) : Droppable(s)}}
           beat == IF beats = {} THEN None ELSE Newest(beats)
           ts == Larger(x.KeptTs, beat)
           h == [g EXCEPT !.series[n] = left, !.node[n].Beat = beat, !.node[n].RecordTs = ts]
<1>2. DropBeats(g, n, from, made) = IF x.Beat = None \/ (~made /\ from > x.Beat) THEN g ELSE h
  BY Zenon DEF DropBeats
<1> HIDE DEF left, beat, ts
<1>3. PICK a, b, c : a = left /\ b = beat /\ c = ts
  BY Zenon
<1>4. Same(g, [g EXCEPT !.series[n] = a, !.node[n].Beat = b, !.node[n].RecordTs = c], n)
  BY SetBeats, Zenon
<1>5. Same(g, h, n)
  BY <1>3, <1>4, Zenon
<1> QED BY <1>1, <1>2, <1>5, Zenon

-----------------------------------------------------------------------------
(* The invariant, of one node *)

NodeOK(x) ==
  /\ x.Config.min \in Nat /\ x.Serial \in Nat
  /\ x.Stored \in Int /\ x.ValueTs \in Int /\ x.Due \in Int
  /\ x.Pending.val \in Int /\ x.Pending.time \in Int
  /\ x.Marked = TRUE => x.Stored = Lost

\* Among the timers E, the ones of n have serials of their own, up to the node's;
\* what is pending has the timer of that serial.
Numbered(x, E, n) ==
  /\ \A e \in E : e.node = n => e.serial \in Nat /\ e.serial <= x.Serial
  /\ \A e, f \in E : e.node = n /\ f.node = n /\ e.serial = f.serial => e = f
Timed(x, E, n) ==
  /\ Numbered(x, E, n)
  /\ x.Pending # NoPending => \E e \in E : e.node = n /\ e.serial = x.Serial
  /\ x.Pending # NoPending => x.Due <= steady + x.Config.min
  /\ x.Pending # NoPending =>
       \A e \in E : e.node = n /\ e.serial = x.Serial =>
         e.at \in Int /\ x.Due <= e.at /\ e.at <= x.Due + back

Sane(x, E, n) == NodeOK(x) /\ Timed(x, E, n)

\* What is pending, or else what is stored, stands for d.
Current(x, d) ==
  /\ x.Pending # NoPending => x.Pending.val = d
  /\ x.Pending = NoPending /\ x.Stored \notin {None, Lost} => Near(x.Stored, d)

\* A value that does not pass the node's deadband is within it of the stored one.
LEMMA NotPassing ==
  ASSUME Band \in Nat, NEW v \in Int, NEW w \in Int, ~Passes(v, w)
  PROVE  Near(v, w)
BY DEF Passes, Near, Distance

\* A node alike a sane one is sane, and stands for the same value.
LEMMA AlikeSane ==
  ASSUME NEW x, NEW y, NEW E, NEW n, Sane(x, E, n), Alike(x, y)
  PROVE  Sane(y, E, n) /\ \A d : Current(x, d) => Current(y, d)
BY Zenon DEF Sane, NodeOK, Timed, Numbered, Current, Alike, Has

\* A node that waits for nothing and stores v stands for v.
LEMMA StoredSane ==
  ASSUME NEW x, NEW y, NEW E, NEW n, Sane(x, E, n), x.Pending = NoPending,
         NEW t \in Int, NEW v \in Int, IsStored(x, y, t, v)
  PROVE  Sane(y, E, n) /\ Current(y, v) /\ y.Pending = NoPending
<1>1. NodeOK(y)
  BY Zenon DEF Sane, NodeOK, IsStored, Has
<1>2. Timed(y, E, n)
  BY Zenon DEF Sane, Timed, Numbered, IsStored, Has
<1> QED BY <1>1, <1>2, Zenon DEF Sane, Current, IsStored, Has, Near

\* A node that waits for nothing and is marked stands for anything.
LEMMA MarkedSane ==
  ASSUME NEW x, NEW y, NEW E, NEW n, Sane(x, E, n), x.Pending = NoPending, IsMarked(x, y)
  PROVE  Sane(y, E, n) /\ (\A d : Current(y, d)) /\ y.Pending = NoPending
<1>1. NodeOK(y)
  BY DEF Sane, NodeOK, IsMarked, Has, Lost
<1>2. Timed(y, E, n)
  BY Zenon DEF Sane, Timed, Numbered, IsMarked, Has
<1> QED BY <1>1, <1>2, Zenon DEF Sane, Current, IsMarked, Has

\* A node that settles stands for what it held; this needs no timer, so that it
\* also serves the step that takes the timer.
LEMMA SettledSane ==
  ASSUME Band \in Nat, NEW x, NEW y, NEW E, NEW n, NodeOK(x), Numbered(x, E, n),
         x.Pending # NoPending, IsSettled(x, y)
  PROVE  /\ Sane(y, E, n) /\ y.Pending = NoPending
         /\ \A d : Current(x, d) => Current(y, d)
<1>1. NodeOK(y) /\ y.Pending = NoPending /\ y.Serial = x.Serial + 1
  BY DEF NodeOK, IsSettled, Has, NoPending, None
<1>2. Timed(y, E, n)
  <2>1. \A e \in E : e.node = n => e.serial \in Nat /\ e.serial <= y.Serial
    BY <1>1 DEF NodeOK, Numbered
  <2> QED BY <1>1, <2>1, Zenon DEF Timed, Numbered
<1>3. ASSUME NEW d, Current(x, d)
      PROVE  Current(y, d)
  <2>1. x.Pending.val = d /\ d \in Int
    BY <1>3, Zenon DEF Current, NodeOK
  <2>2. CASE y.Stored = x.Pending.val
    BY <1>1, <2>1, <2>2, Zenon DEF Current, Near
  <2>3. CASE ~Passes(x.Stored, x.Pending.val) /\ y.Stored = x.Stored
    <3>1. Near(y.Stored, d)
      BY <2>1, <2>3, NotPassing, Zenon DEF NodeOK
    <3> QED BY <1>1, <3>1, Zenon DEF Current
  <2> QED BY <2>2, <2>3, Zenon DEF IsSettled, Has
<1> QED BY <1>1, <1>2, <1>3, Zenon DEF Sane

\* A timer of a serial that is new, for what is pending.
LEMMA ExpirySane ==
  ASSUME NEW x, NEW y, NEW E, NEW n, NEW e, NEW due \in Int, NodeOK(x), Numbered(x, E, n),
         steady \in Nat, back \in Nat, now <= due, due <= steady + x.Config.min,
         IsExpiry(e, n, x.Serial + 1, due),
         Has(y, x.Config, x.Break, x.Stored, x.Marked, x.ValueTs, x.Pending, due, x.Serial + 1)
  PROVE  Sane(y, E \cup {e}, n) /\ \A d : Current(x, d) => Current(y, d)
<1>1. NodeOK(y)
  BY DEF NodeOK, Has
<1>2. e.node = n /\ e.serial = x.Serial + 1 /\ e.at = due + back
  BY DEF IsExpiry, Larger, now
<1>3. \A f \in E : f.node = n => f.serial \in Nat /\ f.serial <= x.Serial
  BY Zenon DEF Numbered
<1>4. x.Serial \in Nat /\ y.Serial = x.Serial + 1 /\ y.Config = x.Config /\ y.Due = due
  BY Zenon DEF NodeOK, Has
<1>5. \A f \in E \cup {e} : f.node = n => f.serial \in Nat /\ f.serial <= y.Serial
  BY <1>2, <1>3, <1>4
<1>6. \A f \in E \cup {e} : f.node = n /\ f.serial = y.Serial => f = e
  BY <1>2, <1>3, <1>4
<1>7. \A f, g \in E \cup {e} : f.node = n /\ g.node = n /\ f.serial = g.serial => f = g
  BY <1>2, <1>3, <1>4 DEF Numbered
<1>8. Timed(y, E \cup {e}, n)
  BY <1>2, <1>4, <1>5, <1>6, <1>7 DEF Timed, Numbered
<1> QED BY <1>1, <1>8, Zenon DEF Sane, Current, Has

-----------------------------------------------------------------------------
(* Collect *)

\* h is g but for node n, which is sane, and its timers.
Moves(g, h, n) ==
  /\ Touches(g, h, n) /\ Sane(h.node[n], h.expiries, n)
  /\ h.expiries = g.expiries \/ \E e : e.node = n /\ h.expiries = g.expiries \cup {e}

\* Group::SettlePending leaves node n sane, waiting for nothing, and standing for
\* what it stood for.
LEMMA SettlePendingMoves ==
  ASSUME Band \in Nat, NEW g, IsGroup(g), NEW n \in Nodes, Sane(g.node[n], g.expiries, n)
  PROVE  LET h == SettlePending(g, n)
         IN /\ Touches(g, h, n) /\ h.expiries = g.expiries
            /\ Sane(h.node[n], h.expiries, n) /\ h.node[n].Pending = NoPending
            /\ \A d : Current(g.node[n], d) => Current(h.node[n], d)
<1>1. CASE g.node[n].Pending = NoPending
  <2>1. SettlePending(g, n) = g
    BY <1>1, Zenon DEF SettlePending
  <2> QED BY <1>1, <2>1, Zenon DEF Touches
<1>2. CASE g.node[n].Pending # NoPending
  <2> DEFINE h == Settle(g, n)
  <2>1. SettlePending(g, n) = h
    BY <1>2, Zenon DEF SettlePending
  <2>2. Touches(g, h, n) /\ h.expiries = g.expiries /\ IsSettled(g.node[n], h.node[n])
    BY SettleIs, Zenon
  <2> HIDE DEF h
  <2>3. /\ Sane(h.node[n], g.expiries, n) /\ h.node[n].Pending = NoPending
        /\ \A d : Current(g.node[n], d) => Current(h.node[n], d)
    BY <1>2, <2>2, SettledSane, Zenon DEF Sane, Timed
  <2> QED BY <2>1, <2>2, <2>3, Zenon
<1> QED BY <1>1, <1>2, Zenon

\* Group::StoreValue, of a node that waits for nothing.
LEMMA StoreValueMoves ==
  ASSUME NEW g, IsGroup(g), NEW n \in Nodes, Sane(g.node[n], g.expiries, n),
         g.node[n].Pending = NoPending, NEW t \in Int, NEW v \in Int
  PROVE  LET h == StoreValue(g, n, t, v)
         IN /\ Touches(g, h, n) /\ h.expiries = g.expiries
            /\ Sane(h.node[n], h.expiries, n) /\ Current(h.node[n], v)
<1> DEFINE h == StoreValue(g, n, t, v)
<1>1. Touches(g, h, n) /\ h.expiries = g.expiries /\ IsStored(g.node[n], h.node[n], t, v)
  BY StoreValueIs
<1> HIDE DEF h
<1>2. Sane(h.node[n], g.expiries, n) /\ Current(h.node[n], v)
  BY <1>1, StoredSane, Zenon
<1> QED BY <1>1, <1>2, Zenon DEF h

\* Group::Mark, of a node that waits for nothing.
LEMMA MarkMoves ==
  ASSUME NEW g, IsGroup(g), NEW n \in Nodes, Sane(g.node[n], g.expiries, n),
         g.node[n].Pending = NoPending, NEW at
  PROVE  LET h == Mark(g, n, at)
         IN /\ Touches(g, h, n) /\ h.expiries = g.expiries
            /\ Sane(h.node[n], h.expiries, n) /\ h.node[n].Pending = NoPending
            /\ \A d : Current(h.node[n], d)
<1> DEFINE h == Mark(g, n, at)
<1>1. Touches(g, h, n) /\ h.expiries = g.expiries /\ IsMarked(g.node[n], h.node[n])
  BY MarkIs, Zenon
<1> HIDE DEF h
<1>2. Sane(h.node[n], g.expiries, n) /\ h.node[n].Pending = NoPending
      /\ \A d : Current(h.node[n], d)
  BY <1>1, MarkedSane, Zenon
<1> QED BY <1>1, <1>2, Zenon DEF h

\* A step that leaves what node n stores and holds leaves it sane.
LEMMA SameMoves ==
  ASSUME NEW g, NEW h, NEW n \in Nodes, Same(g, h, n), Sane(g.node[n], g.expiries, n)
  PROVE  /\ Touches(g, h, n) /\ h.expiries = g.expiries
         /\ Sane(h.node[n], h.expiries, n) /\ h.node[n].Pending = g.node[n].Pending
         /\ h.node[n].Stored = g.node[n].Stored /\ h.node[n].Config = g.node[n].Config
         /\ h.node[n].ValueTs = g.node[n].ValueTs
         /\ \A d : Current(g.node[n], d) => Current(h.node[n], d)
<1>1. Sane(h.node[n], g.expiries, n) /\ \A d : Current(g.node[n], d) => Current(h.node[n], d)
  BY AlikeSane, Zenon DEF Same
<1> QED BY <1>1, Zenon DEF Same, Alike, Has

\* The first value after a break (Group::CollectAfterBreak) is stored at once: the
\* node stands for it, whatever was pending before.
LEMMA CollectAfterBreakMoves ==
  ASSUME Band \in Nat, NEW g0, IsGroup(g0), NEW n \in Nodes, Sane(g0.node[n], g0.expiries, n),
         NEW at, NEW last, NEW src, NEW time \in Int, NEW v \in Int
  PROVE  LET h == CollectAfterBreak(g0, n, at, last, src, time, v)
         IN /\ Touches(g0, h, n) /\ h.expiries = g0.expiries
            /\ Sane(h.node[n], h.expiries, n) /\ Current(h.node[n], v)
<1> DEFINE h == CollectAfterBreak(g0, n, at, last, src, time, v)
           g == SettlePending(g0, n)
           x == g.node[n]
           agrees == x.Marked \/ x.Stored = None \/ ~Passes(x.Stored, v) \/ Repeats(x.Stored, v)
           compared == src # None /\ last # None
           unbeaten == DropBeats(g, n, time, FALSE)
           marked == Mark(unbeaten, n, Smaller(Larger(at, unbeaten.node[n].RecordTs), time))
<1>1. Touches(g0, g, n) /\ g.expiries = g0.expiries /\ Sane(x, g.expiries, n) /\ x.Pending = NoPending
  BY SettlePendingMoves, Zenon
<1>2. h = CASE compared /\ src = last /\ agrees -> Arm(g, n)
            [] compared /\ src < last -> Mark(g, n, Larger(at, x.RecordTs))
            [] OTHER -> StoreValue(marked, n, time, v)
  BY Zenon DEF CollectAfterBreak, Compared
<1>2a. IsGroup(g)
  BY <1>1, Zenon DEF Touches
<1> HIDE DEF g
<1>3. ASSUME agrees
      PROVE  /\ Touches(g, Arm(g, n), n) /\ Arm(g, n).expiries = g.expiries
             /\ Sane(Arm(g, n).node[n], g.expiries, n) /\ Current(Arm(g, n).node[n], v)
  <2>1. Same(g, Arm(g, n), n)
    BY <1>2a, ArmSame, Zenon
  <2>2. Current(x, v)
    <3>1. CASE x.Marked
      <4>1. x.Stored = Lost
        BY <1>1, <3>1, Zenon DEF Sane, NodeOK
      <4> QED BY <4>1, <1>1, Zenon DEF Current
    <3>2. CASE x.Stored = None
      BY <3>2, <1>1, Zenon DEF Current
    <3>3. CASE ~Passes(x.Stored, v)
      <4>1. Near(x.Stored, v)
        BY <1>1, <3>3, NotPassing, Zenon DEF Sane, NodeOK
      <4> QED BY <4>1, <1>1, Zenon DEF Current
    <3>4. CASE Repeats(x.Stored, v)
      BY <3>4, <1>1, Zenon DEF Current, Repeats, Near
    <3> QED BY <1>3, <3>1, <3>2, <3>3, <3>4, Zenon
  <2> QED BY <1>1, <2>1, <2>2, SameMoves, Zenon
<1>4. ASSUME NEW a
      PROVE  /\ Touches(g, Mark(g, n, a), n) /\ Mark(g, n, a).expiries = g.expiries
             /\ Sane(Mark(g, n, a).node[n], g.expiries, n) /\ Current(Mark(g, n, a).node[n], v)
  BY <1>1, <1>2a, MarkMoves, Zenon
<1>5. /\ Touches(g, StoreValue(marked, n, time, v), n)
      /\ StoreValue(marked, n, time, v).expiries = g.expiries
      /\ Sane(StoreValue(marked, n, time, v).node[n], g.expiries, n)
      /\ Current(StoreValue(marked, n, time, v).node[n], v)
  <2>1. Same(g, unbeaten, n)
    BY <1>2a, DropBeatsSame, Zenon
  <2> HIDE DEF unbeaten
  <2>2. /\ Touches(g, unbeaten, n) /\ unbeaten.expiries = g.expiries /\ IsGroup(unbeaten)
        /\ Sane(unbeaten.node[n], unbeaten.expiries, n) /\ unbeaten.node[n].Pending = NoPending
    <3>1. /\ Touches(g, unbeaten, n) /\ unbeaten.expiries = g.expiries
          /\ Sane(unbeaten.node[n], unbeaten.expiries, n)
          /\ unbeaten.node[n].Pending = g.node[n].Pending
      BY <1>1, <2>1, SameMoves
    <3>2. IsGroup(unbeaten)
      BY <3>1, Zenon DEF Touches
    <3> QED BY <1>1, <3>1, <3>2, Zenon
  <2>3. /\ Touches(unbeaten, marked, n) /\ marked.expiries = unbeaten.expiries /\ IsGroup(marked)
        /\ Sane(marked.node[n], marked.expiries, n) /\ marked.node[n].Pending = NoPending
    <3>1. /\ Touches(unbeaten, marked, n) /\ marked.expiries = unbeaten.expiries
          /\ Sane(marked.node[n], marked.expiries, n) /\ marked.node[n].Pending = NoPending
      BY <2>2, MarkMoves, Zenon
    <3>2. IsGroup(marked)
      BY <3>1, Zenon DEF Touches
    <3> QED BY <3>1, <3>2, Zenon
  <2> HIDE DEF marked
  <2> DEFINE k == StoreValue(marked, n, time, v)
  <2>4. /\ Touches(marked, k, n) /\ k.expiries = marked.expiries
        /\ Sane(k.node[n], k.expiries, n) /\ Current(k.node[n], v)
    BY <2>3, StoreValueMoves, Zenon
  <2> HIDE DEF k
  <2> QED BY <2>2, <2>3, <2>4, Zenon DEF Touches, k
<1> HIDE DEF h, compared, agrees, marked
<1>6. /\ Touches(g, h, n) /\ h.expiries = g.expiries
      /\ Sane(h.node[n], g.expiries, n) /\ Current(h.node[n], v)
  BY <1>2, <1>3, <1>4, <1>5, Zenon
<1> QED BY <1>1, <1>6, Zenon DEF Touches, h

\* Learning the offset of a source clock changes no value.
LEMMA OffsetSame ==
  ASSUME NEW g, IsGroup(g), NEW n \in Nodes, NEW q
  PROVE  Same(g, [g EXCEPT !.node[n].Offset = q], n)
<1> DEFINE x == g.node[n]
           y == [x EXCEPT !.Offset = q]
           h == [g EXCEPT !.node[n] = y]
<1>0. [g EXCEPT !.node[n].Offset = q] = h
  BY Zenon DEF IsGroup
<1>1. IsNode(x)
  BY Zenon DEF IsGroup
<1>2. Alike(x, y)
  BY <1>1 DEF IsNode, Alike, Has
<1> HIDE DEF y
<1>3. Touches(g, h, n) /\ h.expiries = g.expiries /\ h.node[n] = y
  BY <1>2, SetNode DEF Alike, Has
<1> HIDE DEF h
<1>4. Same(g, h, n)
  BY <1>2, <1>3, Zenon DEF Same
<1> QED BY <1>0, <1>4, Zenon

\* Writing the pending value, and nothing else.
LEMMA PendingSet ==
  ASSUME NEW g, IsGroup(g), NEW n \in Nodes, NEW q
  PROVE  LET h == [g EXCEPT !.node[n].Pending = q]
             x == g.node[n]
         IN /\ Touches(g, h, n) /\ h.expiries = g.expiries
            /\ Has(h.node[n], x.Config, x.Break, x.Stored, x.Marked, x.ValueTs, q, x.Due, x.Serial)
<1> DEFINE x == g.node[n]
           y == [x EXCEPT !.Pending = q]
           h == [g EXCEPT !.node[n] = y]
<1>0. [g EXCEPT !.node[n].Pending = q] = h
  BY Zenon DEF IsGroup
<1>1. IsNode(x)
  BY Zenon DEF IsGroup
<1>2. Has(y, x.Config, x.Break, x.Stored, x.Marked, x.ValueTs, q, x.Due, x.Serial)
  BY <1>1 DEF IsNode, Has
<1> HIDE DEF y
<1>3. Touches(g, h, n) /\ h.expiries = g.expiries /\ h.node[n] = y
  BY <1>2, SetNode DEF Has
<1> HIDE DEF h
<1>4. Has(h.node[n], x.Config, x.Break, x.Stored, x.Marked, x.ValueTs, q, x.Due, x.Serial)
  BY <1>2, <1>3, Zenon
<1> QED BY <1>0, <1>3, <1>4, Zenon

\* A value is held pending: over another, whose timer it keeps, or with a timer
\* of its own.
LEMMA HeldOver ==
  ASSUME NEW g, IsGroup(g), NEW n \in Nodes, Sane(g.node[n], g.expiries, n),
         g.node[n].Pending # NoPending, NEW time \in Int, NEW v \in Nat
  PROVE  LET h == [g EXCEPT !.node[n].Pending = [time |-> time, val |-> v]]
         IN Moves(g, h, n) /\ Current(h.node[n], v)
<1>0. PICK q : q = [time |-> time, val |-> v]
  BY Zenon
<1>1. q.val = v /\ q.time = time /\ q # NoPending
  BY <1>0 DEF NoPending, None
<1> DEFINE h == [g EXCEPT !.node[n].Pending = q]
           x == g.node[n]
           y == h.node[n]
<1>2. /\ Touches(g, h, n) /\ h.expiries = g.expiries
      /\ Has(y, x.Config, x.Break, x.Stored, x.Marked, x.ValueTs, q, x.Due, x.Serial)
  BY PendingSet, Zenon
<1>3. h = [g EXCEPT !.node[n].Pending = [time |-> time, val |-> v]]
  BY <1>0, Zenon
<1> HIDE DEF h
<1>4. Sane(y, g.expiries, n) /\ Current(y, v)
  <2>1. NodeOK(x) /\ Timed(x, g.expiries, n)
    BY Zenon DEF Sane
  <2>2. NodeOK(y)
    BY <1>1, <1>2, <2>1 DEF NodeOK, Has
  <2>3. Timed(y, g.expiries, n)
    BY <1>2, <2>1, Zenon DEF Timed, Numbered, Has
  <2>4. Current(y, v)
    BY <1>1, <1>2, Zenon DEF Current, Has
  <2> QED BY <2>2, <2>3, <2>4, Zenon DEF Sane
<1>5. Moves(g, h, n) /\ Current(h.node[n], v)
  BY <1>2, <1>4, Zenon DEF Moves
<1> QED BY <1>3, <1>5, Zenon

\* A value held where none was has a new timer.
LEMMA HeldAnew ==
  ASSUME steady \in Nat, back \in Nat,
         NEW g, IsGroup(g), NEW n \in Nodes, Sane(g.node[n], g.expiries, n),
         NEW time \in Int, NEW v \in Nat,
         NEW due \in Int, now <= due, due <= steady + g.node[n].Config.min,
         g.node[n].Pending = NoPending
  PROVE  LET h == ExpireAt([g EXCEPT !.node[n].Pending = [time |-> time, val |-> v]], n, due)
         IN Moves(g, h, n) /\ Current(h.node[n], v)
<1>0. PICK q : q = [time |-> time, val |-> v]
  BY Zenon
<1>1. q.val = v /\ q.time = time /\ q # NoPending
  BY <1>0 DEF NoPending, None
<1> DEFINE k == [g EXCEPT !.node[n].Pending = q]
           x == g.node[n]
           y == k.node[n]
<1>2. /\ Touches(g, k, n) /\ k.expiries = g.expiries
      /\ Has(y, x.Config, x.Break, x.Stored, x.Marked, x.ValueTs, q, x.Due, x.Serial)
  BY PendingSet, Zenon
<1>3. k = [g EXCEPT !.node[n].Pending = [time |-> time, val |-> v]]
  BY <1>0, Zenon
<1> HIDE DEF k
<1> DEFINE h == ExpireAt(k, n, due)
           z == h.node[n]
<1>4. /\ Touches(k, h, n)
      /\ \E e : IsExpiry(e, n, y.Serial + 1, due) /\ h.expiries = k.expiries \cup {e}
      /\ Has(z, y.Config, y.Break, y.Stored, y.Marked, y.ValueTs, y.Pending, due, y.Serial + 1)
  BY <1>2, ExpireAtIs, Zenon DEF Touches
<1> HIDE DEF h
<1>5. PICK e : IsExpiry(e, n, y.Serial + 1, due) /\ h.expiries = k.expiries \cup {e}
  BY <1>4, Zenon
<1>6. NodeOK(y) /\ Current(y, v) /\ y.Config = x.Config /\ y.Serial = x.Serial
  <2>1. NodeOK(x)
    BY Zenon DEF Sane
  <2>2. y.Config = x.Config /\ y.Serial = x.Serial /\ y.Pending = q
        /\ y.Stored = x.Stored /\ y.ValueTs = x.ValueTs /\ y.Due = x.Due /\ y.Marked = x.Marked
    BY <1>2, Zenon DEF Has
  <2>4. NodeOK(y)
    BY <1>1, <2>1, <2>2 DEF NodeOK
  <2>3. Current(y, v)
    BY <1>1, <2>2, Zenon DEF Current
  <2> QED BY <2>2, <2>3, <2>4, Zenon
<1>7. Sane(z, g.expiries \cup {e}, n)
  <2>1. Numbered(y, g.expiries, n)
    BY <1>6, Zenon DEF Sane, Timed, Numbered
  <2> QED BY <1>2, <1>4, <1>5, <1>6, <2>1, ExpirySane, Zenon
<1>8. Current(z, v)
  BY <1>4, <1>6, Zenon DEF Current, Has
<1>9. Moves(g, h, n)
  <2>1. Touches(g, h, n)
    BY <1>2, <1>4, Zenon DEF Touches
  <2>2. e.node = n /\ h.expiries = g.expiries \cup {e}
    BY <1>2, <1>5, Zenon DEF IsExpiry
  <2> QED BY <1>7, <2>1, <2>2, Zenon DEF Moves
<1> QED BY <1>3, <1>8, <1>9, Zenon DEF h

\* Group::CollectChange: stored at once, held for its interval, replacing what is
\* held, or dropped as not told apart; the node stands for it in every case.
LEMMA CollectChangeMoves ==
  ASSUME Band \in Nat, steady \in Nat, back \in Nat,
         NEW g0, IsGroup(g0), NEW n \in Nodes, Sane(g0.node[n], g0.expiries, n),
         NEW joined, NEW src, NEW time \in Int, NEW v \in Nat
  PROVE  LET h == CollectChange(g0, n, joined, src, time, v)
         IN Moves(g0, h, n) /\ Current(h.node[n], v)
<1> DEFINE h == CollectChange(g0, n, joined, src, time, v)
           g1 == IF joined \/ src = None THEN g0
                 ELSE [g0 EXCEPT !.node[n].Offset = now - src]
           Within(g) == LET x == g.node[n]
                        IN x.Config.min > 0 /\ x.ValueTs # None /\ time - x.ValueTs < x.Config.min
           g2 == IF Within(g1) THEN g1 ELSE SettlePending(g1, n)
           x == g2.node[n]
           passes == x.Stored = None \/ Passes(x.Stored, v)
           g3 == IF passes THEN DropBeats(g2, n, time, FALSE) ELSE g2
           held == [g3 EXCEPT !.node[n].Pending = [time |-> time, val |-> v]]
           due == now + Smaller(x.Config.min - (time - x.ValueTs), x.Config.min)
<1>0. h = CASE x.Pending # NoPending -> held
            [] x.Pending = NoPending /\ ~passes -> g3
            [] x.Pending = NoPending /\ passes /\ ~Within(g2) -> StoreValue(g3, n, time, v)
            [] OTHER -> ExpireAt(held, n, due)
  BY Zenon DEF CollectChange
<1>1. /\ Touches(g0, g1, n) /\ g1.expiries = g0.expiries /\ IsGroup(g1)
      /\ Sane(g1.node[n], g1.expiries, n)
  <2>1. Same(g0, g0, n)
    BY Zenon DEF Same, Touches, Alike, Has, IsGroup
  <2>2. PICK q : q = now - src
    BY Zenon
  <2>3. Same(g0, [g0 EXCEPT !.node[n].Offset = q], n)
    BY OffsetSame, Zenon
  <2>4. Same(g0, g1, n)
    BY <2>1, <2>2, <2>3, Zenon
  <2> HIDE DEF g1
  <2> QED BY <2>4, SameMoves DEF Touches
<1> HIDE DEF g1
<1>2. /\ Touches(g0, g2, n) /\ g2.expiries = g0.expiries /\ IsGroup(g2)
      /\ Sane(x, g2.expiries, n)
  <2>1. /\ Touches(g1, SettlePending(g1, n), n) /\ SettlePending(g1, n).expiries = g1.expiries
        /\ Sane(SettlePending(g1, n).node[n], SettlePending(g1, n).expiries, n)
    BY <1>1, SettlePendingMoves, Zenon
  <2>2. g2 = g1 \/ g2 = SettlePending(g1, n)
    BY Zenon
  <2> HIDE DEF g2
  <2> QED BY <1>1, <2>1, <2>2, Zenon DEF Touches
<1>w. PICK within \in BOOLEAN : within = Within(g2)
  BY Zenon
<1>v. within => x.Config.min > 0 /\ time - x.ValueTs < x.Config.min
  BY <1>w, Zenon
<1> HIDE DEF g2
<1>3. /\ Touches(g0, g3, n) /\ g3.expiries = g0.expiries /\ IsGroup(g3)
      /\ Sane(g3.node[n], g3.expiries, n) /\ g3.node[n].Pending = x.Pending
      /\ g3.node[n].Stored = x.Stored /\ g3.node[n].Config = x.Config
      /\ g3.node[n].ValueTs = x.ValueTs
  <2>1. Same(g2, g2, n)
    BY <1>2, Zenon DEF Same, Touches, Alike, Has, IsGroup
  <2>2. Same(g2, DropBeats(g2, n, time, FALSE), n)
    BY <1>2, DropBeatsSame, Zenon
  <2>3. Same(g2, g3, n)
    BY <2>1, <2>2, Zenon
  <2> HIDE DEF g3
  <2> QED BY <1>2, <2>3, SameMoves DEF Touches
<1> HIDE DEF g3
<1>4. CASE x.Pending # NoPending
  <2>1. Moves(g3, held, n) /\ Current(held.node[n], v)
    BY <1>3, <1>4, HeldOver, Zenon
  <2>2. h = held
    BY <1>0, <1>4, Zenon
  <2> HIDE DEF held, h
  <2> QED BY <1>3, <2>1, <2>2, Zenon DEF Moves, Touches, h
<1>5. CASE x.Pending = NoPending /\ ~passes
  <2>1. h = g3
    BY <1>0, <1>5, Zenon
  <2>2. Near(x.Stored, v)
    BY <1>2, <1>5, NotPassing DEF Sane, NodeOK
  <2>3. Current(g3.node[n], v)
    BY <1>3, <1>5, <2>2, Zenon DEF Current
  <2>4. Moves(g0, g3, n)
    BY <1>3, Zenon DEF Moves
  <2> QED BY <2>1, <2>3, <2>4, Zenon
<1>6. CASE x.Pending = NoPending /\ passes /\ ~within
  <2> DEFINE k == StoreValue(g3, n, time, v)
  <2>1. /\ Touches(g3, k, n) /\ k.expiries = g3.expiries
        /\ Sane(k.node[n], k.expiries, n) /\ Current(k.node[n], v)
    BY <1>3, <1>6, StoreValueMoves
  <2>2. h = k
    BY <1>0, <1>6, <1>w, Zenon
  <2> HIDE DEF k, h
  <2>3. Moves(g0, k, n)
    <3>1. Touches(g0, k, n)
      BY <1>3, <2>1, Zenon DEF Touches
    <3> QED BY <1>3, <2>1, <3>1, Zenon DEF Moves
  <2> QED BY <2>1, <2>2, <2>3, Zenon DEF h
<1>7. CASE x.Pending = NoPending /\ passes /\ within
  <2>0. PICK d \in Int : d = due /\ now <= d /\ d <= steady + x.Config.min
    <3>1. x.Config.min \in Nat /\ x.ValueTs \in Int
      BY <1>2, Zenon DEF Sane, NodeOK
    <3>2. due \in Int /\ now <= due /\ due <= steady + x.Config.min
      BY <1>7, <1>v, <3>1 DEF now, Smaller
    <3> QED BY <3>2, Zenon
  <2> DEFINE k == ExpireAt(held, n, d)
  <2>1. Moves(g3, k, n) /\ Current(k.node[n], v)
    BY <1>3, <1>7, <2>0, HeldAnew, Zenon
  <2>2. h = k
    BY <1>0, <1>7, <1>w, <2>0, Zenon
  <2> HIDE DEF k, h
  <2>3. Moves(g0, k, n)
    BY <1>3, <2>1, Zenon DEF Moves, Touches
  <2> QED BY <2>1, <2>2, <2>3, Zenon DEF h
<1> QED BY <1>4, <1>5, <1>6, <1>7, Zenon

\* Group::Collect, both of its paths.
LEMMA CollectedMoves ==
  ASSUME Band \in Nat, steady \in Nat, back \in Nat,
         NEW g, IsGroup(g), NEW n \in Nodes, Sane(g.node[n], g.expiries, n),
         NEW m, m.ts \in Int, m.val \in Nat
  PROVE  Moves(g, Collected(g, n, m), n) /\ Current(Collected(g, n, m).node[n], m.val)
<1> DEFINE x == g.node[n]
           src == IF m.stamped THEN m.ts ELSE None
           time == IF m.stamped THEN m.ts ELSE now
           y == [x EXCEPT !.Delivered = src, !.Joined = FALSE, !.Break = g.down]
           g1 == [g EXCEPT !.node[n] = y]
           h == Collected(g, n, m)
<1>0. h = IF x.Break # None /\ x.Break # g.down
          THEN CollectAfterBreak(g1, n, x.Break, x.Delivered, src, time, m.val)
          ELSE CollectChange(g1, n, x.Joined, src, time, m.val)
  BY Zenon DEF Collected
<1>1. Has(y, x.Config, g.down, x.Stored, x.Marked, x.ValueTs, x.Pending, x.Due, x.Serial)
  <2>1. PICK a, b, c : a = src /\ b = FALSE /\ c = g.down
    BY Zenon
  <2> DEFINE y1 == [x EXCEPT !.Delivered = a]
             y2 == [y1 EXCEPT !.Joined = b]
             y3 == [y2 EXCEPT !.Break = c]
  <2>2. y = y3
    BY <2>1, Zenon
  <2>3. IsNode(x)
    BY Zenon DEF IsGroup
  <2> HIDE DEF x, y
  <2>4. Alike(x, y1)
    BY <2>3 DEF IsNode, Alike, Has
  <2> HIDE DEF y1
  <2>5. Alike(y1, y2)
    BY <2>4 DEF IsNode, Alike, Has
  <2> HIDE DEF y2
  <2>6. Alike(x, y2)
    BY <2>4, <2>5, AlikeIs, Zenon
  <2>7. Has(y3, y2.Config, c, y2.Stored, y2.Marked, y2.ValueTs, y2.Pending, y2.Due, y2.Serial)
    BY <2>6 DEF IsNode, Alike, Has
  <2> HIDE DEF y3
  <2> QED BY <2>1, <2>2, <2>6, <2>7, Zenon DEF Alike, Has
<1>2. PICK s, t : s = src /\ t = time /\ t \in Int
  <2>1. time = m.ts \/ time = now
    BY Zenon
  <2>2. time \in Int
    BY <2>1 DEF now
  <2> QED BY <2>2, Zenon
<1> HIDE DEF y, src, time
<1>3. Touches(g, g1, n) /\ g1.expiries = g.expiries /\ g1.node[n] = y
  BY <1>1, SetNode DEF Has
<1> HIDE DEF g1
<1>4. Sane(y, g.expiries, n)
  BY <1>1, Zenon DEF Sane, NodeOK, Timed, Numbered, Has
<1>5. IsGroup(g1) /\ Sane(g1.node[n], g1.expiries, n)
  BY <1>3, <1>4, Zenon DEF Touches
<1>5a. PICK v \in Nat : v = m.val
  BY Zenon
<1>6. CASE x.Break # None /\ x.Break # g.down
  <2> DEFINE k == CollectAfterBreak(g1, n, x.Break, x.Delivered, s, t, v)
  <2>0. v \in Int /\ t \in Int
    BY <1>2
  <2>1. /\ Touches(g1, k, n) /\ k.expiries = g1.expiries
        /\ Sane(k.node[n], k.expiries, n) /\ Current(k.node[n], v)
    BY <1>5, <2>0, CollectAfterBreakMoves, Zenon
  <2>2. h = k
    BY <1>0, <1>2, <1>5a, <1>6, Zenon
  <2> HIDE DEF k, h
  <2>3. Moves(g, k, n)
    BY <1>3, <2>1, Zenon DEF Moves, Touches
  <2> QED BY <1>5a, <2>1, <2>2, <2>3, Zenon DEF h
<1>7. CASE ~(x.Break # None /\ x.Break # g.down)
  <2> DEFINE k == CollectChange(g1, n, x.Joined, s, t, v)
  <2>1. Moves(g1, k, n) /\ Current(k.node[n], v)
    BY <1>2, <1>5, CollectChangeMoves, Zenon
  <2>2. h = k
    BY <1>0, <1>2, <1>5a, <1>7, Zenon
  <2> HIDE DEF k, h
  <2>3. Moves(g, k, n)
    BY <1>3, <2>1, Zenon DEF Moves, Touches
  <2> QED BY <1>5a, <2>1, <2>2, <2>3, Zenon DEF h
<1> QED BY <1>6, <1>7, Zenon



-----------------------------------------------------------------------------
(* The same, of the nodes together *)

\* h is g but for node n, which is sane and stands for what it did.
Stands(g, h, n) ==
  /\ Touches(g, h, n) /\ h.expiries = g.expiries
  /\ Sane(h.node[n], h.expiries, n)
  /\ \A d : Current(g.node[n], d) => Current(h.node[n], d)

\* h is g but for what the theorems are not about.
AllSame(g, h) ==
  /\ IsGroup(h) /\ h.expiries = g.expiries
  /\ \A m \in Nodes : Alike(g.node[m], h.node[m])

\* Another node's timer does not matter.
LEMMA OtherTimer ==
  ASSUME NEW x, NEW E, NEW n, NEW e, Sane(x, E, n), e.node # n
  PROVE  Sane(x, E \cup {e}, n)
BY Zenon DEF Sane, Timed, Numbered

\* A timer that is not of what is pending may go.
LEMMA TimerGone ==
  ASSUME NEW x, NEW E, NEW n, NEW e, Sane(x, E, n),
         ~(x.Pending # NoPending /\ e.node = n /\ e.serial = x.Serial)
  PROVE  Sane(x, E \ {e}, n)
BY Zenon DEF Sane, Timed, Numbered

\* A group is itself but for what the theorems are not about.
LEMMA AllSameRefl ==
  ASSUME NEW g, IsGroup(g)
  PROVE  AllSame(g, g)
BY Zenon DEF AllSame, Alike, Has, IsGroup

\* Two such steps are one.
LEMMA AllSameTrans ==
  ASSUME NEW g, NEW h, NEW k, AllSame(g, h), AllSame(h, k)
  PROVE  AllSame(g, k)
BY AlikeIs, Zenon DEF AllSame

\* A step on one node that keeps it alike keeps all alike.
LEMMA SameIsAllSame ==
  ASSUME NEW g, IsGroup(g), NEW h, NEW n \in Nodes, Same(g, h, n)
  PROVE  AllSame(g, h)
BY Zenon DEF Same, Touches, AllSame, Alike, Has, IsGroup

\* So does a step on no node.
LEMMA KeepsIsAllSame ==
  ASSUME NEW g, IsGroup(g), NEW h, Keeps(g, h), h.expiries = g.expiries
  PROVE  AllSame(g, h)
BY Zenon DEF Keeps, AllSame, Alike, Has, IsGroup

\* Each node's turn is its own.
LEMMA EachOfIs ==
  ASSUME NEW g, IsGroup(g), NEW turn, \A n \in Nodes : IsNode(turn[n].node[n])
  PROVE  /\ IsGroup(EachOf(g, turn)) /\ EachOf(g, turn).expiries = g.expiries
         /\ EachOf(g, turn).down = g.down
         /\ \A n \in Nodes : EachOf(g, turn).node[n] = turn[n].node[n]
<1>1. PICK f, q : f = [n \in Nodes |-> turn[n].node[n]] /\ q = [n \in Nodes |-> turn[n].series[n]]
  BY Zenon
<1> DEFINE h == [g EXCEPT !.node = f]
<1>2. EachOf(g, turn) = [h EXCEPT !.series = q]
  BY <1>1, Zenon DEF EachOf
<1>3. h.node = f /\ h.expiries = g.expiries /\ h.down = g.down
  BY Zenon DEF IsGroup
<1>4. \A n \in Nodes : f[n] = turn[n].node[n]
  BY <1>1, Zenon
<1>5. f = [m \in Nodes |-> f[m]]
  BY <1>1, Zenon
<1>6. IsGroup(h)
  <2>1. h = [node |-> h.node, down |-> h.down, series |-> h.series, queue |-> h.queue,
             beat |-> h.beat, expiries |-> h.expiries]
    BY DEF IsGroup
  <2> HIDE DEF h
  <2> QED BY <1>3, <1>4, <1>5, <2>1, Zenon DEF IsGroup
<1> HIDE DEF h
<1>7. Keeps(h, [h EXCEPT !.series = q]) /\ HoldsTimers(h, [h EXCEPT !.series = q])
  BY <1>6, SetSeries, Zenon
<1> QED BY <1>2, <1>3, <1>4, <1>7, Zenon DEF Keeps, HoldsTimers

-----------------------------------------------------------------------------
(* The heartbeat and a flush leave every node alike *)

\* The field of the last record is not one the theorems are about;
LEMMA RecordTsSame ==
  ASSUME NEW g, IsGroup(g), NEW n \in Nodes, NEW q
  PROVE  Same(g, [g EXCEPT !.node[n].RecordTs = q], n)
<1> DEFINE x == g.node[n]
           y == [x EXCEPT !.RecordTs = q]
           h == [g EXCEPT !.node[n] = y]
<1>0. [g EXCEPT !.node[n].RecordTs = q] = h
  BY Zenon DEF IsGroup
<1>1. IsNode(x)
  BY Zenon DEF IsGroup
<1>2. Alike(x, y)
  BY <1>1 DEF IsNode, Alike, Has
<1> HIDE DEF y
<1>3. Touches(g, h, n) /\ h.expiries = g.expiries /\ h.node[n] = y
  BY <1>2, SetNode DEF Alike, Has
<1> HIDE DEF h
<1>4. Same(g, h, n)
  BY <1>2, <1>3, Zenon DEF Same
<1> QED BY <1>0, <1>4, Zenon

\* nor is when it was stored,
LEMMA StoredAtSame ==
  ASSUME NEW g, IsGroup(g), NEW n \in Nodes, NEW q
  PROVE  Same(g, [g EXCEPT !.node[n].StoredAt = q], n)
<1> DEFINE x == g.node[n]
           y == [x EXCEPT !.StoredAt = q]
           h == [g EXCEPT !.node[n] = y]
<1>0. [g EXCEPT !.node[n].StoredAt = q] = h
  BY Zenon DEF IsGroup
<1>1. IsNode(x)
  BY Zenon DEF IsGroup
<1>2. Alike(x, y)
  BY <1>1 DEF IsNode, Alike, Has
<1> HIDE DEF y
<1>3. Touches(g, h, n) /\ h.expiries = g.expiries /\ h.node[n] = y
  BY <1>2, SetNode DEF Alike, Has
<1> HIDE DEF h
<1>4. Same(g, h, n)
  BY <1>2, <1>3, Zenon DEF Same
<1> QED BY <1>0, <1>4, Zenon

\* nor since when the node was silent,
LEMMA SinceSame ==
  ASSUME NEW g, IsGroup(g), NEW n \in Nodes, NEW q
  PROVE  Same(g, [g EXCEPT !.node[n].Since = q], n)
<1> DEFINE x == g.node[n]
           y == [x EXCEPT !.Since = q]
           h == [g EXCEPT !.node[n] = y]
<1>0. [g EXCEPT !.node[n].Since = q] = h
  BY Zenon DEF IsGroup
<1>1. IsNode(x)
  BY Zenon DEF IsGroup
<1>2. Alike(x, y)
  BY <1>1 DEF IsNode, Alike, Has
<1> HIDE DEF y
<1>3. Touches(g, h, n) /\ h.expiries = g.expiries /\ h.node[n] = y
  BY <1>2, SetNode DEF Alike, Has
<1> HIDE DEF h
<1>4. Same(g, h, n)
  BY <1>2, <1>3, Zenon DEF Same
<1> QED BY <1>0, <1>4, Zenon

\* nor its last heartbeat,
LEMMA BeatSame ==
  ASSUME NEW g, IsGroup(g), NEW n \in Nodes, NEW q
  PROVE  Same(g, [g EXCEPT !.node[n].Beat = q], n)
<1> DEFINE x == g.node[n]
           y == [x EXCEPT !.Beat = q]
           h == [g EXCEPT !.node[n] = y]
<1>0. [g EXCEPT !.node[n].Beat = q] = h
  BY Zenon DEF IsGroup
<1>1. IsNode(x)
  BY Zenon DEF IsGroup
<1>2. Alike(x, y)
  BY <1>1 DEF IsNode, Alike, Has
<1> HIDE DEF y
<1>3. Touches(g, h, n) /\ h.expiries = g.expiries /\ h.node[n] = y
  BY <1>2, SetNode DEF Alike, Has
<1> HIDE DEF h
<1>4. Same(g, h, n)
  BY <1>2, <1>3, Zenon DEF Same
<1> QED BY <1>0, <1>4, Zenon

\* nor when the next one is due.
LEMMA BeatAtSame ==
  ASSUME NEW g, IsGroup(g), NEW n \in Nodes, NEW q
  PROVE  Same(g, [g EXCEPT !.node[n].BeatAt = q], n)
<1> DEFINE x == g.node[n]
           y == [x EXCEPT !.BeatAt = q]
           h == [g EXCEPT !.node[n] = y]
<1>0. [g EXCEPT !.node[n].BeatAt = q] = h
  BY Zenon DEF IsGroup
<1>1. IsNode(x)
  BY Zenon DEF IsGroup
<1>2. Alike(x, y)
  BY <1>1 DEF IsNode, Alike, Has
<1> HIDE DEF y
<1>3. Touches(g, h, n) /\ h.expiries = g.expiries /\ h.node[n] = y
  BY <1>2, SetNode DEF Alike, Has
<1> HIDE DEF h
<1>4. Same(g, h, n)
  BY <1>2, <1>3, Zenon DEF Same
<1> QED BY <1>0, <1>4, Zenon

\* Two steps that keep node n alike are one.
LEMMA SameTrans ==
  ASSUME NEW g, NEW h, NEW k, NEW n \in Nodes, Same(g, h, n), Same(h, k, n)
  PROVE  Same(g, k, n)
<1>1. Touches(g, k, n) /\ k.expiries = g.expiries
  BY Zenon DEF Same, Touches
<1>2. Alike(g.node[n], k.node[n])
  BY AlikeIs DEF Same
<1> QED BY <1>1, <1>2, Zenon DEF Same

\* A step that keeps node n alike leaves a group.
LEMMA SameGroup ==
  ASSUME NEW g, NEW h, NEW n, Same(g, h, n)
  PROVE  IsGroup(h)
BY Zenon DEF Same, Touches

\* Writing a node's records keeps it alike.
LEMMA SeriesSame ==
  ASSUME NEW g, IsGroup(g), NEW n \in Nodes, NEW q
  PROVE  Same(g, [g EXCEPT !.series[n] = q], n)
<1>1. PICK s : [g EXCEPT !.series[n] = q] = [g EXCEPT !.series = s]
  BY Zenon
<1>2. Keeps(g, [g EXCEPT !.series = s]) /\ HoldsTimers(g, [g EXCEPT !.series = s])
  BY SetSeries, Zenon
<1> QED BY <1>1, <1>2, Zenon DEF Keeps, HoldsTimers, Same, Touches, Alike, Has, IsGroup

\* A heartbeat written for node n (Group::Beat) keeps it alike.
LEMMA BeatenSame ==
  ASSUME NEW g, IsGroup(g), NEW n \in Nodes
  PROVE  Same(g, Beaten(g, n), n)
<1>1. PICK a, b, c, d : /\ a = BeatTime(g.node[n]) /\ b = now /\ c = steady
                        /\ d = Append(g.series[n], [kind |-> "beat", time |-> a,
                                        val |-> g.node[n].Stored,
                                        made |-> b, released |-> FALSE])
  BY Zenon
<1> DEFINE g1 == [g EXCEPT !.node[n].RecordTs = a]
           g2 == [g1 EXCEPT !.node[n].StoredAt = b]
           g3 == [g2 EXCEPT !.node[n].Since = c]
           g4 == [g3 EXCEPT !.node[n].Beat = a]
           g5 == [g4 EXCEPT !.series[n] = d]
<1>2. Beaten(g, n) = g5
  BY <1>1, Zenon DEF Beaten
<1>3. Same(g, g1, n)
  BY RecordTsSame, Zenon
<1> HIDE DEF g1
<1>4. Same(g1, g2, n)
  BY <1>3, SameGroup, StoredAtSame, Zenon
<1> HIDE DEF g2
<1>5. Same(g2, g3, n)
  BY <1>4, SameGroup, SinceSame, Zenon
<1> HIDE DEF g3
<1>6. Same(g3, g4, n)
  BY <1>5, SameGroup, BeatSame, Zenon
<1> HIDE DEF g4
<1>7. Same(g4, g5, n)
  BY <1>6, SameGroup, SeriesSame, Zenon
<1> HIDE DEF g5
<1> QED BY <1>2, <1>3, <1>4, <1>5, <1>6, <1>7, SameTrans, Zenon

\* So does the loop's look at node n, whether it beats or queues it again.
LEMMA LookAtSame ==
  ASSUME NEW g, IsGroup(g), NEW n \in Nodes
  PROVE  Same(g, LookAt(g, n), n)
<1>1. PICK q, a : /\ q = None
                  /\ a = IF Beats(g.node[n]) THEN Smaller(g.node[n].StoredAt, now)
                         ELSE g.node[n].StoredAt
  BY Zenon
<1> DEFINE g0 == [g EXCEPT !.node[n].BeatAt = q]
           g1 == [g0 EXCEPT !.node[n].StoredAt = a]
           x == g1.node[n]
           g2 == IF x.StoredAt + x.Config.max <= now THEN Beaten(g1, n) ELSE g1
<1>2. Same(g, g0, n)
  BY BeatAtSame, Zenon
<1>3. Same(g0, g1, n)
  <2> HIDE DEF g0
  <2> QED BY <1>2, SameGroup, StoredAtSame, Zenon
<1>4. LookAt(g, n) = IF Beats(g.node[n]) THEN Watch(g2, n, g2.node[n].StoredAt + x.Config.max) ELSE g1
  <2>1. g1 = [g EXCEPT !.node[n].BeatAt = None,
                !.node[n].StoredAt = IF Beats(g.node[n]) THEN Smaller(@, now) ELSE @]
    BY <1>1, Zenon DEF IsGroup, IsNode
  <2> HIDE DEF g1
  <2> QED BY <2>1 DEF LookAt
<1> HIDE DEF g0, g1
<1>5. Same(g1, g1, n)
  BY <1>3, SameGroup, Zenon DEF Same, Touches, Alike, Has, IsGroup
<1>6. Same(g1, g2, n)
  <2>1. Same(g1, Beaten(g1, n), n)
    BY <1>3, SameGroup, BeatenSame, Zenon
  <2> QED BY <1>5, <2>1, Zenon
<1> HIDE DEF g2
<1>7. \A due : Same(g2, Watch(g2, n, due), n)
  BY <1>6, SameGroup, WatchSame, Zenon
<1>8. Same(g, g1, n)
  BY <1>2, <1>3, SameTrans, Zenon
<1>9. \A due : Same(g, Watch(g2, n, due), n)
  BY <1>6, <1>7, <1>8, SameTrans, Zenon
<1> QED BY <1>4, <1>8, <1>9, Zenon

-----------------------------------------------------------------------------
(* The heartbeats *)

\* Replacing every node by an alike one.
LEMMA SetNodes ==
  ASSUME NEW g, IsGroup(g), NEW f, f = [m \in Nodes |-> f[m]],
         \A n \in Nodes : Alike(g.node[n], f[n])
  PROVE  AllSame(g, [g EXCEPT !.node = f]) /\ [g EXCEPT !.node = f].down = g.down
<1> DEFINE h == [g EXCEPT !.node = f]
<1>1. h.node = f /\ h.expiries = g.expiries /\ h.down = g.down
  BY Zenon DEF IsGroup
<1>2. h = [node |-> h.node, down |-> h.down, series |-> h.series, queue |-> h.queue,
           beat |-> h.beat, expiries |-> h.expiries]
  BY DEF IsGroup
<1> HIDE DEF h
<1>3. \A n \in Nodes : IsNode(f[n])
  BY Zenon DEF Alike, Has
<1> QED BY <1>1, <1>2, <1>3, Zenon DEF AllSame, IsGroup, h

\* The assignments of Reset to a node.
LEMMA WaitsAlike ==
  ASSUME NEW x, IsNode(x), NEW a, NEW b, NEW c
  PROVE  /\ Alike(x, [x EXCEPT !.StoredAt = a, !.Since = b, !.BeatAt = c])
         /\ Alike(x, [x EXCEPT !.BeatAt = c])
<1> DEFINE x1 == [x EXCEPT !.StoredAt = a]
           x2 == [x1 EXCEPT !.Since = b]
           x3 == [x2 EXCEPT !.BeatAt = c]
<1>0. [x EXCEPT !.StoredAt = a, !.Since = b, !.BeatAt = c] = x3
  BY Zenon
<1>1. Alike(x, x1)
  BY DEF IsNode, Alike, Has
<1> HIDE DEF x1
<1>2. Alike(x1, x2)
  BY <1>1 DEF IsNode, Alike, Has
<1> HIDE DEF x2
<1>3. Alike(x2, x3)
  BY <1>2 DEF IsNode, Alike, Has
<1> HIDE DEF x3
<1>4. Alike(x, [x EXCEPT !.BeatAt = c])
  BY DEF IsNode, Alike, Has
<1>5. Alike(x, x3)
  BY <1>1, <1>2, <1>3, AlikeIs, Zenon
<1> QED BY <1>0, <1>4, <1>5, Zenon

\* Reset, which a clock set back calls for, keeps every node alike.
LEMMA ResetSame ==
  ASSUME NEW g, IsGroup(g)
  PROVE  AllSame(g, Reset(g))
<1> DEFINE Waits(x) == [x EXCEPT !.StoredAt = Smaller(@, now), !.Since = steady,
                                 !.BeatAt = Smaller(x.StoredAt, now) + x.Config.max]
           waiting == {n \in Nodes : Beats(g.node[n])}
           node == [n \in Nodes |-> IF n \in waiting THEN Waits(g.node[n])
                                    ELSE [g.node[n] EXCEPT !.BeatAt = None]]
<1>1. PICK f, q : f = node /\ q = {<<node[n].BeatAt, n>> : n \in waiting}
  BY Zenon
<1>2. Reset(g) = [[g EXCEPT !.node = f] EXCEPT !.queue = q]
  BY <1>1, Zenon DEF Reset
<1>3. ASSUME NEW n \in Nodes
      PROVE  Alike(g.node[n], f[n])
  <2>1. PICK x : x = g.node[n] /\ IsNode(x)
    BY Zenon DEF IsGroup
  <2>2. PICK a, b, c, d : /\ a = Smaller(x.StoredAt, now) /\ b = steady
                          /\ c = Smaller(x.StoredAt, now) + x.Config.max /\ d = None
    BY Zenon
  <2>3. \/ f[n] = [x EXCEPT !.StoredAt = a, !.Since = b, !.BeatAt = c]
        \/ f[n] = [x EXCEPT !.BeatAt = d]
    <3>1. f[n] = Waits(x) \/ f[n] = [x EXCEPT !.BeatAt = d]
      BY <1>1, <2>1, <2>2, Zenon
    <3>2. Waits(x) = [x EXCEPT !.StoredAt = a, !.Since = b, !.BeatAt = c]
      BY <2>2, Zenon
    <3> HIDE DEF Waits
    <3> QED BY <3>1, <3>2, Zenon
  <2>4. Alike(x, [x EXCEPT !.StoredAt = a, !.Since = b, !.BeatAt = c])
    BY <2>1, WaitsAlike, Zenon
  <2>5. Alike(x, [x EXCEPT !.BeatAt = d])
    BY <2>1, WaitsAlike, Zenon
  <2> QED BY <2>1, <2>3, <2>4, <2>5, Zenon
<1>4. f = [m \in Nodes |-> f[m]]
  BY <1>1, Zenon
<1> DEFINE h == [g EXCEPT !.node = f]
<1> HIDE DEF node, waiting
<1>5. AllSame(g, h)
  BY <1>3, <1>4, SetNodes, Zenon
<1> HIDE DEF h
<1>6. Keeps(h, [h EXCEPT !.queue = q]) /\ HoldsTimers(h, [h EXCEPT !.queue = q])
  BY <1>5, SetQueue, Zenon DEF AllSame
<1>7. AllSame(h, [h EXCEPT !.queue = q])
  BY <1>5, <1>6, KeepsIsAllSame, Zenon DEF AllSame, HoldsTimers
<1>8. AllSame(g, [h EXCEPT !.queue = q])
  BY <1>5, <1>7, AllSameTrans, Zenon
<1> QED BY <1>2, <1>8, Zenon DEF h

\* Turns that keep each node alike keep all alike.
LEMMA EachOfSame ==
  ASSUME NEW g, IsGroup(g), NEW turn, \A n \in Nodes : Alike(g.node[n], turn[n].node[n])
  PROVE  AllSame(g, EachOf(g, turn))
<1>1. \A n \in Nodes : IsNode(turn[n].node[n])
  BY Zenon DEF Alike, Has
<1>2. /\ IsGroup(EachOf(g, turn)) /\ EachOf(g, turn).expiries = g.expiries
      /\ \A n \in Nodes : EachOf(g, turn).node[n] = turn[n].node[n]
  BY <1>1, EachOfIs
<1> QED BY <1>2, Zenon DEF AllSame

\* Group::Beat leaves every node's value, pending value and timers.
LEMMA BeatSameNodes ==
  ASSUME IsGroup(group), Beat
  PROVE  AllSame(group, group')
<1> DEFINE g0 == [group EXCEPT !.beat = NoBeat]
           g1 == IF now < group.beat.due THEN Reset(g0) ELSE g0
           due == {e[2] : e \in {q \in g1.queue : q[1] <= now /\ g1.node[q[2]].BeatAt = q[1]}}
           h == [g1 EXCEPT !.queue = {q \in @ : q[1] > now}]
           turn == [n \in Nodes |-> IF n \in due THEN LookAt(h, n) ELSE h]
           k == EachOf(h, turn)
           g2 == [k EXCEPT !.queue = @ \cup UNION {LookAt(h, n).queue : n \in due}]
<1>1. group' = IF group.down # None THEN g0
               ELSE IF g2.queue = {} THEN g2
               ELSE ScheduleBeat(g2, Soonest({q[1] : q \in g2.queue}))
  BY Zenon DEF Beat
<1>2. ASSUME NEW a, IsGroup(a), NEW q
      PROVE  AllSame(a, [a EXCEPT !.queue = q]) /\ AllSame(a, [a EXCEPT !.beat = q])
  <2>1. AllSame(a, [a EXCEPT !.queue = q])
    BY <1>2, SetQueue, KeepsIsAllSame, Zenon DEF HoldsTimers
  <2>2. AllSame(a, [a EXCEPT !.beat = q])
    BY <1>2, SetBeat, KeepsIsAllSame, Zenon DEF HoldsTimers
  <2> QED BY <2>1, <2>2, Zenon
<1>3. AllSame(group, g0) /\ IsGroup(g0)
  <2>1. AllSame(group, g0)
    BY <1>2, Zenon
  <2> HIDE DEF g0
  <2> QED BY <2>1, Zenon DEF AllSame
<1> HIDE DEF g0
<1>4. AllSame(g0, g1) /\ IsGroup(g1)
  <2>1. AllSame(g0, Reset(g0)) /\ AllSame(g0, g0)
    BY <1>3, ResetSame, AllSameRefl, Zenon
  <2>2. AllSame(g0, g1)
    BY <2>1, Zenon
  <2> HIDE DEF g1
  <2> QED BY <2>2, Zenon DEF AllSame
<1> HIDE DEF g1
<1>5. AllSame(g1, h) /\ IsGroup(h)
  <2>1. PICK q : h = [g1 EXCEPT !.queue = q]
    BY Zenon
  <2> HIDE DEF h
  <2>2. AllSame(g1, h)
    BY <1>2, <1>4, <2>1, Zenon
  <2> QED BY <2>2, Zenon DEF AllSame
<1> HIDE DEF h, due
<1>6. AllSame(h, k) /\ IsGroup(k)
  <2>1. ASSUME NEW n \in Nodes
        PROVE  Alike(h.node[n], turn[n].node[n])
    <3>1. Same(h, LookAt(h, n), n)
      BY <1>5, LookAtSame, Zenon
    <3>2. Alike(h.node[n], h.node[n])
      BY <1>5, Zenon DEF IsGroup, Alike, Has
    <3>3. turn[n] = LookAt(h, n) \/ turn[n] = h
      BY Zenon
    <3> HIDE DEF turn
    <3> QED BY <3>1, <3>2, <3>3, Zenon DEF Same
  <2> HIDE DEF turn
  <2>2. AllSame(h, k)
    BY <1>5, <2>1, EachOfSame, Zenon
  <2> HIDE DEF k
  <2> QED BY <2>2, Zenon DEF AllSame
<1> HIDE DEF k
<1>7. AllSame(k, g2) /\ IsGroup(g2)
  <2>1. PICK q : g2 = [k EXCEPT !.queue = q]
    BY Zenon
  <2> HIDE DEF g2
  <2>2. AllSame(k, g2)
    BY <1>2, <1>6, <2>1, Zenon
  <2> QED BY <2>2, Zenon DEF AllSame
<1> HIDE DEF g2
<1>8. AllSame(group, g2)
  BY <1>3, <1>4, <1>5, <1>6, <1>7, AllSameTrans, Zenon
<1>9. \A d : AllSame(g2, ScheduleBeat(g2, d))
  BY <1>2, <1>7, Zenon DEF ScheduleBeat
<1>10. \A d : AllSame(group, ScheduleBeat(g2, d))
  BY <1>8, <1>9, AllSameTrans, Zenon
<1> QED BY <1>1, <1>3, <1>8, <1>10, Zenon

\* Group::Take, of heartbeats, leaves them too.
LEMMA FlushSame ==
  ASSUME IsGroup(group), Flush
  PROVE  AllSame(group, group')
<1> DEFINE times(n) == {r.time : r \in {s \in Elements(group.series[n]) : Taken(s)}}
<1>1. PICK f, q :
        /\ f = [n \in Nodes |-> IF times(n) = {} THEN group.node[n]
                                ELSE Keep(group.node[n], Newest(times(n)))]
        /\ group' = [[group EXCEPT !.node = f] EXCEPT !.series = q]
  BY Zenon DEF Flush, IsGroup
<1>2. ASSUME NEW n \in Nodes
      PROVE  Alike(group.node[n], f[n])
  <2>1. PICK x, t : x = group.node[n] /\ IsNode(x) /\ t = Newest(times(n))
    BY Zenon DEF IsGroup
  <2>2. f[n] = x \/ f[n] = Keep(x, t)
    BY <1>1, <2>1, Zenon
  <2>3. Alike(x, x)
    BY <2>1, Zenon DEF Alike, Has
  <2>4. Alike(x, Keep(x, t))
    BY <2>1, KeepAlike, Zenon
  <2> QED BY <2>1, <2>2, <2>3, <2>4, Zenon
<1>3. f = [m \in Nodes |-> f[m]]
  BY <1>1, Zenon
<1> DEFINE h == [group EXCEPT !.node = f]
<1>4. AllSame(group, h)
  BY <1>2, <1>3, SetNodes, Zenon
<1> HIDE DEF h
<1>5. Keeps(h, [h EXCEPT !.series = q]) /\ HoldsTimers(h, [h EXCEPT !.series = q])
  BY <1>4, SetSeries, Zenon DEF AllSame
<1>6. AllSame(h, [h EXCEPT !.series = q])
  BY <1>4, <1>5, KeepsIsAllSame, Zenon DEF AllSame, HoldsTimers
<1>7. AllSame(group, [h EXCEPT !.series = q])
  BY <1>4, <1>6, AllSameTrans, Zenon
<1> QED BY <1>1, <1>7, Zenon DEF h

-----------------------------------------------------------------------------
(* The loss of a source *)

\* Writing the thresholds, and nothing else.
LEMMA ConfigSet ==
  ASSUME NEW g, IsGroup(g), NEW n \in Nodes, NEW c
  PROVE  LET h == [g EXCEPT !.node[n].Config = c]
             x == g.node[n]
         IN /\ Touches(g, h, n) /\ h.expiries = g.expiries
            /\ Has(h.node[n], c, x.Break, x.Stored, x.Marked, x.ValueTs, x.Pending, x.Due, x.Serial)
<1> DEFINE x == g.node[n]
           y == [x EXCEPT !.Config = c]
           h == [g EXCEPT !.node[n] = y]
<1>0. [g EXCEPT !.node[n].Config = c] = h
  BY Zenon DEF IsGroup
<1>1. IsNode(x)
  BY Zenon DEF IsGroup
<1>2. Has(y, c, x.Break, x.Stored, x.Marked, x.ValueTs, x.Pending, x.Due, x.Serial)
  BY <1>1 DEF IsNode, Has
<1> HIDE DEF y
<1>3. Touches(g, h, n) /\ h.expiries = g.expiries /\ h.node[n] = y
  BY <1>2, SetNode DEF Has
<1> HIDE DEF h
<1>4. Has(h.node[n], c, x.Break, x.Stored, x.Marked, x.ValueTs, x.Pending, x.Due, x.Serial)
  BY <1>2, <1>3, Zenon
<1> QED BY <1>0, <1>3, <1>4, Zenon

\* Writing when the break began, and nothing else.
LEMMA BreakSet ==
  ASSUME NEW g, IsGroup(g), NEW n \in Nodes, NEW c
  PROVE  LET h == [g EXCEPT !.node[n].Break = c]
             x == g.node[n]
         IN /\ Touches(g, h, n) /\ h.expiries = g.expiries
            /\ Has(h.node[n], x.Config, c, x.Stored, x.Marked, x.ValueTs, x.Pending, x.Due, x.Serial)
<1> DEFINE x == g.node[n]
           y == [x EXCEPT !.Break = c]
           h == [g EXCEPT !.node[n] = y]
<1>0. [g EXCEPT !.node[n].Break = c] = h
  BY Zenon DEF IsGroup
<1>1. IsNode(x)
  BY Zenon DEF IsGroup
<1>2. Has(y, x.Config, c, x.Stored, x.Marked, x.ValueTs, x.Pending, x.Due, x.Serial)
  BY <1>1 DEF IsNode, Has
<1> HIDE DEF y
<1>3. Touches(g, h, n) /\ h.expiries = g.expiries /\ h.node[n] = y
  BY <1>2, SetNode DEF Has
<1> HIDE DEF h
<1>4. Has(h.node[n], x.Config, c, x.Stored, x.Marked, x.ValueTs, x.Pending, x.Due, x.Serial)
  BY <1>2, <1>3, Zenon
<1> QED BY <1>0, <1>3, <1>4, Zenon

\* Two steps that leave node n standing for what it did are one.
LEMMA StandsTrans ==
  ASSUME NEW g, NEW h, NEW k, NEW n \in Nodes, Stands(g, h, n), Stands(h, k, n)
  PROVE  Stands(g, k, n)
BY Zenon DEF Stands, Touches

\* A step that keeps node n alike leaves it standing for what it did.
LEMMA SameStands ==
  ASSUME NEW g, NEW h, NEW n \in Nodes, Same(g, h, n), Sane(g.node[n], g.expiries, n)
  PROVE  Stands(g, h, n)
BY SameMoves, Zenon DEF Stands

\* What Disconnected does for a node settles it, and loses nothing of it.
LEMMA BreakNodeStands ==
  ASSUME Band \in Nat, NEW g0, IsGroup(g0), NEW n \in Nodes, Sane(g0.node[n], g0.expiries, n),
         NEW at
  PROVE  Stands(g0, BreakNode(g0, n, at), n)
<1> DEFINE g == SettlePending(g0, n)
           x == g.node[n]
           broken == [g EXCEPT !.node[n].Break = at]
           k == DropBeats(broken, n, at, TRUE)
<1>1. BreakNode(g0, n, at) = IF x.Break # None THEN g
                             ELSE IF x.StoredAt < at THEN broken
                             ELSE [k EXCEPT !.node[n].StoredAt = at]
  BY Zenon DEF BreakNode
<1>2. Stands(g0, g, n)
  BY SettlePendingMoves, Zenon DEF Stands
<1>3. IsGroup(g) /\ Sane(x, g.expiries, n)
  <2> HIDE DEF g
  <2> QED BY <1>2, Zenon DEF Stands, Touches
<1> HIDE DEF g
<1>4. /\ Touches(g, broken, n) /\ broken.expiries = g.expiries
      /\ Has(broken.node[n], x.Config, at, x.Stored, x.Marked, x.ValueTs, x.Pending, x.Due, x.Serial)
  BY <1>3, BreakSet, Zenon
<1> HIDE DEF broken
<1>5. Stands(g, broken, n)
  <2>1. Sane(broken.node[n], g.expiries, n)
    BY <1>3, <1>4, Zenon DEF Sane, NodeOK, Timed, Numbered, Has
  <2>2. \A d : Current(x, d) => Current(broken.node[n], d)
    BY <1>4, Zenon DEF Current, Has
  <2> QED BY <1>4, <2>1, <2>2, Zenon DEF Stands
<1>6. IsGroup(broken) /\ Sane(broken.node[n], broken.expiries, n)
  BY <1>5, Zenon DEF Stands, Touches
<1>7. Same(broken, k, n)
  BY <1>6, DropBeatsSame, Zenon
<1> HIDE DEF k
<1>8. Same(broken, [k EXCEPT !.node[n].StoredAt = at], n)
  <2>1. Same(k, [k EXCEPT !.node[n].StoredAt = at], n)
    BY <1>7, SameGroup, StoredAtSame, Zenon
  <2> QED BY <1>7, <2>1, SameTrans, Zenon
<1>9. Stands(broken, [k EXCEPT !.node[n].StoredAt = at], n)
  BY <1>6, <1>8, SameStands, Zenon
<1>10. Stands(g0, broken, n)
  BY <1>2, <1>5, StandsTrans, Zenon
<1>11. Stands(g0, [k EXCEPT !.node[n].StoredAt = at], n)
  BY <1>9, <1>10, StandsTrans, Zenon
<1> QED BY <1>1, <1>2, <1>10, <1>11, Zenon

\* The group is as the invariant has it, d what each node delivered.
GroupOK(g, d) ==
  /\ IsGroup(g)
  /\ \A e \in g.expiries : e.node \in Nodes
  /\ \A n \in Nodes : Sane(g.node[n], g.expiries, n) /\ Current(g.node[n], d[n])

\* A step that keeps all nodes alike keeps the group in order.
LEMMA AllSameOK ==
  ASSUME NEW g, NEW h, NEW d, GroupOK(g, d), AllSame(g, h)
  PROVE  GroupOK(h, d)
<1>1. \A n \in Nodes : Sane(h.node[n], g.expiries, n) /\ Current(h.node[n], d[n])
  BY AlikeSane, Zenon DEF GroupOK, AllSame
<1> QED BY <1>1, Zenon DEF GroupOK, AllSame

\* A step on node n that leaves it standing for its new value keeps the group in
\* order.
LEMMA MovesOK ==
  ASSUME NEW g, NEW h, NEW n \in Nodes, NEW d, NEW c, GroupOK(g, d), Moves(g, h, n),
         \A m \in Nodes \ {n} : c[m] = d[m], Current(h.node[n], c[n])
  PROVE  GroupOK(h, c)
<1>1. IsGroup(h)
  BY Zenon DEF Moves, Touches
<1>2. \A e \in h.expiries : e.node \in Nodes
  BY Zenon DEF Moves, GroupOK
<1>3. ASSUME NEW m \in Nodes \ {n}
      PROVE  Sane(h.node[m], h.expiries, m) /\ Current(h.node[m], c[m])
  <2>1. h.node[m] = g.node[m] /\ Sane(g.node[m], g.expiries, m) /\ Current(g.node[m], c[m])
    BY Zenon DEF Moves, Touches, GroupOK
  <2>2. CASE h.expiries = g.expiries
    BY <2>1, <2>2, Zenon
  <2>3. ASSUME NEW e, e.node = n, h.expiries = g.expiries \cup {e}
        PROVE  Sane(h.node[m], h.expiries, m)
    BY <2>1, <2>3, OtherTimer
  <2> QED BY <2>1, <2>2, <2>3, Zenon DEF Moves
<1> QED BY <1>1, <1>2, <1>3, Zenon DEF GroupOK, Moves

\* The loss of the source (Group::Disconnected) keeps the group in order.
LEMMA DisconnectedOK ==
  ASSUME Band \in Nat, GroupOK(group, delivered), Disconnected
  PROVE  GroupOK(group', delivered)
<1> DEFINE g == [group EXCEPT !.down = broke]
           turn == [n \in Nodes |-> BreakNode(g, n, broke)]
<1>1. group' = EachOf(g, turn)
  BY Zenon DEF Disconnected
<1>2. Keeps(group, g) /\ g.expiries = group.expiries
  BY SetDown, Zenon DEF GroupOK
<1> HIDE DEF g
<1>3. IsGroup(g) /\ \A n \in Nodes : Sane(g.node[n], g.expiries, n) /\ Current(g.node[n], delivered[n])
  BY <1>2, Zenon DEF Keeps, GroupOK
<1>4. ASSUME NEW n \in Nodes
      PROVE  /\ IsNode(turn[n].node[n]) /\ Sane(turn[n].node[n], g.expiries, n)
             /\ Current(turn[n].node[n], delivered[n])
  <2> DEFINE h == BreakNode(g, n, broke)
  <2>0. turn[n] = h
    BY Zenon
  <2>1. Stands(g, h, n)
    BY <1>3, BreakNodeStands, Zenon
  <2> HIDE DEF h, turn
  <2>2. IsNode(h.node[n])
    BY <2>1, Zenon DEF Stands, Touches, IsGroup
  <2>3. Sane(h.node[n], g.expiries, n) /\ Current(h.node[n], delivered[n])
    BY <1>3, <2>1, Zenon DEF Stands
  <2> QED BY <2>0, <2>2, <2>3, Zenon
<1> HIDE DEF turn
<1>5. /\ IsGroup(EachOf(g, turn)) /\ EachOf(g, turn).expiries = g.expiries
      /\ \A n \in Nodes : EachOf(g, turn).node[n] = turn[n].node[n]
  <2>1. \A n \in Nodes : IsNode(turn[n].node[n])
    BY <1>4, Zenon
  <2> QED BY <1>3, <2>1, EachOfIs
<1>6. \A e \in g.expiries : e.node \in Nodes
  BY <1>2, Zenon DEF GroupOK
<1>7. PICK h : h = EachOf(g, turn)
  BY Zenon
<1>8. ASSUME NEW n \in Nodes
      PROVE  Sane(h.node[n], h.expiries, n) /\ Current(h.node[n], delivered[n])
  <2>1. h.node[n] = turn[n].node[n] /\ h.expiries = g.expiries
    BY <1>5, <1>7, Zenon
  <2> QED BY <1>4, <2>1, Zenon
<1>9. GroupOK(h, delivered)
  BY <1>5, <1>6, <1>7, <1>8, Zenon DEF GroupOK
<1> QED BY <1>1, <1>7, <1>9, Zenon

-----------------------------------------------------------------------------
(* New thresholds, and timers *)

\* What a source's message is.
Msg == [ts : Int, val : Values, sent : Int, stamped : BOOLEAN]

\* New thresholds do: a pending value is settled, or waits on under a new timer.
LEMMA ThresholdsOK ==
  ASSUME Band \in Nat, steady \in Nat, back \in Nat,
         NEW n \in Nodes, NEW c, c.min \in Nat, GroupOK(group, delivered), SetThresholds(n, c)
  PROVE  GroupOK(group', delivered)
<1> DEFINE x == group.node[n]
           g == [group EXCEPT !.node[n].Config = c]
           y == g.node[n]
           due == x.Due + c.min - x.Config.min
           moved == IF x.Pending = NoPending \/ c.min = x.Config.min THEN g
                    ELSE IF due <= now THEN Settle(g, n) ELSE ExpireAt(g, n, due)
<1>1. group' = Arm(moved, n)
  BY Zenon DEF SetThresholds
<1>2. IsGroup(group) /\ Sane(x, group.expiries, n) /\ Current(x, delivered[n])
  BY Zenon DEF GroupOK
<1>3. /\ Touches(group, g, n) /\ g.expiries = group.expiries
      /\ Has(y, c, x.Break, x.Stored, x.Marked, x.ValueTs, x.Pending, x.Due, x.Serial)
  BY <1>2, ConfigSet, Zenon
<1> HIDE DEF g
<1>4. IsGroup(g)
  BY <1>3, Zenon DEF Touches
<1>5. NodeOK(y) /\ Numbered(y, g.expiries, n) /\ Current(y, delivered[n])
  <2>1. NodeOK(y)
    BY <1>2, <1>3, Zenon DEF Sane, NodeOK, Has
  <2>2. Numbered(y, g.expiries, n)
    BY <1>2, <1>3, Zenon DEF Sane, Timed, Numbered, Has
  <2>3. Current(y, delivered[n])
    BY <1>2, <1>3, Zenon DEF Current, Has
  <2> QED BY <2>1, <2>2, <2>3, Zenon
<1>6. Moves(group, moved, n) /\ Current(moved.node[n], delivered[n])
  <2>1. CASE x.Pending = NoPending \/ c.min = x.Config.min
    <3>1. moved = g
      BY <2>1, Zenon
    <3>2. Timed(y, g.expiries, n)
      BY <1>2, <1>3, <1>5, <2>1, Zenon DEF Sane, Timed, Has
    <3>3. Sane(y, g.expiries, n)
      BY <1>5, <3>2, Zenon DEF Sane
    <3> QED BY <1>3, <1>5, <3>1, <3>3, Zenon DEF Moves
  <2>2. CASE ~(x.Pending = NoPending \/ c.min = x.Config.min) /\ due <= now
    <3> DEFINE h == Settle(g, n)
    <3>1. moved = h
      BY <2>2, Zenon
    <3>2. Touches(g, h, n) /\ h.expiries = g.expiries /\ IsSettled(y, h.node[n])
      BY <1>4, SettleIs, Zenon
    <3> HIDE DEF h, moved
    <3>3. Sane(h.node[n], g.expiries, n) /\ (Current(y, delivered[n]) => Current(h.node[n], delivered[n]))
      <4>1. y.Pending # NoPending
        BY <1>3, <2>2, Zenon DEF Has
      <4> QED BY <1>5, <3>2, <4>1, SettledSane, Zenon
    <3>4. Moves(group, h, n)
      BY <1>3, <3>2, <3>3, Zenon DEF Moves, Touches
    <3> QED BY <1>5, <3>1, <3>3, <3>4, Zenon
  <2>3. CASE ~(x.Pending = NoPending \/ c.min = x.Config.min) /\ ~(due <= now)
    <3>0. PICK d \in Int : d = due /\ now <= d /\ d <= steady + y.Config.min
      <4>1. /\ x.Due \in Int /\ x.Config.min \in Int /\ x.Due <= steady + x.Config.min
            /\ y.Config.min = c.min
        <5>1. x.Due \in Int /\ x.Config.min \in Int
          BY <1>2 DEF Sane, NodeOK
        <5>2. x.Pending # NoPending /\ x.Due <= steady + x.Config.min
          BY <1>2, <2>3, Zenon DEF Sane, Timed
        <5>3. y.Config.min = c.min
          BY <1>3, Zenon DEF Has
        <5> QED BY <5>1, <5>2, <5>3, Zenon
      <4> QED BY <2>3, <4>1 DEF now
    <3> DEFINE h == ExpireAt(g, n, d)
               z == h.node[n]
    <3>1. moved = h
      BY <2>3, <3>0, Zenon
    <3>2. /\ Touches(g, h, n)
          /\ \E e : IsExpiry(e, n, y.Serial + 1, d) /\ h.expiries = g.expiries \cup {e}
          /\ Has(z, y.Config, y.Break, y.Stored, y.Marked, y.ValueTs, y.Pending, d, y.Serial + 1)
      BY <1>4, ExpireAtIs, Zenon
    <3> HIDE DEF h, moved, due
    <3>3. PICK e : IsExpiry(e, n, y.Serial + 1, d) /\ h.expiries = g.expiries \cup {e}
      BY <3>2, Zenon
    <3>4. Sane(z, g.expiries \cup {e}, n) /\ (Current(y, delivered[n]) => Current(z, delivered[n]))
      BY <1>5, <3>0, <3>2, <3>3, ExpirySane, Zenon
    <3>5. Touches(group, h, n)
      BY <1>3, <3>2, Zenon DEF Touches
    <3>6. e.node = n /\ h.expiries = group.expiries \cup {e} /\ Sane(z, h.expiries, n)
      BY <1>3, <3>3, <3>4, Zenon DEF IsExpiry
    <3>7. Moves(group, h, n)
      BY <3>5, <3>6, Zenon DEF Moves
    <3> QED BY <1>5, <3>1, <3>4, <3>7, Zenon
  <2> HIDE DEF moved, due
  <2> QED BY <2>1, <2>2, <2>3, Zenon
<1> HIDE DEF moved
<1>7. GroupOK(moved, delivered)
  BY <1>6, MovesOK, Zenon
<1>8. IsGroup(moved)
  BY <1>7, Zenon DEF GroupOK
<1>9. AllSame(moved, Arm(moved, n))
  BY <1>8, ArmSame, SameIsAllSame, Zenon
<1> QED BY <1>1, <1>7, <1>9, AllSameOK, Zenon

\* A timer does: the one of what is pending settles it, an older one does nothing.
LEMMA ExpireOK ==
  ASSUME Band \in Nat, NEW e, GroupOK(group, delivered), Expire(e)
  PROVE  GroupOK(group', delivered)
<1> DEFINE E == group.expiries
           g == [group EXCEPT !.expiries = @ \ {e}]
           n == e.node
           x == g.node[n]
           own == x.Pending # NoPending /\ x.Serial = e.serial
<1>1. e \in E /\ n \in Nodes /\ group' = IF own THEN Settle(g, n) ELSE g
  BY Zenon DEF Expire, GroupOK
<1>2. Keeps(group, g) /\ g.expiries = E \ {e}
  <2>1. PICK q : q = E \ {e}
    BY Zenon
  <2>2. Keeps(group, [group EXCEPT !.expiries = q]) /\ [group EXCEPT !.expiries = q].expiries = q
    BY SetExpiries, Zenon DEF GroupOK
  <2> QED BY <2>1, <2>2, Zenon
<1> HIDE DEF g
<1>3. \A m \in Nodes : Sane(g.node[m], E, m) /\ Current(g.node[m], delivered[m])
  BY <1>2, Zenon DEF Keeps, GroupOK
<1>4. IsGroup(g) /\ \A f \in E \ {e} : f.node \in Nodes
  BY <1>2, Zenon DEF Keeps, GroupOK
<1>5. \A m \in Nodes \ {n} : Sane(g.node[m], E \ {e}, m)
  BY <1>3, TimerGone, Zenon
<1>6. CASE ~own
  <2>1. Sane(x, E \ {e}, n)
    BY <1>1, <1>3, <1>6, TimerGone, Zenon
  <2> QED BY <1>1, <1>2, <1>3, <1>4, <1>5, <1>6, <2>1, Zenon DEF GroupOK
<1>7. CASE own
  <2> DEFINE h == Settle(g, n)
  <2>1. Touches(g, h, n) /\ h.expiries = g.expiries /\ IsSettled(x, h.node[n])
    BY <1>1, <1>4, SettleIs, Zenon
  <2>2. group' = h
    BY <1>1, <1>7, Zenon
  <2> HIDE DEF h
  <2>3. /\ Sane(h.node[n], E, n) /\ h.node[n].Pending = NoPending
        /\ Current(x, delivered[n]) => Current(h.node[n], delivered[n])
    <3>1. NodeOK(x) /\ Numbered(x, E, n)
      BY <1>1, <1>3, Zenon DEF Sane, Timed
    <3> QED BY <1>7, <2>1, <3>1, SettledSane, Zenon
  <2>4. Sane(h.node[n], E \ {e}, n)
    BY <2>3, TimerGone, Zenon
  <2>5. \A m \in Nodes \ {n} : h.node[m] = g.node[m]
    BY <2>1, Zenon DEF Touches
  <2>6. IsGroup(h)
    BY <2>1, Zenon DEF Touches
  <2>7. \A m \in Nodes : Sane(h.node[m], E \ {e}, m) /\ Current(h.node[m], delivered[m])
    BY <1>1, <1>3, <1>5, <2>3, <2>4, <2>5, Zenon
  <2> QED BY <1>2, <1>4, <2>1, <2>2, <2>6, <2>7, Zenon DEF GroupOK
<1> QED BY <1>6, <1>7, Zenon

-----------------------------------------------------------------------------
(* The invariant *)

\* What the constants are.
Sized ==
  /\ Values \subseteq Nat /\ Band \in Nat
  /\ \A c \in Firsts \cup Configs : c.min \in Nat
  /\ Stamps \subseteq BOOLEAN
  /\ MaxBack \in Nat /\ MaxChanges \in Nat

Clocks == steady \in Nat /\ back \in 0 .. MaxBack

\* What the sources sent, and what is on its way.
Sources ==
  /\ changes \in [Nodes -> Seq([ts : Int, val : Values]) \ {<<>>}]
  /\ channel \in [Nodes -> Seq(Msg)]
  /\ delivered = [n \in Nodes |-> delivered[n]]

IInv == Clocks /\ Sources /\ GroupOK(group, delivered)

\* The invariant holds of a group just opened.
LEMMA InitOK ==
  ASSUME Sized, Init
  PROVE  IInv
<1>1. Clocks
  BY DEF Init, Clocks, Sized
<1>2. Sources
  <2>1. PICK v \in Values, b \in Stamps :
          /\ changes = [n \in Nodes |-> <<[ts |-> 0, val |-> v]>>]
          /\ channel = [n \in Nodes |-> <<[ts |-> 0, val |-> v, sent |-> 0, stamped |-> b]>>]
    BY Zenon DEF Init
  <2>2. [ts |-> 0, val |-> v] \in [ts : Int, val : Values]
    OBVIOUS
  <2>3. [ts |-> 0, val |-> v, sent |-> 0, stamped |-> b] \in Msg
    BY DEF Msg, Sized
  <2>4. <<[ts |-> 0, val |-> v]>> \in Seq([ts : Int, val : Values]) \ {<<>>}
    BY <2>2
  <2>5. <<[ts |-> 0, val |-> v, sent |-> 0, stamped |-> b]>> \in Seq(Msg)
    BY <2>3
  <2>6. changes \in [Nodes -> Seq([ts : Int, val : Values]) \ {<<>>}]
    BY <2>1, <2>4, Zenon
  <2>7. channel \in [Nodes -> Seq(Msg)]
    BY <2>1, <2>5, Zenon
  <2>8. delivered = [n \in Nodes |-> delivered[n]]
    BY Zenon DEF Init
  <2> QED BY <2>6, <2>7, <2>8, Zenon DEF Sources
<1>3. GroupOK(group, delivered)
  <2>1. PICK config \in [Nodes -> Firsts] :
          group = [node |-> [n \in Nodes |-> NewNode(config[n])], down |-> None,
                   series |-> [n \in Nodes |-> <<>>],
                   queue |-> {}, beat |-> NoBeat, expiries |-> {}]
    BY Zenon DEF Init
  <2>2. /\ group = [node |-> group.node, down |-> group.down, series |-> group.series,
                    queue |-> group.queue, beat |-> group.beat, expiries |-> group.expiries]
        /\ group.expiries = {} /\ group.node = [n \in Nodes |-> NewNode(config[n])]
    BY <2>1, Zenon
  <2>3. ASSUME NEW c
        PROVE  Has(NewNode(c), c, None, None, FALSE, None, NoPending, None, 0)
    BY Zenon DEF NewNode, Has, IsNode
  <2>4. ASSUME NEW n \in Nodes
        PROVE  /\ Has(group.node[n], config[n], None, None, FALSE, None, NoPending, None, 0)
               /\ config[n] \in Firsts
    BY <2>2, <2>3, Zenon
  <2>5. IsGroup(group)
    BY <2>2, <2>4, Zenon DEF IsGroup, Has
  <2>6. ASSUME NEW n \in Nodes
        PROVE  Sane(group.node[n], {}, n) /\ Current(group.node[n], delivered[n])
    <3>1. NodeOK(group.node[n])
      <4>1. config[n].min \in Nat
        BY <2>4, Zenon DEF Sized
      <4>2. NoPending.val = -1 /\ NoPending.time = -1 /\ None = -1
        BY Zenon DEF NoPending, None
      <4>3. PICK y : y = group.node[n]
        BY Zenon
      <4>4. /\ y.Config.min \in Nat /\ y.Serial = 0 /\ y.Stored = -1 /\ y.ValueTs = -1 /\ y.Due = -1
            /\ y.Pending.val = -1 /\ y.Pending.time = -1 /\ y.Marked = FALSE
        BY <2>4, <4>1, <4>2, <4>3, Zenon DEF Has
      <4>5. NodeOK(y)
        BY <4>4 DEF NodeOK
      <4> QED BY <4>3, <4>5, Zenon
    <3>2. Timed(group.node[n], {}, n)
      BY <2>4, Zenon DEF Timed, Numbered, Has
    <3>3. Current(group.node[n], delivered[n])
      BY <2>4, Zenon DEF Current, Has
    <3> QED BY <3>1, <3>2, <3>3, Zenon DEF Sane
  <2> QED BY <2>2, <2>5, <2>6, Zenon DEF GroupOK
<1> QED BY <1>1, <1>2, <1>3, Zenon DEF IInv

\* A step of the group's at one moment.
LEMMA AtOnce ==
  ASSUME UNCHANGED <<steady, back>>, GroupOK(group', delivered')
  PROVE  GroupOK(group, delivered)'
<1>1. ASSUME NEW n \in Nodes
      PROVE  Sane(group.node[n], group.expiries, n)'
  BY Zenon DEF GroupOK, Sane, Timed
<1>2. ASSUME NEW n \in Nodes
      PROVE  Current(group.node[n], delivered[n])'
  BY Zenon DEF GroupOK
<1>3. IsGroup(group)' /\ (\A e \in group.expiries : e.node \in Nodes)'
  BY Zenon DEF GroupOK
<1> QED BY <1>1, <1>2, <1>3, Zenon DEF GroupOK

\* Delivering a source's value keeps it: the value is now the node's.
LEMMA EnqueueOK ==
  ASSUME Sized, IInv, NEW n \in Nodes, Enqueue(n)
  PROVE  IInv'
<1> DEFINE m == Head(channel[n])
<1>1. /\ channel[n] # <<>> /\ group' = Collected(group, n, m)
      /\ delivered' = [delivered EXCEPT ![n] = m.val]
      /\ channel' = [channel EXCEPT ![n] = Tail(@)]
      /\ UNCHANGED <<steady, back, changes>>
  BY Zenon DEF Enqueue
<1>2. channel[n] \in Seq(Msg) /\ steady \in Nat /\ back \in Nat
  BY DEF IInv, Sources, Clocks, Sized
<1>3. m \in Msg /\ Tail(channel[n]) \in Seq(Msg)
  BY <1>1, <1>2
<1> HIDE DEF m
<1>4. m.ts \in Int /\ m.val \in Nat
  BY <1>3, Zenon DEF Msg, Sized
<1>5. IsGroup(group) /\ Sane(group.node[n], group.expiries, n)
  BY Zenon DEF IInv, GroupOK
<1>6. Moves(group, group', n) /\ Current(group'.node[n], m.val)
  BY <1>1, <1>2, <1>4, <1>5, CollectedMoves, Zenon DEF Sized
<1>7. delivered'[n] = m.val /\ \A k \in Nodes \ {n} : delivered'[k] = delivered[k]
  BY <1>1, Zenon DEF IInv, Sources
<1>8. GroupOK(group, delivered)'
  <2>1. GroupOK(group', delivered')
    BY <1>6, <1>7, MovesOK, Zenon DEF IInv
  <2> QED BY <1>1, <2>1, AtOnce, Zenon
<1>9. Sources'
  <2>1. channel' \in [Nodes -> Seq(Msg)]
    BY <1>1, <1>3, Zenon DEF IInv, Sources
  <2>2. delivered' = [k \in Nodes |-> delivered'[k]]
    BY <1>1, Zenon DEF IInv, Sources
  <2> QED BY <1>1, <2>1, <2>2, Zenon DEF IInv, Sources
<1>10. Clocks'
  BY <1>1, Zenon DEF IInv, Clocks
<1> QED BY <1>8, <1>9, <1>10, Zenon DEF IInv

\* The sane timers stay sane as the clocks go on.
LEMMA ClockOK ==
  ASSUME Sized, IInv, UNCHANGED <<group, delivered>>,
         \/ steady' = steady + 1 /\ back' = back
         \/ steady' = steady /\ back' = back + 1
  PROVE  GroupOK(group, delivered)'
<1>1. ASSUME NEW n \in Nodes
      PROVE  Sane(group.node[n], group.expiries, n)'
  <2>1. PICK x, E : x = group.node[n] /\ E = group.expiries
    BY Zenon
  <2>2. x.Config.min \in Nat /\ x.Due \in Int /\ NodeOK(x) /\ Timed(x, E, n)
        /\ steady \in Int /\ back \in Int
    <3>1. NodeOK(x) /\ Timed(x, E, n)
      BY <2>1, Zenon DEF IInv, GroupOK, Sane
    <3>2. x.Config.min \in Nat /\ x.Due \in Int
      BY <3>1, Zenon DEF NodeOK
    <3>3. steady \in Int /\ back \in Int
      BY DEF IInv, Clocks, Sized
    <3> QED BY <3>1, <3>2, <3>3, Zenon
  <2>3. Timed(x, E, n)'
    BY <2>2 DEF Timed, Numbered
  <2>4. NodeOK(x)'
    BY <2>2, Zenon DEF NodeOK
  <2> QED BY <2>1, <2>3, <2>4, Zenon DEF Sane
<1>2. ASSUME NEW n \in Nodes
      PROVE  Current(group.node[n], delivered[n])'
  BY Zenon DEF IInv, GroupOK, Current, Near, Distance
<1>3. IsGroup(group)' /\ (\A e \in group.expiries : e.node \in Nodes)'
  BY Zenon DEF IInv, GroupOK, IsGroup, IsNode
<1> QED BY <1>1, <1>2, <1>3, Zenon DEF GroupOK

-----------------------------------------------------------------------------
(* The steps, and the theorems *)

\* The last element of a sequence.
LEMMA LastIn ==
  ASSUME NEW S, NEW q \in Seq(S), q # <<>>
  PROVE  q[Len(q)] \in S
<1>1. Len(q) \in Nat /\ Len(q) # 0
  OBVIOUS
<1> QED BY <1>1

\* The sources' steps and the connection's.
LEMMA SourcesOK ==
  ASSUME Sized, IInv, UNCHANGED <<steady, back, delivered>>
  PROVE  /\ Connected => Sources'
         /\ \A n \in Nodes, v \in Values, b \in Stamps, ts \in 0 .. now :
              Change(n, v, ts, b) => Sources'
         /\ Break => Sources'
<1>0. Sources /\ steady \in Int /\ back \in Int
  BY DEF IInv, Clocks, Sized
<1>1. ASSUME Connected
      PROVE  Sources'
  <2>1. PICK b \in Stamps :
          channel' = [n \in Nodes |->
            LET c == changes[n][Len(changes[n])]
            IN <<[ts |-> c.ts, val |-> c.val, sent |-> steady, stamped |-> b]>>]
    BY <1>1, Zenon DEF Connected
  <2>2. ASSUME NEW n \in Nodes
        PROVE  <<[ts |-> changes[n][Len(changes[n])].ts, val |-> changes[n][Len(changes[n])].val,
                  sent |-> steady, stamped |-> b]>> \in Seq(Msg)
    <3>1. PICK q \in Seq([ts : Int, val : Values]) : q = changes[n] /\ q # <<>>
      BY <1>0, Zenon DEF Sources
    <3>2. PICK c \in [ts : Int, val : Values] : c = q[Len(q)]
      <4>1. q[Len(q)] \in [ts : Int, val : Values]
        BY <3>1, LastIn, Zenon
      <4> QED BY <4>1, Zenon
    <3>3. PICK m \in Msg : m = [ts |-> c.ts, val |-> c.val, sent |-> steady, stamped |-> b]
      <4>1. [ts |-> c.ts, val |-> c.val, sent |-> steady, stamped |-> b] \in Msg
        BY <1>0, Zenon DEF Msg, Sized
      <4> QED BY <4>1, Zenon
    <3>4. <<m>> \in Seq(Msg)
      BY <3>3
    <3>5. c = changes[n][Len(changes[n])]
      BY <3>1, <3>2, Zenon
    <3> QED BY <3>3, <3>4, <3>5, Zenon
  <2>3. channel' \in [Nodes -> Seq(Msg)]
    BY <2>1, <2>2, Zenon
  <2> QED BY <1>0, <1>1, <2>3, Zenon DEF Sources, Connected
<1>2. ASSUME NEW n \in Nodes, NEW v \in Values, NEW b \in Stamps, NEW ts \in 0 .. now,
             Change(n, v, ts, b)
      PROVE  Sources'
  <2>1. [ts |-> ts, val |-> v] \in [ts : Int, val : Values]
    BY <1>0 DEF now
  <2>2. [ts |-> ts, val |-> v, sent |-> steady, stamped |-> b] \in Msg
    BY <1>0 DEF Msg, Sized, now
  <2>3. PICK q, c, m : /\ q = changes[n] /\ q \in Seq([ts : Int, val : Values])
                       /\ c = [ts |-> ts, val |-> v]
                       /\ m = [ts |-> ts, val |-> v, sent |-> steady, stamped |-> b]
    BY <1>0, Zenon DEF Sources
  <2>4. Append(q, c) \in Seq([ts : Int, val : Values]) \ {<<>>}
    BY <2>1, <2>3
  <2>5. changes' \in [Nodes -> Seq([ts : Int, val : Values]) \ {<<>>}]
    BY <1>0, <1>2, <2>3, <2>4, Zenon DEF Change, Sources
  <2>6. Append(channel[n], m) \in Seq(Msg)
    BY <1>0, <2>2, <2>3 DEF Sources
  <2>7. channel' \in [Nodes -> Seq(Msg)]
    BY <1>0, <1>2, <2>3, <2>6, Zenon DEF Change, Sources
  <2> QED BY <1>0, <2>5, <2>7, Zenon DEF Sources
<1>3. ASSUME Break
      PROVE  Sources'
  <2>1. PICK left \in [Nodes -> 0 .. MaxChanges] :
          /\ \A n \in Nodes : left[n] <= Len(channel[n])
          /\ channel' = [n \in Nodes |-> SubSeq(channel[n], 1, left[n])]
    BY <1>3, Zenon DEF Break
  <2>2. ASSUME NEW n \in Nodes
        PROVE  SubSeq(channel[n], 1, left[n]) \in Seq(Msg)
    <3>1. PICK q \in Seq(Msg), k \in Nat : q = channel[n] /\ k = left[n] /\ k <= Len(q)
      BY <1>0, <2>1 DEF Sources, Sized
    <3> QED BY <3>1
  <2>3. channel' \in [Nodes -> Seq(Msg)]
    BY <2>1, <2>2, Zenon
  <2> QED BY <1>0, <1>3, <2>3, Zenon DEF Sources, Break
<1> QED BY <1>1, <1>2, <1>3, Zenon

\* Noting the state of the source keeps the group in order.
LEMMA DownOK ==
  ASSUME IInv, UNCHANGED <<steady, back, delivered>>, NEW q, group' = [group EXCEPT !.down = q]
  PROVE  GroupOK(group, delivered)'
<1>1. Keeps(group, group') /\ group'.expiries = group.expiries
  BY SetDown, Zenon DEF IInv, GroupOK
<1>2. AllSame(group, group')
  BY <1>1, KeepsIsAllSame, Zenon DEF IInv, GroupOK
<1>3. GroupOK(group', delivered')
  BY <1>2, AllSameOK, Zenon DEF IInv
<1> QED BY <1>3, AtOnce, Zenon

\* Every step keeps the invariant.
LEMMA StepOK ==
  ASSUME Sized, IInv, [Next]_vars
  PROVE  IInv'
<1>b. Band \in Nat /\ steady \in Nat /\ back \in Nat /\ IsGroup(group)
  BY DEF IInv, Sized, Clocks, GroupOK
<1>1. ASSUME NEW n \in Nodes, Enqueue(n)
      PROVE  IInv'
  BY <1>1, EnqueueOK, Zenon
<1>s. ASSUME UNCHANGED <<steady, back, source, delivered>>, GroupOK(group', delivered)
      PROVE  IInv'
  <2>1. GroupOK(group, delivered)'
    BY <1>s, AtOnce, Zenon
  <2>2. Clocks' /\ Sources'
    BY <1>s, Zenon DEF IInv, Clocks, Sources, source
  <2> QED BY <2>1, <2>2, Zenon DEF IInv
<1>2. ASSUME NEW e, Expire(e)
      PROVE  IInv'
  BY <1>2, <1>b, <1>s, ExpireOK, Zenon DEF Expire, IInv
<1>3. ASSUME Beat
      PROVE  IInv'
  <2>1. GroupOK(group', delivered)
    BY <1>3, <1>b, BeatSameNodes, AllSameOK, Zenon DEF IInv
  <2> QED BY <1>3, <1>s, <2>1, Zenon DEF Beat
<1>4. ASSUME Flush
      PROVE  IInv'
  <2>1. GroupOK(group', delivered)
    BY <1>4, <1>b, FlushSame, AllSameOK, Zenon DEF IInv
  <2> QED BY <1>4, <1>s, <2>1, Zenon DEF Flush
<1>5. ASSUME NEW n \in Nodes, NEW c \in Configs, SetThresholds(n, c)
      PROVE  IInv'
  <2>1. c.min \in Nat
    BY Zenon DEF Sized
  <2>2. GroupOK(group', delivered)
    BY <1>5, <1>b, <2>1, ThresholdsOK, Zenon DEF IInv
  <2> QED BY <1>5, <1>s, <2>2, Zenon DEF SetThresholds
<1>6. ASSUME Disconnected
      PROVE  IInv'
  BY <1>6, <1>b, <1>s, DisconnectedOK, Zenon DEF Disconnected, IInv
<1>7. ASSUME Connected
      PROVE  IInv'
  <2>1. GroupOK(group, delivered)'
    BY <1>7, DownOK, Zenon DEF Connected
  <2>2. Sources'
    BY <1>7, SourcesOK, Zenon DEF Connected
  <2> QED BY <1>7, <2>1, <2>2, Zenon DEF Connected, Clocks, IInv
<1>8. ASSUME NEW n \in Nodes, NEW v \in Values, NEW b \in Stamps, NEW ts \in 0 .. now,
             Change(n, v, ts, b)
      PROVE  IInv'
  <2>1. Sources' /\ UNCHANGED <<steady, back, group, delivered>>
    BY <1>8, SourcesOK, Zenon DEF Change
  <2>2. GroupOK(group, delivered)'
    BY <2>1, AtOnce, Zenon DEF IInv
  <2> QED BY <2>1, <2>2, Zenon DEF Clocks, IInv
<1>9. ASSUME Break
      PROVE  IInv'
  <2>1. Sources' /\ UNCHANGED <<steady, back, group, delivered>>
    BY <1>9, SourcesOK, Zenon DEF Break
  <2>2. GroupOK(group, delivered)'
    BY <2>1, AtOnce, Zenon DEF IInv
  <2> QED BY <2>1, <2>2, Zenon DEF Clocks, IInv
<1>10. ASSUME Tick
       PROVE  IInv'
  <2>a. steady' = steady + 1 /\ back' = back /\ UNCHANGED <<group, delivered>>
    BY <1>10, Zenon DEF Tick
  <2>1. GroupOK(group, delivered)'
    BY <2>a, ClockOK, Zenon
  <2>2. Clocks'
    BY <2>a DEF Clocks, IInv
  <2>3. Sources'
    BY <1>10, Zenon DEF Tick, Sources, source, IInv
  <2> QED BY <2>1, <2>2, <2>3, Zenon DEF IInv
<1>11. ASSUME SetBack
       PROVE  IInv'
  <2>a. back < MaxBack /\ steady' = steady /\ back' = back + 1 /\ UNCHANGED <<group, delivered>>
    BY <1>11, Zenon DEF SetBack
  <2>1. GroupOK(group, delivered)'
    BY <2>a, ClockOK, Zenon
  <2>2. Clocks'
    BY <2>a DEF Clocks, Sized, IInv
  <2>3. Sources'
    BY <1>11, Zenon DEF SetBack, Sources, source, IInv
  <2> QED BY <2>1, <2>2, <2>3, Zenon DEF IInv
<1>12. CASE UNCHANGED vars
  <2>1. UNCHANGED <<steady, back, source, group, delivered>>
    BY <1>12, Zenon DEF vars, source
  <2> QED BY <1>s, <2>1, Zenon DEF IInv
<1> QED
  BY <1>1, <1>2, <1>3, <1>4, <1>5, <1>6, <1>7, <1>8, <1>9, <1>10, <1>11, <1>12, Zenon DEF Next

\* The inductive invariant holds in every state of every behaviour.
THEOREM Invariant ==
  ASSUME Sized
  PROVE  Spec => []IInv
<1>1. Init => IInv
  BY InitOK, Zenon
<1>2. IInv /\ [Next]_vars => IInv'
  BY StepOK, Zenon
<1> QED BY <1>1, <1>2, PTL DEF Spec

\* What a node stores stands for what its source last delivered: unless a value is
\* pending, or the series says that what follows was lost, the stored value is the
\* delivered one to within the node's deadband (Group::Collect, Group::Settle,
\* Group::SetThresholds, Group::Disconnected, in any order).
THEOREM StoredStands ==
  ASSUME Sized
  PROVE  Spec => []StoredIsCurrent
<1>1. IInv => StoredIsCurrent
  BY Zenon DEF IInv, GroupOK, Current, StoredIsCurrent
<1> QED BY <1>1, Invariant, PTL

\* What is pending has one timer of its own, due within what the wall clock was
\* set back of its interval's end.
OwnTimer ==
  \A n \in Nodes :
    LET x == group.node[n]
        own == {e \in group.expiries : e.node = n /\ e.serial = x.Serial}
    IN x.Pending # NoPending =>
         /\ x.Due <= steady + x.Config.min
         /\ \E e \in group.expiries : own = {e} /\ e.at \in x.Due .. x.Due + back

\* A pending value never waits for ever nor twice: it has exactly one timer of its
\* serial, due when its interval ends or, when the wall clock was set back since,
\* later by no more than that (Group::ExpireAt).
THEOREM PendingHasAnEnd ==
  ASSUME Sized
  PROVE  Spec => []OwnTimer
<1>1. IInv => OwnTimer
  <2> SUFFICES ASSUME IInv, NEW n \in Nodes, group.node[n].Pending # NoPending
               PROVE  LET x == group.node[n]
                          own == {e \in group.expiries : e.node = n /\ e.serial = x.Serial}
                      IN /\ x.Due <= steady + x.Config.min
                         /\ \E e \in group.expiries : own = {e} /\ e.at \in x.Due .. x.Due + back
    BY Zenon DEF OwnTimer
  <2>1. PICK x, E : x = group.node[n] /\ E = group.expiries
    BY Zenon
  <2>2. NodeOK(x) /\ Timed(x, E, n) /\ x.Pending # NoPending /\ back \in Nat
    BY <2>1 DEF IInv, GroupOK, Sane, Clocks, Sized
  <2>3. PICK e \in E : e.node = n /\ e.serial = x.Serial
    BY <2>2, Zenon DEF Timed
  <2>4. {f \in E : f.node = n /\ f.serial = x.Serial} = {e}
    BY <2>2, <2>3, Zenon DEF Timed, Numbered
  <2>5. x.Due <= steady + x.Config.min
    BY <2>2, Zenon DEF Timed
  <2>6. e.at \in x.Due .. x.Due + back
    BY <2>2, <2>3 DEF Timed, NodeOK
  <2> QED BY <2>1, <2>3, <2>4, <2>5, <2>6, Zenon
<1> QED BY <1>1, Invariant, PTL

\* With a wall clock that is never set back, the timer is due exactly when the
\* interval ends, which is what the runs check.
THEOREM PendingIsTimed ==
  ASSUME Sized, MaxBack = 0
  PROVE  Spec => []PendingHasItsTimer
<1>1. IInv /\ OwnTimer => PendingHasItsTimer
  <2> SUFFICES ASSUME IInv, OwnTimer, NEW n \in Nodes, group.node[n].Pending # NoPending
               PROVE  LET x == group.node[n]
                          own == {e \in group.expiries : e.node = n /\ e.serial = x.Serial}
                      IN \E e \in group.expiries :
                           own = {e} /\ e.at = x.Due /\ x.Due <= now + x.Config.min
    BY Zenon DEF PendingHasItsTimer
  <2>1. back = 0 /\ now = steady /\ steady \in Nat
    BY DEF IInv, Clocks, now
  <2>2. group.node[n].Due \in Int
    BY Zenon DEF IInv, GroupOK, Sane, NodeOK
  <2>3. PICK e \in group.expiries :
          /\ {f \in group.expiries : f.node = n /\ f.serial = group.node[n].Serial} = {e}
          /\ e.at \in group.node[n].Due .. group.node[n].Due + back
          /\ group.node[n].Due <= steady + group.node[n].Config.min
    BY Zenon DEF OwnTimer
  <2>4. e.at = group.node[n].Due
    BY <2>1, <2>2, <2>3
  <2> QED BY <2>1, <2>3, <2>4, Zenon
<1> QED BY <1>1, Invariant, PendingHasAnEnd, PTL
=============================================================================
