-------------------------- MODULE FlushedFileProofs -------------------------
(***************************************************************************)
(* The .flushed file keeps its owner's claim through torn writes, failed   *)
(* ones and crashes, for every range of the sequence from 3 on: a start    *)
(* finds the last flush or a later one, and the two slots together are the *)
(* single claim of FlushClaim.                                             *)
(*                                                                         *)
(* The argument: the slot that memory names holds the last flush whole and *)
(* no write goes there; the other slot, when its CRC is right, is one      *)
(* behind or one ahead, and ahead only with a claim no write before it     *)
(* acknowledged.  Two sequences one apart compare right, wrapped or not.   *)
(***************************************************************************)
EXTENDS FlushedFile, TLAPS

\* The slot the next write goes to.
Other == slots[1 - slot]

\* A write reached it whole, and memory does not know of it.
Ahead == Other.valid /\ Other.sequence = Succ(sequence)

\* A slot is a whole claim or is torn.
SlotsWhole ==
  \A i \in 0 .. 1 :
    \/ slots[i] = Torn
    \/ slots[i].valid /\ slots[i].time \in Times /\ slots[i].recover \in Days

\* Memory's slot holds what memory says; with no flush, slot 1 is in no file.
MemoryHolds ==
  \/ /\ time \in Times /\ recover \in Days
     /\ slots[slot] = [valid |-> TRUE, sequence |-> sequence, time |-> time,
                       recover |-> recover]
  \/ /\ time = 0 /\ recover = 0 /\ sequence = 0 /\ slot = 1
     /\ slots[1] = Torn

\* The other slot is one behind, or one ahead and no earlier.
OtherIsNear ==
  /\ Other.valid => \/ Other.sequence = Succ(sequence)
                    \/ time # 0 /\ sequence = Succ(Other.sequence)
  /\ Ahead => Other.time >= time

\* A write that is out is into the other slot, one ahead.
WriteIsAhead ==
  \/ writing = NoWrite
  \/ /\ up /\ writing.out
     /\ writing.index = 1 - slot /\ writing.sequence = Succ(sequence)
     /\ writing.time \in Times /\ writing.recover \in Days
     /\ writing.time >= time

IInv == TypeOK /\ SlotsWhole /\ MemoryHolds /\ OtherIsNear /\ WriteIsAhead

-----------------------------------------------------------------------------
(* The sequence *)

\* The next of a sequence number is one, and is not it or the one before it.
LEMMA SuccType ==
  ASSUME NEW s \in Sequences
  PROVE  Succ(s) \in Sequences /\ Succ(s) # s /\ Succ(Succ(s)) # s
BY WrapAssumption DEF Sequences, Succ

\* Of two sequence numbers one apart, the next is the later.
LEMMA NextIsLater ==
  ASSUME NEW s \in Sequences
  PROVE  Later(Succ(s), s) /\ ~Later(s, Succ(s))
<1>1. CASE s + 1 = Wrap
  <2>1. Succ(s) = 0 /\ s = Wrap - 1 /\ s > 0
    BY <1>1, WrapAssumption DEF Succ, Sequences
  <2>2. Minus(0, s) = 1 /\ Minus(s, 0) = Wrap - 1
    BY <2>1, WrapAssumption DEF Minus, Sequences
  <2> QED BY <2>1, <2>2, WrapAssumption DEF Later
<1>2. CASE s + 1 # Wrap
  <2>1. Succ(s) = s + 1
    BY <1>2 DEF Succ
  <2>2. Minus(s + 1, s) = 1 /\ Minus(s, s + 1) = Wrap - 1
    BY WrapAssumption DEF Minus, Sequences
  <2> QED BY <2>1, <2>2, WrapAssumption DEF Later
<1> QED BY <1>1, <1>2

-----------------------------------------------------------------------------
(* What a start takes *)

\* A start takes the other slot when it is ahead, and memory's when it is not.
LEMMA TakenIs ==
  ASSUME TypeOK, SlotsWhole, MemoryHolds, OtherIsNear
  PROVE  /\ Ahead => Taken(slots) = Other /\ (Second(slots) <=> slot = 0)
         /\ ~Ahead => Taken(slots) = slots[slot]
         /\ ~Ahead /\ time # 0 => (Second(slots) <=> slot = 1)
<1> slots[0] \in Slot /\ slots[1] \in Slot /\ sequence \in Sequences /\ slot \in 0 .. 1
  BY DEF TypeOK
<1>0. slots[0].sequence \in Sequences /\ slots[1].sequence \in Sequences
  BY DEF Slot
<1>1. CASE slot = 0
  <2>1. Other = slots[1]
    BY <1>1 DEF Other
  <2>2. slots[0].valid /\ slots[0].sequence = sequence
    BY <1>1 DEF MemoryHolds
  <2>3. CASE Ahead
    <3>1. Later(slots[1].sequence, slots[0].sequence)
      BY <2>1, <2>2, <2>3, NextIsLater DEF Ahead
    <3> QED BY <1>1, <2>1, <2>3, <3>1 DEF Taken, Second, Ahead
  <2>4. CASE ~Ahead
    <3>1. slots[1].valid => slots[0].sequence = Succ(slots[1].sequence)
      BY <2>1, <2>2, <2>4 DEF OtherIsNear, Ahead
    <3>2. slots[1].valid => ~Later(slots[1].sequence, slots[0].sequence)
      BY <1>0, <3>1, NextIsLater
    <3> QED BY <1>1, <2>2, <2>4, <3>2 DEF Taken, Second
  <2> QED BY <2>3, <2>4
<1>2. CASE slot = 1
  <2>1. Other = slots[0]
    BY <1>2 DEF Other
  <2>2. CASE time = 0
    <3>1. ~slots[1].valid
      BY <2>2, TimesAssumption DEF MemoryHolds, Torn
    <3>2. ~Second(slots) /\ Taken(slots) = slots[0]
      BY <3>1 DEF Second, Taken
    <3>3. ~Ahead => slots[0] = Torn
      BY <2>1, <2>2 DEF SlotsWhole, Ahead, OtherIsNear
    <3>4. slots[1] = Torn
      BY <2>2, TimesAssumption DEF MemoryHolds
    <3> QED BY <1>2, <2>1, <2>2, <3>2, <3>3, <3>4
  <2>3. CASE time # 0
    <3>1. slots[1].valid /\ slots[1].sequence = sequence
      BY <1>2, <2>3 DEF MemoryHolds
    <3>2. CASE Ahead
      <4>1. ~Later(slots[1].sequence, slots[0].sequence) /\ slots[0].valid
        BY <2>1, <3>1, <3>2, NextIsLater DEF Ahead
      <4> QED BY <1>2, <2>1, <3>2, <4>1 DEF Taken, Second
    <3>3. CASE ~Ahead
      <4>1. slots[0].valid => slots[1].sequence = Succ(slots[0].sequence)
        BY <2>1, <3>1, <3>3 DEF OtherIsNear, Ahead
      <4>2. slots[0].valid => Later(slots[1].sequence, slots[0].sequence)
        BY <1>0, <4>1, NextIsLater
      <4> QED BY <1>2, <3>1, <3>3, <4>2 DEF Taken, Second
    <3> QED BY <3>2, <3>3
  <2> QED BY <2>2, <2>3
<1> QED BY <1>1, <1>2

-----------------------------------------------------------------------------
(* The invariant *)

\* What a write may make of its slot keeps both slots whole, memory's slot as
\* it was, and the other near.
LEMMA PartlyKeeps ==
  ASSUME TypeOK, SlotsWhole, MemoryHolds, OtherIsNear, UNCHANGED memory,
         NEW w \in Write, w.index = 1 - slot, w.sequence = Succ(sequence),
         w.time \in Times, w.recover \in Days, w.time >= time,
         Partly(w)
  PROVE  /\ slots' \in [0 .. 1 -> Slot]
         /\ SlotsWhole' /\ MemoryHolds' /\ OtherIsNear'
<1> DEFINE b == Bytes(w)
<1>1. b \in Slot /\ b.valid /\ b.sequence = Succ(sequence) /\ b.time = w.time
      /\ b.recover = w.recover
  BY DEF Bytes, Slot, Write
<1>2. Torn \in Slot /\ ~Torn.valid
  BY WrapAssumption DEF Torn, Slot, Sequences
<1>3. slot \in 0 .. 1 /\ 1 - slot \in 0 .. 1 /\ slot # 1 - slot
      /\ slots \in [0 .. 1 -> Slot]
  BY DEF TypeOK
<1> HIDE DEF b
<1>4. PICK v \in {Other, Torn, b} : slots' = [slots EXCEPT ![1 - slot] = v]
  BY <1>3 DEF Partly, Other, b
<1>5. v \in Slot
  BY <1>1, <1>2, <1>3, <1>4 DEF Other
<1>6. slots' \in [0 .. 1 -> Slot] /\ slots'[1 - slot] = v /\ slots'[slot] = slots[slot]
  BY <1>3, <1>4, <1>5
<1>7. SlotsWhole'
  <2> SUFFICES ASSUME NEW i \in 0 .. 1
               PROVE  \/ slots'[i] = Torn
                      \/ /\ slots'[i].valid /\ slots'[i].time \in Times
                         /\ slots'[i].recover \in Days
    BY DEF SlotsWhole
  <2>1. i = slot \/ i = 1 - slot
    BY <1>3
  <2>2. CASE i = slot
    BY <1>6, <2>2 DEF SlotsWhole
  <2>3. CASE i = 1 - slot
    BY <1>1, <1>3, <1>4, <1>6, <2>3 DEF SlotsWhole, Other
  <2> QED BY <2>1, <2>2, <2>3
<1>8. MemoryHolds'
  BY <1>6 DEF MemoryHolds, memory
<1>9. OtherIsNear'
  <2>1. slot' = slot /\ sequence' = sequence /\ time' = time /\ Other' = v
    BY <1>6 DEF memory, Other
  <2>2. Ahead' <=> (v.valid /\ v.sequence = Succ(sequence))
    BY <2>1 DEF Ahead
  <2> QED BY <1>1, <1>2, <1>4, <2>1, <2>2 DEF OtherIsNear, Ahead
<1> QED BY <1>6, <1>7, <1>8, <1>9

\* A start puts in memory what it takes.
LEMMA LoadKeeps ==
  ASSUME IInv, Load
  PROVE  IInv'
<1> slots' = slots /\ writing' = writing /\ up' = TRUE
  BY DEF Load
<1> slots \in [0 .. 1 -> Slot] /\ slots[0] \in Slot /\ slots[1] \in Slot
    /\ slot \in 0 .. 1 /\ sequence \in Sequences
  BY DEF IInv, TypeOK
<1>0. writing = NoWrite
  BY DEF IInv, WriteIsAhead, Load
<1>1. CASE Ahead
  <2>1. Taken(slots) = Other /\ (Second(slots) <=> slot = 0)
    BY <1>1, TakenIs DEF IInv
  <2>2. slot' = 1 - slot /\ sequence' = Succ(sequence) /\ time' = Other.time
        /\ recover' = Other.recover
    BY <1>1, <2>1 DEF Load, Ahead
  <2>3. 1 - slot \in 0 .. 1 /\ Other' = slots[slot] /\ Other \in Slot
    BY <2>2 DEF Other
  <2>4. Other.valid /\ time' \in Times /\ recover' \in Days /\ sequence' \in Sequences
    BY <1>1, <2>2, <2>3, SuccType DEF IInv, SlotsWhole, Other, Ahead, Torn
  <2>5. TypeOK' /\ SlotsWhole' /\ WriteIsAhead'
    BY <1>0, <2>2, <2>3, <2>4 DEF IInv, TypeOK, SlotsWhole, WriteIsAhead
  <2>6. MemoryHolds'
    <3>1. Other = [valid |-> TRUE, sequence |-> Other.sequence,
                   time |-> Other.time, recover |-> Other.recover]
      BY <2>3, <2>4 DEF Slot
    <3> QED BY <1>1, <2>2, <2>4, <3>1 DEF MemoryHolds, Other, Ahead
  <2>7. OtherIsNear'
    <3>1. slots[slot].valid => slots[slot].sequence = sequence
      BY DEF IInv, MemoryHolds, Torn
    <3>2. slots[slot].valid => ~Ahead'
      BY <2>2, <2>3, <3>1, SuccType DEF Ahead
    <3>3. time' # 0
      BY <2>4, TimesAssumption
    <3>4. ~slots[slot].valid => ~Ahead'
      BY <2>3 DEF Ahead
    <3> QED BY <2>2, <2>3, <3>1, <3>2, <3>3, <3>4 DEF OtherIsNear
  <2> QED BY <2>5, <2>6, <2>7 DEF IInv
<1>2. CASE ~Ahead
  <2>1. Taken(slots) = slots[slot]
    BY <1>2, TakenIs DEF IInv
  <2>2. UNCHANGED memory
    <3>1. CASE time = 0
      <4>1. ~slots[slot].valid
        BY <3>1, TimesAssumption DEF IInv, MemoryHolds, Torn
      <4> QED BY <2>1, <3>1, <4>1, TimesAssumption
              DEF Load, IInv, MemoryHolds, memory
    <3>2. CASE time # 0
      <4>1. Second(slots) <=> slot = 1
        BY <1>2, <3>2, TakenIs DEF IInv
      <4> QED BY <2>1, <3>2, <4>1 DEF Load, IInv, MemoryHolds, memory
    <3> QED BY <3>1, <3>2
  <2>3. SlotsWhole' /\ MemoryHolds' /\ OtherIsNear'
    BY <2>2 DEF IInv, SlotsWhole, MemoryHolds, OtherIsNear, Ahead, Other, memory
  <2> QED BY <1>0, <2>2, <2>3 DEF IInv, TypeOK, WriteIsAhead, memory
<1> QED BY <1>1, <1>2

\* The write that is out, once it returned, is memory's slot.
LEMMA WroteKeeps ==
  ASSUME IInv, Wrote
  PROVE  IInv'
<1> DEFINE b == Bytes(writing)
<1>1. slots \in [0 .. 1 -> Slot] /\ slot \in 0 .. 1 /\ 1 - slot \in 0 .. 1
      /\ slot # 1 - slot /\ sequence \in Sequences /\ writing \in Write
  BY DEF IInv, TypeOK
<1>2. /\ writing.index = 1 - slot /\ writing.sequence = Succ(sequence)
      /\ writing.time \in Times /\ writing.recover \in Days
  BY DEF IInv, WriteIsAhead, Wrote, NoWrite
<1>3. /\ b \in Slot /\ b.valid /\ b.time \in Times /\ b.recover \in Days
      /\ b = [valid |-> TRUE, sequence |-> writing.sequence,
              time |-> writing.time, recover |-> writing.recover]
  BY <1>1, <1>2 DEF Bytes, Slot, Write
<1>4. slots' = [slots EXCEPT ![1 - slot] = b]
  BY <1>2 DEF Wrote
<1> HIDE DEF b
<1>5. slots' \in [0 .. 1 -> Slot] /\ slots'[1 - slot] = b /\ slots'[slot] = slots[slot]
  BY <1>1, <1>3, <1>4
<1>6. /\ slot' = 1 - slot /\ sequence' = Succ(sequence) /\ up' = up
      /\ time' = writing.time /\ recover' = writing.recover /\ writing' = NoWrite
  BY <1>2 DEF Wrote
<1>7. NoWrite \in Write
  BY WrapAssumption DEF NoWrite, Write, Sequences
<1>8. TypeOK' /\ WriteIsAhead'
  BY <1>1, <1>2, <1>5, <1>6, <1>7, SuccType DEF IInv, TypeOK, WriteIsAhead
<1>9. SlotsWhole'
  <2> SUFFICES ASSUME NEW i \in 0 .. 1
               PROVE  \/ slots'[i] = Torn
                      \/ /\ slots'[i].valid /\ slots'[i].time \in Times
                         /\ slots'[i].recover \in Days
    BY DEF SlotsWhole
  <2>1. i = slot \/ i = 1 - slot
    BY <1>1
  <2>2. CASE i = slot
    BY <1>5, <2>2 DEF IInv, SlotsWhole
  <2>3. CASE i = 1 - slot
    BY <1>3, <1>5, <2>3
  <2> QED BY <2>1, <2>2, <2>3
<1>10. MemoryHolds'
  BY <1>2, <1>3, <1>5, <1>6 DEF MemoryHolds
<1>11. OtherIsNear'
  <2>1. Other' = slots[slot]
    BY <1>1, <1>5, <1>6 DEF Other
  <2>2. slots[slot].valid => slots[slot].sequence = sequence
    BY DEF IInv, MemoryHolds, Torn
  <2>3. ~Ahead'
    BY <1>1, <1>6, <2>1, <2>2, SuccType DEF Ahead
  <2>4. time' # 0
    BY <1>2, <1>6, TimesAssumption
  <2> QED BY <1>6, <2>1, <2>2, <2>3, <2>4 DEF OtherIsNear
<1> QED BY <1>8, <1>9, <1>10, <1>11 DEF IInv

\* A write that begins is one ahead, into the other slot.
LEMMA BeginKeeps ==
  ASSUME IInv, NEW t \in Times, NEW r \in Days, BeginWrite(t, r)
  PROVE  /\ IInv'
         /\ writing'.time \in Times /\ writing'.recover \in Days
         /\ writing'.time >= time /\ writing'.out
<1>1. time \in Nat /\ t \in Nat /\ slot \in 0 .. 1 /\ sequence \in Sequences
  BY TimesAssumption DEF IInv, TypeOK
<1>2. time \in Times \cup {0}
  BY DEF IInv, TypeOK
<1> DEFINE later == IF t >= time THEN t ELSE time
<1>3. later \in Times /\ later >= time
  BY <1>1, <1>2, TimesAssumption
<1>4. writing' = [out |-> TRUE, index |-> 1 - slot, sequence |-> Succ(sequence),
                  time |-> later, recover |-> r]
  BY DEF BeginWrite, NextSlot
<1> HIDE DEF later
<1>5. 1 - slot \in 0 .. 1 /\ Succ(sequence) \in Sequences
  BY <1>1, SuccType
<1>6. writing' \in Write
  BY <1>3, <1>4, <1>5 DEF Write
<1>7. /\ writing'.index = 1 - slot /\ writing'.sequence = Succ(sequence)
      /\ writing'.time \in Times /\ writing'.recover \in Days
      /\ writing'.time >= time /\ writing'.out
  BY <1>3, <1>4
<1>8. Partly(writing') /\ UNCHANGED memory /\ up /\ up'
  BY DEF BeginWrite
<1>9. slots' \in [0 .. 1 -> Slot] /\ SlotsWhole' /\ MemoryHolds' /\ OtherIsNear'
  BY <1>6, <1>7, <1>8, PartlyKeeps DEF IInv
<1>10. TypeOK'
  BY <1>6, <1>8, <1>9 DEF IInv, TypeOK, memory
<1>11. WriteIsAhead'
  BY <1>7, <1>8 DEF WriteIsAhead, memory
<1> QED BY <1>7, <1>9, <1>10, <1>11 DEF IInv

\* A write that failed, or that a crash cut short, leaves memory's slot.
LEMMA CutShortKeeps ==
  ASSUME IInv, WriteFails \/ Crash
  PROVE  IInv'
<1>1. writing' = NoWrite /\ UNCHANGED memory /\ up' \in BOOLEAN
  BY DEF WriteFails, Crash, IInv, TypeOK
<1>2. NoWrite \in Write
  BY WrapAssumption DEF NoWrite, Write, Sequences
<1>3. slots' \in [0 .. 1 -> Slot] /\ SlotsWhole' /\ MemoryHolds' /\ OtherIsNear'
  <2>1. CASE writing.out /\ Partly(writing)
    <3>1. writing \in Write /\ writing # NoWrite
      BY <2>1 DEF IInv, TypeOK, NoWrite
    <3> QED BY <1>1, <2>1, <3>1, PartlyKeeps DEF IInv, WriteIsAhead
  <2>2. CASE UNCHANGED slots
    BY <1>1, <2>2
    DEF IInv, TypeOK, SlotsWhole, MemoryHolds, OtherIsNear, Ahead, Other, memory
  <2> QED BY <2>1, <2>2 DEF WriteFails, Crash
<1>4. TypeOK' /\ WriteIsAhead'
  BY <1>1, <1>2, <1>3 DEF IInv, TypeOK, WriteIsAhead, memory
<1> QED BY <1>3, <1>4 DEF IInv

\* Every step keeps the invariant.
LEMMA StepKeeps == IInv /\ [Next]_vars => IInv'
<1> SUFFICES ASSUME IInv, [Next]_vars PROVE IInv'
  OBVIOUS
<1>1. CASE Load
  BY <1>1, LoadKeeps
<1>2. CASE \E t \in Times, r \in Days : BeginWrite(t, r)
  BY <1>2, BeginKeeps
<1>3. CASE Wrote
  BY <1>3, WroteKeeps
<1>4. CASE WriteFails \/ Crash
  BY <1>4, CutShortKeeps
<1>5. CASE UNCHANGED vars
  BY <1>5 DEF vars, IInv, TypeOK, SlotsWhole, MemoryHolds, OtherIsNear,
              WriteIsAhead, Ahead, Other
<1> QED BY <1>1, <1>2, <1>3, <1>4, <1>5 DEF Next

\* It holds of a file that is not there.
LEMMA InitHolds == Init => IInv
<1> SUFFICES ASSUME Init PROVE IInv
  OBVIOUS
<1>1. Torn \in Slot /\ ~Torn.valid /\ NoWrite \in Write /\ 0 \in Sequences
  BY WrapAssumption DEF Torn, Slot, NoWrite, Write, Sequences
<1>2. slots[0] = Torn /\ slots[1] = Torn /\ Other = Torn
  BY DEF Init, Other
<1>3. TypeOK
  <2>1. slots \in [0 .. 1 -> Slot]
    BY <1>1 DEF Init
  <2>2. up \in BOOLEAN /\ time \in Times \cup {0} /\ recover \in Days \cup {0}
    BY DEF Init
  <2>3. sequence \in Sequences /\ slot \in 0 .. 1 /\ writing \in Write
    BY <1>1 DEF Init
  <2> QED BY <2>1, <2>2, <2>3 DEF TypeOK
<1>4. SlotsWhole
  BY DEF Init, SlotsWhole
<1>5. MemoryHolds /\ WriteIsAhead
  BY <1>2 DEF Init, MemoryHolds, WriteIsAhead
<1>6. OtherIsNear
  BY <1>1, <1>2 DEF OtherIsNear, Ahead
<1> QED BY <1>3, <1>4, <1>5, <1>6 DEF IInv

\* The invariant always holds.
LEMMA Invariance == Spec => []IInv
BY InitHolds, StepKeeps, PTL DEF Spec

\* Every variable of the file's owner always has its type.
THEOREM TypeCorrect == Spec => []TypeOK
BY Invariance, PTL DEF IInv

\* A start finds the last flush whose write returned, or a later one.
LEMMA IInvNeverBehind == IInv => NeverBehind
<1> SUFFICES ASSUME IInv PROVE NeverBehind
  OBVIOUS
<1>1. time \in Nat /\ slots[slot] \in Slot
  BY TimesAssumption DEF IInv, TypeOK
<1>2. CASE Ahead
  BY <1>2, TakenIs DEF IInv, NeverBehind, OtherIsNear, Ahead
<1>3. CASE ~Ahead
  <2>1. Taken(slots) = slots[slot]
    BY <1>3, TakenIs DEF IInv
  <2>2. slots[slot].time = time /\ (time # 0 => slots[slot].valid)
    BY DEF IInv, MemoryHolds, Torn
  <2> QED BY <1>1, <2>1, <2>2 DEF NeverBehind
<1> QED BY <1>2, <1>3

\* A start always finds the last flush of .flushed whose write returned, or a
\* later one, whatever was torn since (Flushed's constructor, Next and Wrote).
THEOREM AStartIsNeverBehind == Spec => []NeverBehind
BY Invariance, IInvNeverBehind, PTL

-----------------------------------------------------------------------------
(* The file is one claim *)

\* What a start takes, told by whether the other slot is ahead.
TakesAhead ==
  /\ Ahead => ClaimOf(Taken(slots)) = ClaimOf(Other)
  /\ ~Ahead => ClaimOf(Taken(slots)) = [time |-> time, recover |-> recover]

\* A start takes the other slot's claim when that is ahead.
LEMMA TakenClaim == IInv => TakesAhead
<1> SUFFICES ASSUME IInv PROVE TakesAhead
  OBVIOUS
<1>1. Ahead => Taken(slots) = Other
  BY TakenIs DEF IInv
<1>2. ~Ahead => Taken(slots) = slots[slot]
  BY TakenIs DEF IInv
<1>3. slots[slot].time = time /\ slots[slot].recover = recover
  BY DEF IInv, MemoryHolds, Torn
<1> QED BY <1>1, <1>2, <1>3 DEF ClaimOf, TakesAhead

\* A write that is out leaves the claim, takes it back to memory's, or makes
\* it its own.
LEMMA PartlyClaims ==
  ASSUME IInv, IInv', UNCHANGED memory,
         NEW w, w.index = 1 - slot, w.sequence = Succ(sequence), Partly(w)
  PROVE  ClaimOf(Taken(slots))' \in
           {ClaimOf(Taken(slots)), [time |-> time, recover |-> recover],
            [time |-> w.time, recover |-> w.recover]}
<1>1. slots \in [0 .. 1 -> Slot] /\ 1 - slot \in 0 .. 1 /\ slot' = slot
      /\ sequence' = sequence /\ time' = time /\ recover' = recover
  BY DEF IInv, TypeOK, memory
<1>a. TakesAhead'
  BY TakenClaim, PTL
<1>2. CASE slots' = slots
  BY <1>2 DEF Taken, Second, ClaimOf
<1>3. CASE slots' = [slots EXCEPT ![w.index] = Torn]
  <2>1. Other' = Torn /\ ~Torn.valid
    BY <1>1, <1>3 DEF Other, Torn
  <2>2. ~Ahead'
    BY <2>1 DEF Ahead
  <2>3. ClaimOf(Taken(slots))' = [time |-> time', recover |-> recover']
    BY <1>a, <2>2 DEF TakesAhead
  <2> QED BY <1>1, <2>3
<1>4. CASE slots' = [slots EXCEPT ![w.index] = Bytes(w)]
  <2>1. Other' = Bytes(w)
    BY <1>1, <1>4 DEF Other
  <2>2. Ahead'
    BY <1>1, <2>1 DEF Ahead, Bytes
  <2>3. ClaimOf(Taken(slots))' = ClaimOf(Other)'
    BY <1>a, <2>2 DEF TakesAhead
  <2>4. ClaimOf(Other)' = [time |-> w.time, recover |-> w.recover]
    BY <2>1 DEF ClaimOf, Bytes
  <2> QED BY <2>3, <2>4
<1> QED BY <1>2, <1>3, <1>4 DEF Partly

\* A step of the file is a step of the claim, or leaves it.
LEMMA StepIsAtomic ==
  IInv /\ IInv' /\ [Next]_vars => [Promise!Next]_(Promise!vars)
<1> SUFFICES ASSUME IInv, IInv', [Next]_vars
             PROVE  [Promise!Next]_(Promise!vars)
  OBVIOUS
<1> DEFINE acked == [time |-> time, recover |-> recover]
           trying == [time |-> writing.time, recover |-> writing.recover]
           claim == ClaimOf(Taken(slots))
<1>0. Promise!Never = [time |-> 0, recover |-> 0]
      /\ Promise!Never = [time |-> NoWrite.time, recover |-> NoWrite.recover]
  BY DEF Promise!Never, NoWrite
<1>1. writing.out => trying # Promise!Never
  <2>1. writing.out => writing.time \in Times
    BY DEF IInv, WriteIsAhead, NoWrite
  <2> QED BY <1>0, <2>1, TimesAssumption
<1>2. ~writing.out => trying = Promise!Never
  BY <1>0 DEF IInv, WriteIsAhead
<1>3. CASE Load
  <2>1. acked' = claim
    <3>1. slots[0] \in Slot /\ slots[1] \in Slot
      BY DEF IInv, TypeOK
    <3>2. ~Taken(slots).valid => Taken(slots) = Torn
      BY <3>1 DEF IInv, SlotsWhole, Taken
    <3> QED BY <1>3, <3>2 DEF Load, ClaimOf, Torn
  <2>2. claim' = claim /\ trying' = trying /\ ~up /\ up' = TRUE
    BY <1>3 DEF Load
  <2>3. Promise!Start
    BY <2>1, <2>2 DEF Promise!Start
  <2> QED BY <2>3 DEF Promise!Next
<1>4. ASSUME NEW t \in Times, NEW r \in Days, BeginWrite(t, r)
      PROVE  Promise!Next
  <2>1. /\ writing'.time \in Times /\ writing'.recover \in Days
        /\ writing'.time >= time /\ writing'.out
    BY <1>4, BeginKeeps
  <2>2. /\ writing'.index = 1 - slot /\ writing'.sequence = Succ(sequence)
        /\ Partly(writing') /\ UNCHANGED <<up, memory>> /\ up /\ ~writing.out
    BY <1>4 DEF BeginWrite, NextSlot
  <2>3. claim' \in {claim, acked, trying'}
    BY <2>2, PartlyClaims
  <2>4. trying' \in Promise!Claims /\ trying' # Promise!Never
        /\ trying'.time >= acked.time
    BY <1>0, <2>1, TimesAssumption DEF Promise!Claims
  <2>5. Promise!Begin(trying')
    BY <1>2, <2>2, <2>3, <2>4 DEF Promise!Begin, memory
  <2> QED BY <2>4, <2>5 DEF Promise!Next
<1>5. CASE Wrote
  <2>1. acked' = trying /\ trying' = Promise!Never /\ up /\ up' = up /\ writing.out
    BY <1>0, <1>5 DEF Wrote
  <2>2. claim' = trying
    <3>1. TakesAhead'
      BY TakenClaim, PTL
    <3>2. ~Ahead'
      <4>1. slots \in [0 .. 1 -> Slot] /\ slot \in 0 .. 1 /\ sequence \in Sequences
        BY DEF IInv, TypeOK
      <4>2. writing.index = 1 - slot /\ writing.sequence = Succ(sequence)
        BY <2>1, SMTT(30) DEF IInv, WriteIsAhead, NoWrite
      <4>3. Other' = slots[slot] /\ sequence' = Succ(sequence)
        BY <1>5, <4>1, <4>2 DEF Wrote, Other
      <4>4. slots[slot].valid => slots[slot].sequence = sequence
        BY SMTT(30) DEF IInv, MemoryHolds, Torn
      <4> QED BY <4>1, <4>3, <4>4, SuccType DEF Ahead
    <3> QED BY <2>1, <3>1, <3>2 DEF TakesAhead
  <2>3. Promise!Finish
    BY <1>1, <2>1, <2>2 DEF Promise!Finish
  <2> QED BY <2>3 DEF Promise!Next
<1>6. CASE writing.out /\ Partly(writing) /\ (WriteFails \/ Crash)
  <2>1. writing.index = 1 - slot /\ writing.sequence = Succ(sequence)
    BY <1>6, SMTT(30) DEF IInv, WriteIsAhead, NoWrite
  <2>2. trying' = Promise!Never /\ acked' = acked /\ up /\ UNCHANGED memory
    BY <1>0, <1>6 DEF WriteFails, Crash, memory
  <2>3. claim' \in {claim, acked, trying}
    BY <1>6, <2>1, <2>2, PartlyClaims
  <2>4. CASE WriteFails
    <3>1. Promise!Fail
      BY <1>1, <1>6, <2>2, <2>3, <2>4 DEF Promise!Fail, WriteFails
    <3> QED BY <3>1 DEF Promise!Next
  <2>5. CASE Crash
    <3>1. Promise!Crash
      BY <1>1, <1>6, <2>2, <2>3, <2>5 DEF Promise!Crash, Crash
    <3> QED BY <3>1 DEF Promise!Next
  <2> QED BY <1>6, <2>4, <2>5
<1>7. CASE Crash /\ ~writing.out
  <2>1. claim' = claim /\ acked' = acked /\ trying' = Promise!Never /\ up /\ up' = FALSE
    BY <1>0, <1>7 DEF Crash, memory
  <2>2. Promise!Crash
    BY <2>1 DEF Promise!Crash
  <2> QED BY <2>2 DEF Promise!Next
<1>8. CASE UNCHANGED vars
  BY <1>8 DEF vars, Promise!vars
<1>9. ASSUME WriteFails \/ Crash
      PROVE  (writing.out /\ Partly(writing)) \/ (Crash /\ ~writing.out)
  BY <1>9 DEF WriteFails, Crash
<1> QED BY <1>3, <1>4, <1>5, <1>6, <1>7, <1>8, <1>9 DEF Next

\* Two slots written in place are the one claim an owner is promised: a crash,
\* or an error, at any moment of a write leaves the last flush or this one,
\* its time and its day together (Flushed).
THEOREM FileIsOneClaim == Spec => ClaimIsAtomic
<1>1. Init => Promise!Init
  BY SMTT(30) DEF Init, Promise!Init, Promise!Never, NoWrite, Taken, Second, ClaimOf, Torn
<1> QED BY <1>1, Invariance, StepIsAtomic, PTL
        DEF Spec, ClaimIsAtomic, Promise!Spec
=============================================================================
