----------------------------- MODULE FlushedFile ----------------------------
(***************************************************************************)
(* The record layer's .flushed file (libs/fwk/src/io/records/Flushed.cpp): *)
(* two slots written alternately in place, each with a sequence number and *)
(* a CRC, of which a start takes the valid one with the later sequence.    *)
(*                                                                         *)
(* A write in place may be torn by a crash, or by an error the owner is    *)
(* told of, and then leaves its slot as it was, torn, or new.  A torn slot *)
(* fails its CRC; the write reaches no byte of the other slot.  One write  *)
(* is out at a time, which the owner's flush turn sees to (HistFlush).     *)
(*                                                                         *)
(* The sequence is a uint32_t: Wrap is 2^32, and any number from 3 on in   *)
(* the proofs.                                                             *)
(***************************************************************************)
EXTENDS Naturals

CONSTANTS
  Times, \* when a flush took its buffer, ns since 1970-01-01
  Days,  \* days a start may look back to
  Wrap   \* the range of the sequence

ASSUME TimesAssumption == Times \subseteq Nat \ {0}
ASSUME DaysAssumption == Days \subseteq Nat
ASSUME WrapAssumption == Wrap \in Nat /\ Wrap >= 3

VARIABLES
  slots,   \* the file
  up,      \* the owner runs
  time, recover, sequence, slot, \* Flushed's members, as it last ran
  writing  \* the Slot of the write that is out

vars == <<slots, up, time, recover, sequence, slot, writing>>
memory == <<time, recover, sequence, slot>>

Sequences == 0 .. Wrap - 1
Slot == [valid : BOOLEAN, sequence : Sequences, time : Times \cup {0},
         recover : Days \cup {0}]
Write == [out : BOOLEAN, index : 0 .. 1, sequence : Sequences,
          time : Times \cup {0}, recover : Days \cup {0}]

\* A slot no CRC is right for: torn, or in no file yet.
Torn == [valid |-> FALSE, sequence |-> 0, time |-> 0, recover |-> 0]
NoWrite == [out |-> FALSE, index |-> 0, sequence |-> 0, time |-> 0,
            recover |-> 0]

\* A mutant of Succ: a sequence that never wraps.
SuccUnwrapped(s) == s + 1

\* _sequence+1.
Succ(s) == IF s + 1 = Wrap THEN 0 ELSE s + 1

\* Sequence-Sequence, in uint32_t.
Minus(a, b) == IF a >= b THEN a - b ELSE a + Wrap - b

\* A mutant of Later: a sequence that has wrapped is the earlier one.
LaterUnwrapped(a, b) == a > b

\* (int32_t)( a-b )>0: ahead by less than half the range.
Later(a, b) == 0 < Minus(a, b) /\ 2 * Minus(a, b) < Wrap

\* The slot the constructor takes.
Second(s) == s[1].valid /\ (~s[0].valid \/ Later(s[1].sequence, s[0].sequence))
Taken(s) == IF Second(s) THEN s[1] ELSE s[0]

Init ==
  /\ slots = [i \in 0 .. 1 |-> Torn]
  /\ up = FALSE
  /\ time = 0 /\ recover = 0 /\ sequence = 0 /\ slot = 1
  /\ writing = NoWrite

\* Flushed::Load.  One that can't read the file throws, and nothing starts.
Load ==
  /\ ~up
  /\ up' = TRUE
  /\ \/ /\ Taken(slots).valid
        /\ time' = Taken(slots).time
        /\ recover' = Taken(slots).recover
        /\ sequence' = Taken(slots).sequence
        /\ slot' = IF Second(slots) THEN 1 ELSE 0
     \/ /\ ~Taken(slots).valid
        /\ time' = 0 /\ recover' = 0 /\ sequence' = 0 /\ slot' = 1
  /\ UNCHANGED <<slots, writing>>

\* Flushed::Next.
NextSlot(t, r) ==
  [out |-> TRUE, index |-> 1 - slot, sequence |-> Succ(sequence),
   time |-> IF t >= time THEN t ELSE time, recover |-> r]

\* The bytes of a Slot, on disk.
Bytes(w) == [valid |-> TRUE, sequence |-> w.sequence, time |-> w.time,
             recover |-> w.recover]

\* What a write that is out may have made of its slot.
Partly(w) ==
  \/ slots' = slots
  \/ slots' = [slots EXCEPT ![w.index] = Torn]
  \/ slots' = [slots EXCEPT ![w.index] = Bytes(w)]

\* Slot::Write begins.
BeginWrite(t, r) ==
  /\ up /\ ~writing.out
  /\ writing' = NextSlot(t, r)
  /\ Partly(writing')
  /\ UNCHANGED <<up, memory>>

\* A mutant of Wrote: the day stays the last flush's.
WroteItsTime ==
  /\ up /\ writing.out
  /\ slots' = [slots EXCEPT ![writing.index] = Bytes(writing)]
  /\ time' = writing.time
  /\ sequence' = writing.sequence /\ slot' = writing.index
  /\ writing' = NoWrite
  /\ UNCHANGED <<up, recover>>

\* It returns, and Wrote.
Wrote ==
  /\ up /\ writing.out
  /\ slots' = [slots EXCEPT ![writing.index] = Bytes(writing)]
  /\ time' = writing.time /\ recover' = writing.recover
  /\ sequence' = writing.sequence /\ slot' = writing.index
  /\ writing' = NoWrite
  /\ UNCHANGED up

\* It throws: what is known of the file stays.
WriteFails ==
  /\ up /\ writing.out
  /\ Partly(writing)
  /\ writing' = NoWrite
  /\ UNCHANGED <<up, memory>>

\* The process stops, a write out or none.
Crash ==
  /\ up
  /\ up' = FALSE
  /\ \/ writing.out /\ Partly(writing)
     \/ ~writing.out /\ UNCHANGED slots
  /\ writing' = NoWrite
  /\ UNCHANGED memory

Next ==
  \/ Load
  \/ \E t \in Times, r \in Days : BeginWrite(t, r)
  \/ Wrote \/ WriteFails \/ Crash

Spec == Init /\ [][Next]_vars

-----------------------------------------------------------------------------
(* Properties *)

\* Every variable has its type.
TypeOK ==
  /\ slots \in [0 .. 1 -> Slot]
  /\ up \in BOOLEAN
  /\ time \in Times \cup {0} /\ recover \in Days \cup {0}
  /\ sequence \in Sequences /\ slot \in 0 .. 1
  /\ writing \in Write

\* A start finds the last flush whose write returned, or a later one: a torn
\* write loses one flush, not the file, however the sequence wraps and however
\* often writes failed since (Flushed.h: "so a torn write loses one flush, not
\* the file").
NeverBehind ==
  /\ Taken(slots).time >= time
  /\ time # 0 => Taken(slots).valid

\* The file keeps the promise of an owner's claim that is replaced as a
\* whole: the slot a start would take is what it reads.
ClaimOf(s) == [time |-> s.time, recover |-> s.recover]
Promise == INSTANCE FlushClaim WITH
  acked <- [time |-> time, recover |-> recover],
  trying <- [time |-> writing.time, recover |-> writing.recover],
  claim <- ClaimOf(Taken(slots))
ClaimIsAtomic == Promise!Spec
=============================================================================
