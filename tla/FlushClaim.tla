----------------------------- MODULE FlushClaim -----------------------------
(***************************************************************************)
(* What the record layer's .flushed file promises its owner                *)
(* (include/jde/fwk/io/records/Flushed.h): a claim that is replaced as a   *)
(* whole.  A write that returned is what the next start reads, or a later  *)
(* one; a write that failed, or that a crash cut short, either took or did *)
(* not.                                                                    *)
(***************************************************************************)
EXTENDS Naturals

CONSTANTS
  Times, \* when a flush took its buffer
  Days   \* the day a start looks back to for live files

VARIABLES
  up,     \* the owner runs
  acked,  \* the claim it knows to be on disk: what it last wrote, or read
  trying, \* the claim of a write that is out
  claim   \* what a start would read

vars == <<up, acked, trying, claim>>

Never == [time |-> 0, recover |-> 0]
Claims == [time : Times, recover : Days] \cup {Never}

Init ==
  /\ up = FALSE
  /\ acked = Never /\ trying = Never /\ claim = Never

\* A flush's claim is never before the last.
Begin(c) ==
  /\ up /\ trying = Never
  /\ c # Never /\ c.time >= acked.time
  /\ trying' = c
  /\ claim' \in {claim, acked, c}
  /\ UNCHANGED <<up, acked>>

Finish ==
  /\ up /\ trying # Never
  /\ acked' = trying /\ claim' = trying
  /\ trying' = Never
  /\ UNCHANGED up

Fail ==
  /\ up /\ trying # Never
  /\ claim' \in {claim, acked, trying}
  /\ trying' = Never
  /\ UNCHANGED <<up, acked>>

Crash ==
  /\ up
  /\ up' = FALSE
  /\ claim' \in {claim} \cup (IF trying = Never THEN {} ELSE {acked, trying})
  /\ trying' = Never
  /\ UNCHANGED acked

Start ==
  /\ ~up
  /\ up' = TRUE
  /\ acked' = claim
  /\ UNCHANGED <<trying, claim>>

Next == (\E c \in Claims : Begin(c)) \/ Finish \/ Fail \/ Crash \/ Start

Spec == Init /\ [][Next]_vars
=============================================================================
