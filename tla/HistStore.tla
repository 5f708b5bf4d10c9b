------------------------------ MODULE HistStore ------------------------------
(***************************************************************************)
(* The cap that a historian's groups share (src/libs/historian/src/        *)
(* Store.cpp): each group pushes records under its own lock, counts them   *)
(* in the store's total, and past maxBuffer asks for its flush or, when it *)
(* can't be flushed, for a trim, which drops the oldest values across the  *)
(* groups under the store's lock, looking at one group at a time.          *)
(*                                                                         *)
(* A record costs 1, and a group has one node.  HistBuffer has what a drop *)
(* leaves of a node, and HistFlush what a flush does with its batch.       *)
(***************************************************************************)
EXTENDS Naturals, Sequences, FiniteSets, FiniteSetsExt

CONSTANTS
    N,          \* the groups are 1 .. N, as the store registered them
    Hops,       \* the clock's threads that run a trim asked for
    MaxBuffer,  \* the cap
    Slack,      \* how far below it a trim goes: MaxBuffer/8 in the code
    MaxSeq,     \* bound: on records
    MaxChanges, \* bound: on membership changes
    MaxFlushes  \* bound: on the flushes that `delay` brings, or a group's own
                \* size, of each group

Groups == 1 .. N
Trimmers == Groups \cup Hops    \* a group's flush trims too

VARIABLES
    sequence,   \* Store::_sequence
    buffered,   \* Store::_buffered
    asked,      \* Store::_trimRequested
    hop,        \* the trims scheduled on the clock and not yet run
    owed,       \* the pushes that have yet to call RequestTrim
    group,      \* group[g]: its buffer and its flush's state
    trim,       \* trim[t]: where a thread is in Trim
    holder,     \* who holds the store's lock, {} when it is free
    changes,    \* how many membership changes were pushed
    flushes,    \* flushes[g]: how many delay or its size has brought
    back        \* history: the records a flush gave back since the trim's
                \* last test

vars == <<sequence, buffered, asked, hop, owed, group, trim, holder, changes,
          flushes, back>>

Idle == [at |-> "idle", low |-> 0, need |-> 0, seen |-> <<>>]

NewGroup ==
    [values |-> {}, changes |-> {}, lost |-> {}, batch |-> {},
     requested |-> FALSE, failing |-> FALSE, again |-> FALSE, hops |-> 0,
     flush |-> "none"]

Init ==
    /\ sequence = 0 /\ buffered = 0
    /\ asked = FALSE /\ hop = 0 /\ owed = 0
    /\ group = [g \in Groups |-> NewGroup]
    /\ trim = [t \in Trimmers |-> Idle]
    /\ holder = {}
    /\ changes = 0
    /\ flushes = [g \in Groups |-> 0]
    /\ back = {}

Record(seq, kind) == [seq |-> seq, kind |-> kind]
Over(total) == total > MaxBuffer

(***************************************************************************)
(* Push, under the group's lock, then Pushed without it.  full: whether    *)
(* the group's fresh records have reached what a flush is asked for at.    *)
(***************************************************************************)
ClaimFlush(g, over, full) ==
    (full \/ over) /\ ~group[g].requested /\ ~group[g].failing

Push(g, kind, full) ==
    LET r == Record(sequence + 1, kind)
        over == Over(buffered + 1)
        flush == ClaimFlush(g, over, full)
    IN  /\ sequence < MaxSeq
        /\ kind = "change" => changes < MaxChanges
        /\ full => flushes[g] < MaxFlushes
        /\ sequence' = sequence + 1
        /\ buffered' = buffered + 1
        /\ group' = [group EXCEPT
              ![g].values = IF kind = "change" THEN @ ELSE @ \cup {r},
              ![g].changes = IF kind = "change" THEN @ \cup {r} ELSE @,
              ![g].requested = @ \/ flush,
              ![g].hops = IF flush THEN @ + 1 ELSE @]
        /\ owed' = IF over /\ ~flush THEN owed + 1 ELSE owed
        /\ changes' = IF kind = "change" THEN changes + 1 ELSE changes
        /\ flushes' = IF full THEN [flushes EXCEPT ![g] = @ + 1] ELSE flushes
        /\ UNCHANGED <<asked, hop, trim, holder, back>>

RequestTrim ==
    /\ owed > 0
    /\ owed' = owed - 1
    /\ asked' = TRUE
    /\ hop' = IF asked THEN hop ELSE hop + 1
    /\ UNCHANGED <<sequence, buffered, group, trim, holder, changes, flushes,
                   back>>

(***************************************************************************)
(* The group's flush, asked for by its size, by the total, or by delay.    *)
(***************************************************************************)
Requested(g) ==
    IF group[g].flush = "none" THEN [group[g] EXCEPT !.flush = "take"]
                               ELSE [group[g] EXCEPT !.again = TRUE]

Hop(g) ==
    /\ group[g].hops > 0
    /\ group' = [group EXCEPT ![g] = [Requested(g) EXCEPT !.hops = @ - 1]]
    /\ UNCHANGED <<sequence, buffered, asked, hop, owed, trim, holder,
                   changes, flushes, back>>

Delay(g) ==
    /\ flushes[g] < MaxFlushes
    /\ flushes' = [flushes EXCEPT ![g] = @ + 1]
    /\ group' = [group EXCEPT ![g] = Requested(g)]
    /\ UNCHANGED <<sequence, buffered, asked, hop, owed, trim, holder,
                   changes, back>>

\* The order of the buffer: a marker goes before the value that ends its gap.
Rank(r) == 2 * r.seq + (IF r.kind = "marker" THEN 0 ELSE 1)

\* What the node's drops leave to write: the newest, and before it a marker
\* when there were more.
LostRecords(lost) ==
    LET newest == CHOOSE r \in lost : \A q \in lost : Rank(q) <= Rank(r)
    IN  IF lost = {} THEN {}
        ELSE IF Cardinality(lost) = 1 THEN lost
        ELSE {Record(newest.seq, "marker"), newest}

Take(g) ==
    LET b == group[g]
    IN  /\ b.flush = "take"
        /\ group' = [group EXCEPT ![g] =
              [b EXCEPT !.batch = LostRecords(b.lost) \cup b.values \cup b.changes,
                        !.values = {}, !.changes = {}, !.lost = {},
                        !.again = FALSE, !.requested = FALSE,
                        !.flush = "out"]]
        /\ buffered' = buffered - Cardinality(b.values \cup b.changes)
        /\ UNCHANGED <<sequence, asked, hop, owed, trim, holder, changes,
                       flushes, back>>

\* The days are written, but for the records of those that fail.
Write(g) ==
    /\ group[g].flush = "out"
    /\ \E held \in SUBSET group[g].batch :
         group' = [group EXCEPT
            ![g].batch = held,
            ![g].failing = held # {} /\ held = group[g].batch,
            ![g].flush = IF held = {} THEN "done" ELSE "failed"]
    /\ UNCHANGED <<sequence, buffered, asked, hop, owed, trim, holder,
                   changes, flushes, back>>

\* The records held go back, with the gaps dropped meanwhile, and past the cap
\* the flush trims.
Return(g) ==
    LET b == group[g]
        gaps == LostRecords(b.lost)
        values == gaps \cup {r \in b.batch : r.kind # "change"}
        cost == Cardinality(gaps \cup b.batch)
    IN  /\ b.flush = "failed"
        /\ group' = [group EXCEPT ![g] =
              [b EXCEPT !.values = @ \cup values,
                        !.changes = @ \cup {r \in b.batch : r.kind = "change"},
                        !.lost = {}, !.batch = {},
                        !.flush = IF Over(buffered + cost) THEN "trim"
                                                           ELSE "done"]]
        /\ buffered' = buffered + cost
        /\ back' = back \cup values
        /\ UNCHANGED <<sequence, asked, hop, owed, trim, holder, changes,
                       flushes>>

Done(g) ==
    /\ group[g].flush = "done"
    /\ group' = [group EXCEPT ![g].flush = IF group[g].again THEN "take"
                                                             ELSE "none"]
    /\ UNCHANGED <<sequence, buffered, asked, hop, owed, trim, holder,
                   changes, flushes, back>>

(***************************************************************************)
(* Trim: on the clock's hop, or by a flush that gave records back.         *)
(***************************************************************************)
Starts(t) ==
    \/ /\ t \in Hops /\ hop > 0
       /\ hop' = hop - 1
       /\ UNCHANGED group
    \/ /\ t \in Groups /\ group[t].flush = "trim"
       /\ group' = [group EXCEPT ![t].flush = "trimming"]
       /\ UNCHANGED hop

\* As if the flag stayed up.
LoweredNever == asked

\* Trim lowers the flag first: one asked for from here on follows it.
Lowered == FALSE

BeginTrim(t) ==
    /\ trim[t].at = "idle"
    /\ Starts(t)
    /\ asked' = Lowered
    /\ trim' = [trim EXCEPT ![t].at = "lock"]
    /\ UNCHANGED <<sequence, buffered, owed, holder, changes, flushes, back>>

Low == IF Over(buffered) THEN MaxBuffer - Slack ELSE MaxBuffer

LockStore(t) ==
    /\ trim[t].at = "lock" /\ holder = {}
    /\ holder' = {t}
    /\ trim' = [trim EXCEPT ![t] = [Idle EXCEPT !.at = "test", !.low = Low]]
    /\ UNCHANGED <<sequence, buffered, asked, hop, owed, group, changes,
                   flushes, back>>

\* The trim is over: the lock goes, and a flush that trimmed goes on.
Unlock(t) ==
    /\ holder' = {}
    /\ trim' = [trim EXCEPT ![t] = Idle]
    /\ group' = IF t \in Groups THEN [group EXCEPT ![t].flush = "done"]
                                ELSE group
    /\ back' = {}
    /\ UNCHANGED <<sequence, buffered, asked, hop, owed, changes, flushes>>

Enough(t) ==
    /\ trim[t].at = "test" /\ buffered <= trim[t].low
    /\ Unlock(t)

Test(t) ==
    /\ trim[t].at = "test" /\ buffered > trim[t].low
    /\ trim' = [trim EXCEPT ![t].at = "look", ![t].seen = <<>>,
                            ![t].need = buffered - trim[t].low]
    /\ back' = {}
    /\ UNCHANGED <<sequence, buffered, asked, hop, owed, group, holder,
                   changes, flushes>>

\* The next group's Oldest, under that group's lock alone.
Oldest(g) == {r.seq : r \in group[g].values}
Never == MaxSeq + 1
Look(t) ==
    LET g == Len(trim[t].seen) + 1
    IN  /\ trim[t].at = "look" /\ g <= N
        /\ trim' = [trim EXCEPT ![t].seen = Append(@, Min({Never} \cup Oldest(g)))]
        /\ UNCHANGED <<sequence, buffered, asked, hop, owed, group, holder,
                       changes, flushes, back>>

\* The group whose oldest value is the oldest, and the oldest of the others'.
FirstSeen(t) == Min(Range(trim[t].seen))
OldestGroup(t) == CHOOSE g \in Groups : trim[t].seen[g] = FirstSeen(t)

\* As if a group that takes the lead left nothing behind it.
SecondSeenLater(t) ==
    Min({Never} \cup {trim[t].seen[g] : g \in (OldestGroup(t) + 1) .. N})

SecondSeen(t) ==
    Min({Never} \cup {trim[t].seen[g] : g \in Groups \ {OldestGroup(t)}})

\* The first of g's values, as many as are needed, that are before second.
Dropped(g, second, need) ==
    LET before == {r \in group[g].values : r.seq < second}
        older(r) == {q \in before : Rank(q) < Rank(r)}
    IN  {r \in before : Cardinality(older(r)) < need}

\* As if the bytes a drop frees were left in the store's total.
SubtractNone(dropped) == buffered

Subtract(dropped) == buffered - Cardinality(dropped)

Drop(t) ==
    LET g == OldestGroup(t)
        dropped == Dropped(g, SecondSeen(t), trim[t].need)
    IN  /\ trim[t].at = "look" /\ Len(trim[t].seen) = N
        /\ FirstSeen(t) # Never
        /\ group' = [group EXCEPT ![g].values = @ \ dropped,
                                  ![g].lost = @ \cup dropped]
        /\ buffered' = Subtract(dropped)
        /\ trim' = [trim EXCEPT ![t].at = "test"]
        /\ UNCHANGED <<sequence, asked, hop, owed, holder, changes, flushes,
                       back>>

\* Membership changes are all that is left.
NoneLeft(t) ==
    /\ trim[t].at = "look" /\ Len(trim[t].seen) = N
    /\ FirstSeen(t) = Never
    /\ Unlock(t)

Next ==
    \/ \E g \in Groups :
         \/ \E kind \in {"value", "change"}, full \in BOOLEAN : Push(g, kind, full)
         \/ Hop(g) \/ Delay(g) \/ Take(g) \/ Write(g) \/ Return(g) \/ Done(g)
    \/ RequestTrim
    \/ \E t \in Trimmers :
         \/ BeginTrim(t) \/ LockStore(t) \/ Enough(t) \/ Test(t)
         \/ Look(t) \/ Drop(t) \/ NoneLeft(t)

Spec == Init /\ [][Next]_vars

(***************************************************************************)
(* Properties.                                                             *)
(***************************************************************************)
Held(g) == Cardinality(group[g].values) + Cardinality(group[g].changes)

\* The state has its types; the store's total is what the groups hold, whoever
\* takes, drops or gives back meanwhile; only the holder of the store's lock
\* is inside a trim; and a trim on the clock means that one was asked for.
TypeOK ==
    /\ sequence \in 0 .. MaxSeq
    /\ buffered = MapThenSumSet(Held, Groups)
    /\ asked \in BOOLEAN /\ hop \in Nat /\ owed \in Nat
    /\ \A t \in Trimmers :
         trim[t].at \in {"test", "look"} <=> holder = {t}
    /\ \A g \in Groups :
         /\ group[g].values \cap group[g].batch = {}
         /\ group[g].flush \in {"none", "take", "out", "failed", "trim",
                                "trimming", "done"}

DropsOldest ==
    \A g, h \in Groups :
        \A r \in group'[g].lost \ group[g].lost, w \in group[h].values :
            h # g => r.seq < w.seq \/ w \in back

\* A trim drops the oldest values across the groups first: none is dropped
\* while another group holds an older one, but for what a failed flush gave
\* back after the trim looked.
OldestFirst == [][DropsOldest]_vars

\* Whether a trim will look at the total again, or a flush will take a buffer
\* out of it.
TrimComes == owed > 0 \/ hop > 0 \/ \E t \in Trimmers : trim[t].at # "idle"
FlushComes(g) ==
    group[g].hops > 0 \/ group[g].again \/ group[g].flush \in {"take", "trim"}

\* The total is never left past the cap: while it is, and there is a value to
\* drop, a trim or a flush is on its way, whoever pushed, asked and trimmed in
\* whatever order.
OverIsSeen ==
    Over(buffered) /\ (\E g \in Groups : group[g].values # {}) =>
        TrimComes \/ \E g \in Groups : FlushComes(g)
=============================================================================
