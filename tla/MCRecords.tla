------------------------------ MODULE MCRecords ------------------------------
(*****************************************************************************)
(* How a group collects: the record buffer between Collect and the flush     *)
(* (HistBuffer), what its thresholds store of a source (HistCollect), and    *)
(* when its heartbeats come. One run checks the three, each behaviour one    *)
(* component's.                                                              *)
(*****************************************************************************)
EXTENDS HistBuffer, SequencesExt

VARIABLES
  part, \* the component whose instance runs
  values_steady, values_back, values_changes, values_channel, values_broke, values_breaks, values_group,
  values_delivered,
  held_steady, held_back, held_changes, held_channel, held_broke, held_breaks, held_group, held_delivered,
  pair_steady, pair_back, pair_changes, pair_channel, pair_broke, pair_breaks, pair_group, pair_delivered,
  alone_steady, alone_back, alone_changes, alone_channel, alone_broke, alone_breaks, alone_group, alone_delivered

\* The buffer's instance: times 1 to 4 of one day and the later ones of the next.
MCDay == [t \in Times |-> IF t <= 4 THEN 1 ELSE 2]
MCTurns == -6 .. 0

\* The values arrived in the order of their times, to a group still
\* collecting and without heartbeats.
MCInOrder == ~ending /\ \A n \in Nodes : InOrder(n)

\* Two courses in one run: three records of any kind, order and day, and four
\* in order and of one day, as many as two gaps take, a break among them.
MCAny == next <= 4 /\ \A r \in stored : r.time >= 3
MCPlain ==
  /\ MCInOrder
  /\ \A r \in stored : Day[r.time] = 1
  /\ Cardinality({r \in stored : r.kind = "marker"}) <= 1
MCBufferNext == Next /\ (MCAny' \/ MCPlain')

\* A heartbeat after two ticks; a minimum interval of two; neither.
Beating == [min |-> 0, max |-> 2]
Held == [min |-> 2, max |-> 0]
Silent == [min |-> 0, max |-> 0]

\* What a node with a heartbeat stores, its source's clock running forward.
Change == INSTANCE HistCollect WITH Nodes <- {"n"}, Values <- 0..2, Band <- 2, Firsts <- {Beating}, Configs <- {},
  Stamps <- {TRUE}, MaxTime <- 4, MaxBack <- 0, MaxChanges <- 3, Publishing <- 1, MaxBreaks <- 1, LosesOlder <- FALSE,
  MaxSerial <- 3, steady <- values_steady, back <- values_back, changes <- values_changes, channel <- values_channel,
  broke <- values_broke, breaks <- values_breaks, group <- values_group, delivered <- values_delivered
\* What one that holds its values back stores, its interval changed and its source's clock going back.
Holds == INSTANCE HistCollect WITH Nodes <- {"n"}, Values <- 0..2, Band <- 2, Firsts <- {Held},
  Configs <- {[min |-> m, max |-> 0] : m \in {1, 3}}, Stamps <- {TRUE}, MaxTime <- 3, MaxBack <- 0, MaxChanges <- 3,
  Publishing <- 1, MaxBreaks <- 1, LosesOlder <- FALSE, MaxSerial <- 2, steady <- held_steady, back <- held_back,
  changes <- held_changes, channel <- held_channel, broke <- held_broke, breaks <- held_breaks, group <- held_group,
  delivered <- held_delivered
\* Two nodes that beat, whose intervals change and whose connection breaks.
Pair == INSTANCE HistCollect WITH Nodes <- {"n1", "n2"}, Values <- {0}, Band <- 0, Firsts <- {Beating},
  Configs <- {[min |-> 0, max |-> 1]}, Stamps <- {TRUE}, MaxTime <- 3, MaxBack <- 0, MaxChanges <- 2, Publishing <- 1,
  MaxBreaks <- 1, LosesOlder <- FALSE, MaxSerial <- 3, steady <- pair_steady, back <- pair_back,
  changes <- pair_changes, channel <- pair_channel, broke <- pair_broke, breaks <- pair_breaks, group <- pair_group,
  delivered <- pair_delivered
\* One that beats beside a silent one, the wall clock set back.
Alone == INSTANCE HistCollect WITH Nodes <- {"n1", "n2"}, Values <- 0..1, Band <- 0, Firsts <- {Beating, Silent},
  Configs <- {}, Stamps <- BOOLEAN, MaxTime <- 5, MaxBack <- 2, MaxChanges <- 2, Publishing <- 1, MaxBreaks <- 0,
  LosesOlder <- FALSE, MaxSerial <- 3, steady <- alone_steady, back <- alone_back, changes <- alone_changes,
  channel <- alone_channel, broke <- alone_broke, breaks <- alone_breaks, group <- alone_group,
  delivered <- alone_delivered

valuesVars == <<values_steady, values_back, values_changes, values_channel, values_broke, values_breaks, values_group,
  values_delivered>>
heldVars == <<held_steady, held_back, held_changes, held_channel, held_broke, held_breaks, held_group,
  held_delivered>>
pairVars == <<pair_steady, pair_back, pair_changes, pair_channel, pair_broke, pair_breaks, pair_group,
  pair_delivered>>
aloneVars == <<alone_steady, alone_back, alone_changes, alone_channel, alone_broke, alone_breaks, alone_group,
  alone_delivered>>
MCVars == <<part, vars, valuesVars, heldVars, pairVars, aloneVars>>

\* The longest courses are those without a break.
ValuesNext ==
  /\ Change!Next
  /\ values_breaks' = 0 \/ values_steady' <= 3
  /\ values_changes'["n"] # values_changes["n"] => Last(values_changes'["n"]).ts = values_steady
HeldNext == Holds!Next /\ (held_breaks' = 0 \/ Len(held_changes'["n"]) <= 2)

\* Nothing tells one node from the other, so the first is the one that changes, and that at its moment.
PairNext ==
  /\ Pair!Next
  /\ pair_changes'["n2"] = pair_changes["n2"]
  /\ pair_changes'["n1"] # pair_changes["n1"] => Last(pair_changes'["n1"]).ts = pair_steady

AloneInit == Alone!Init /\ alone_group.node["n1"].Config = Beating /\ alone_group.node["n2"].Config = Silent

\* No timer runs late.
Prompt ==
  /\ alone_group.beat # Alone!NoBeat => alone_steady <= alone_group.beat.at
  /\ \A e \in alone_group.expiries : alone_steady <= e.at

AloneNext ==
  /\ Alone!Next
  /\ Prompt' /\ alone_changes'["n2"] = alone_changes["n2"]
  /\ alone_changes'["n1"] # alone_changes["n1"] => Last(alone_changes'["n1"]).ts = alone_steady - alone_back

MCInit ==
  /\ part \in {"buffer", "values", "held", "pair", "alone"}
  /\ Init
  /\ \/ part = "values" /\ Change!Init
     \/ part # "values" /\ values_steady = 0 /\ values_back = 0 /\ values_changes = 0 /\ values_channel = 0 /\
        values_broke = 0 /\ values_breaks = 0 /\ values_group = 0 /\ values_delivered = 0
  /\ \/ part = "held" /\ Holds!Init
     \/ part # "held" /\ held_steady = 0 /\ held_back = 0 /\ held_changes = 0 /\ held_channel = 0 /\ held_broke = 0 /\
        held_breaks = 0 /\ held_group = 0 /\ held_delivered = 0
  /\ \/ part = "pair" /\ Pair!Init
     \/ part # "pair" /\ pair_steady = 0 /\ pair_back = 0 /\ pair_changes = 0 /\ pair_channel = 0 /\ pair_broke = 0 /\
        pair_breaks = 0 /\ pair_group = 0 /\ pair_delivered = 0
  /\ \/ part = "alone" /\ AloneInit
     \/ part # "alone" /\ alone_steady = 0 /\ alone_back = 0 /\ alone_changes = 0 /\ alone_channel = 0 /\
        alone_broke = 0 /\ alone_breaks = 0 /\ alone_group = 0 /\ alone_delivered = 0

MCNext ==
  \/ part = "buffer" /\ MCBufferNext /\ UNCHANGED <<part, valuesVars, heldVars, pairVars, aloneVars>>
  \/ part = "values" /\ ValuesNext /\ UNCHANGED <<part, vars, heldVars, pairVars, aloneVars>>
  \/ part = "held" /\ HeldNext /\ UNCHANGED <<part, vars, valuesVars, pairVars, aloneVars>>
  \/ part = "pair" /\ PairNext /\ UNCHANGED <<part, vars, valuesVars, heldVars, aloneVars>>
  \/ part = "alone" /\ AloneNext /\ UNCHANGED <<part, vars, valuesVars, heldVars, pairVars>>

MCSpec == MCInit /\ [][MCNext]_MCVars

\* The buffer alone, its values in the order of their times.
MCOrderedSpec ==
  /\ MCInit /\ part = "buffer"
  /\ [][Next /\ MCInOrder' /\ UNCHANGED <<part, valuesVars, heldVars, pairVars, aloneVars>>]_MCVars

\* Group::Collect: a Good record says what its source held (CollectChange), the newest record is the newest there
\* (RecordIsNewest, kept by Flush), what a node has stored follows its source within its thresholds, and a value
\* held back has a timer that will store it (ExpireAt).
StoredIsTrue ==
  /\ part = "values" => Change!TypeOK /\ Change!GoodIsTrue /\ Change!RecordIsNewest /\ Change!StoredIsCurrent /\
       Change!PendingHasItsTimer
  /\ part = "held" => Holds!TypeOK /\ Holds!GoodIsTrue /\ Holds!RecordIsNewest /\ Holds!StoredIsCurrent /\
       Holds!PendingHasItsTimer

\* Group's heartbeat timer: a node with a heartbeat is beaten for by the timer in time, whatever was reset, broken
\* or set back meanwhile.
HeartbeatIsComing ==
  /\ part = "pair" => Pair!HeartbeatIsComing
  /\ part = "alone" => Alone!HeartbeatIsComing
=============================================================================
