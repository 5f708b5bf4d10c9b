------------------------------ MODULE MCHistory ------------------------------
(*****************************************************************************)
(* A group's history: its .flushed file (FlushedFile), the store that caps   *)
(* its buffer (HistStore), the historian that owns it (Historian), reads     *)
(* (HistRead) and aggregates (HistAggregates). One run checks them all,      *)
(* each behaviour one component's.                                           *)
(*****************************************************************************)
EXTENDS FlushedFile, Integers, Sequences, FiniteSets

CONSTANTS Text

VARIABLES
  part, \* the component whose instance runs
  store_sequence, store_buffered, store_asked, store_hop, store_owed, store_group, store_trim, store_holder,
  store_changes, store_flushes, store_back,
  historian_groups, historian_adding, historian_removed, historian_group, historian_call,
  read_script, read_g, read_read, read_got, read_moves,
  aggregate_data, aggregate_r, aggregate_next, aggregate_had, aggregate_got, aggregate_phase

MCTimes == 1 .. 3
MCDays == 1 .. 2

\* A group's life, one step of a script after another: values collected, nodes that join and leave, flushes, archives
\* and edits.
C(i, t, id) == <<"collect", i, t, id>>
F == <<"flush">>
J(i) == <<"join", i>>
Scripts ==
  { << J(1), J(2), C(1, 0, 1), C(2, 1, 2), F, C(1, 3, 3), C(2, 3, 4), C(1, 3, 5), F, C(1, 7, 6) >>,
    << J(1), J(2), C(1, 1, 1), F, C(2, 6, 2), C(1, 6, 3), F, <<"archive", 0>>, C(1, 3, 4), F, C(1, 6, 5), C(2, 2, 6) >>,
    << J(1), C(1, 0, 1), F, <<"leave", 1, 2>>, J(3), J(2), C(3, 4, 2), F, C(2, 5, 3), C(3, 7, 4), F, <<"archive", 1>> >>,
    << J(1), J(2), C(1, 1, 1), C(2, 0, 7), C(1, 4, 2), F, <<"delete", 1, 1, 0>>, <<"insert", 2, 2, 3>>,
       <<"replace", 1, 4, 4>>, <<"archive", 1>>, C(1, 4, 5), C(2, 7, 6) >>,
    << J(1), J(2), C(1, 1, 1), C(2, 1, 2), C(1, 1, 3), C(2, 1, 4), C(1, 1, 5), F, <<"archive", 0>>, C(1, 1, 6),
       C(2, 5, 7), C(2, 7, 8) >> }
Ends == {<< >>} \cup {<<t>> : t \in 0..8}
ReadRequests ==
  {r \in [nodes : {<<"a">>, <<"b", "a">>}, start : Ends, end : Ends, bounds : BOOLEAN, oneDay : BOOLEAN, modified : BOOLEAN] :
     (r.start # << >> \/ r.end # << >>) /\ ~(r.bounds /\ r.modified)}

\* Up to three records of a node beside another's two, and two of a stepped one; the values are multiples of 420, so the
\* averages are whole.
Recs(n) == {s \in [1..n -> [time : 0..4, status : {"Good", "Uncertain", "Bad"}, value : {0}]] :
              \A i \in 1..(n - 1) : s[i].time <= s[i + 1].time}
Valued(s) == [i \in DOMAIN s |-> [s[i] EXCEPT !.value = <<840, 0, 2520>>[i]]]
Texts(s) == [i \in DOMAIN s |-> [s[i] EXCEPT !.value = Text]]
Other == <<[time |-> 1, status |-> "Good", value |-> 420], [time |-> 3, status |-> "Good", value |-> 1260]>>
Data ==
  {[records |-> <<Valued(s), Other>>, stepped |-> {}] : s \in UNION {Recs(n) : n \in 0..3}}
    \cup {[records |-> <<s, Other>>, stepped |-> {1}] : s \in {Valued(t) : t \in Recs(2)} \cup {Texts(t) : t \in Recs(2)}}
Asked(mode, nodes, times, start, end, interval, aggregate, simple, sloped, uncertainBad, limit, oneDay) ==
  [mode |-> mode, nodes |-> nodes, times |-> times, start |-> start, end |-> end, interval |-> interval,
   aggregate |-> aggregate, simple |-> simple, sloped |-> sloped, uncertainBad |-> uncertainBad, percentBad |-> 100,
   percentGood |-> 100, limit |-> limit, oneDay |-> oneDay]
At(simple, sloped, oneDay) ==
  Asked("at", <<1, 2>>, <<2, 3, 1>>, 0, 0, 0, "none", simple, sloped, FALSE, 3, oneDay)
Of(aggregate, start, end, interval, uncertainBad, limit) ==
  Asked("processed", <<1>>, << >>, start, end, interval, aggregate, FALSE, aggregate = "Interpolative", uncertainBad,
        limit, FALSE)
AggregateRequests ==
  {At(simple, sloped, oneDay) : simple, sloped, oneDay \in BOOLEAN}
    \cup {Of(a, 1, 4, 2, FALSE, 1) : a \in {"Interpolative", "Average", "TimeAverage", "Count", "Minimum", "Maximum",
                                            "Start", "End", "StandardDeviationSample", "Median"}}
    \cup {Of(a, 3, 0, 2, TRUE, 1) : a \in {"Interpolative", "TimeAverage", "Count", "Start"}}
    \cup {Of("Count", -8, 7, 4, FALSE, 2), Of("End", 7, -8, 6, TRUE, 9), Of("Count", 3, 3, 0, TRUE, 1)}

NodesOf == <<"a", "b", "a">>

\* Two groups of one store.
Store == INSTANCE HistStore WITH N <- 2, Hops <- {3}, MaxBuffer <- 1, Slack <- 1, MaxSeq <- 3, MaxChanges <- 1,
  MaxFlushes <- 1, sequence <- store_sequence, buffered <- store_buffered, asked <- store_asked, hop <- store_hop,
  owed <- store_owed, group <- store_group, trim <- store_trim, holder <- store_holder, changes <- store_changes,
  flushes <- store_flushes, back <- store_back
\* Two threads that add and remove groups of two names.
Owner == INSTANCE Historian WITH Names <- {"a", "b"}, Threads <- {"t1", "t2"}, Groups <- {"g1", "g2", "g3"},
  groups <- historian_groups, adding <- historian_adding, removed <- historian_removed, group <- historian_group,
  call <- historian_call
\* Reads of a scripted group's pages.
Reads == INSTANCE HistRead WITH Indexes <- {1, 2, 3}, NodeOf <- NodesOf, MaxTime <- 8, DayLength <- 3,
  Scripts <- Scripts, Requests <- ReadRequests, Limits <- {1, 2, 9}, MaxMoves <- 0, script <- read_script,
  g <- read_g, read <- read_read, got <- read_got, moves <- read_moves
\* Aggregates of a small history.
Aggregates == INSTANCE HistAggregates WITH Data <- Data, Requests <- AggregateRequests, Word <- 16, DayLength <- 3,
  ReadLimit <- 9, Text <- Text, data <- aggregate_data, r <- aggregate_r, next <- aggregate_next,
  had <- aggregate_had, got <- aggregate_got, phase <- aggregate_phase

storeVars == <<store_sequence, store_buffered, store_asked, store_hop, store_owed, store_group, store_trim,
  store_holder, store_changes, store_flushes, store_back>>
historianVars == <<historian_groups, historian_adding, historian_removed, historian_group, historian_call>>
readVars == <<read_script, read_g, read_read, read_got, read_moves>>
aggregateVars == <<aggregate_data, aggregate_r, aggregate_next, aggregate_had, aggregate_got, aggregate_phase>>
MCVars == <<part, vars, storeVars, historianVars, readVars, aggregateVars>>

\* A membership change, or a flush that delay or its size brings, beside the pushes.
StoreNext == Store!Next /\ (store_changes + store_flushes[1] + store_flushes[2] <= 1)'

MCInit ==
  /\ part \in {"flushed", "store", "historian", "read", "aggregate"}
  /\ Init
  /\ Store!Init
  /\ Owner!Init
  /\ \/ part = "read" /\ Reads!Init
     \/ part # "read" /\ read_script = 0 /\ read_g = 0 /\ read_read = 0 /\ read_got = 0 /\ read_moves = 0
  /\ \/ part = "aggregate" /\ Aggregates!Init
     \/ part # "aggregate" /\ aggregate_data = 0 /\ aggregate_r = 0 /\ aggregate_next = 0 /\ aggregate_had = 0 /\
        aggregate_got = 0 /\ aggregate_phase = 0

MCNext ==
  \/ part = "flushed" /\ Next /\ UNCHANGED <<part, storeVars, historianVars, readVars, aggregateVars>>
  \/ part = "store" /\ StoreNext /\ UNCHANGED <<part, vars, historianVars, readVars, aggregateVars>>
  \/ part = "historian" /\ Owner!Next /\ UNCHANGED <<part, vars, storeVars, readVars, aggregateVars>>
  \/ part = "read" /\ Reads!Next /\ UNCHANGED <<part, vars, storeVars, historianVars, aggregateVars>>
  \/ part = "aggregate" /\ Aggregates!Next /\ UNCHANGED <<part, vars, storeVars, historianVars, readVars>>

MCSpec == MCInit /\ [][MCNext]_MCVars

\* Store and Historian: a group past maxBuffer is seen by a trim (Store::Over), and a name has one group that owns
\* its files (Historian::Add, Remove).
CapIsKept ==
  /\ Store!TypeOK /\ Store!OverIsSeen
  /\ Owner!TypeOK /\ Owner!OneOwner

\* Group::Read: the pages of a read come to the records and bounds of its range in order, NoData only for a range
\* without any, and each file's start values hold the records before it.
ReadsAreTheHistory ==
  /\ part = "read" => Reads!TypeOK /\ Reads!PagesAreTheRead /\ Reads!NoDataIsTheReads /\ Reads!StartValuesHold

\* Group::ReadAtTime and ReadProcessed: bounds are the nearest records', an interval's aggregate is of its records,
\* time averages add up, and the pages come to the whole read.
AggregatesAreTheHistory ==
  /\ part = "aggregate" => Aggregates!TypeOK /\ Aggregates!BoundsAreTheNearest /\
       Aggregates!AggregatesAreTheRecords /\ Aggregates!AreasAddUp /\ Aggregates!PagesAreTheRead

\* Store::Trim drops the oldest first, and a page of a read begins where the one before ended (Reading::Continue).
OrderIsKept == [][Store!DropsOldest /\ (part = "read" => Reads!PageAdvances)]_<<storeVars, readVars>>
=============================================================================
