----------------------------- MODULE NodeCrawl ------------------------------
(***************************************************************************)
(* NodeIndex::Crawl: the breadth-first walk under Objects behind the       *)
(* gateway's search.  A level of nodes is browsed in one request; the      *)
(* server may refuse it as too many, answer part of it, or refuse or cap   *)
(* single nodes.  Paths and names are left out.                            *)
(***************************************************************************)
EXTENDS Naturals, Sequences, FiniteSets, SequencesExt

CONSTANTS Root,        \* Objects
          Children,    \* [node -> sequence of its hierarchical references]
          Skipped,     \* Server, skipBrowseNames, names with '/'
          Browsable,   \* objects and variables
          MaxDepth, MaxNodes, BrowseBatch

VARIABLES pending,   \* queue of [id, depth, retried]
          level,     \* the nodes of the request in hand
          batch,
          depthOf,   \* seen -> depth; the entries are all of seen but Root
          truncated, refused, stop,
          state,     \* "browse", "visit", and LazySlot's "Ready" or "Failed"
          visited    \* history: nodes whose references were indexed, in order

vars == <<pending, level, batch, depthOf, truncated, refused, stop, state, visited>>

Nodes == DOMAIN Children
Seen == DOMAIN depthOf
Entries == Seen \ {Root}
AtLeastOne(n) == IF n = 0 THEN 1 ELSE n
Least(a, b) == IF a < b THEN a ELSE b

Init ==
  /\ pending = <<[id |-> Root, depth |-> 0, retried |-> FALSE]>>
  /\ level = <<>>
  /\ batch = AtLeastOne(BrowseBatch)
  /\ depthOf = [n \in {Root} |-> 0]
  /\ truncated = FALSE /\ refused = 0 /\ stop = FALSE
  /\ state = "browse"
  /\ visited = <<>>

Again(p) == [p EXCEPT !.retried = TRUE]

-----------------------------------------------------------------------------
Asking == state = "browse" /\ pending # <<>> /\ ~stop
Count == Least(batch, Len(pending))

\* BadTooManyOperations for the whole request: one node at a time from here on, or
\* the crawl fails when it already is.
TooMany ==
  /\ Asking
  /\ IF batch = 1 THEN state' = "Failed" /\ UNCHANGED batch
                  ELSE batch' = 1 /\ UNCHANGED state
  /\ UNCHANGED <<pending, level, depthOf, truncated, refused, stop, visited>>

\* The request fails otherwise.
BrowseFails ==
  /\ Asking
  /\ state' = "Failed"
  /\ UNCHANGED <<pending, level, batch, depthOf, truncated, refused, stop, visited>>

\* Mutant of Unanswered: what a short answer leaves out is not asked again.
UnansweredDropped(asked, n) == [again |-> <<>>, lost |-> <<>>]

\* The nodes past the n results of a short answer: once more, or given up.
Unanswered(asked, n) ==
  LET rest == SubSeq(asked, n + 1, Len(asked))
  IN  [again |-> SelectSeq(rest, LAMBDA p : ~p.retried), lost |-> SelectSeq(rest, LAMBDA p : p.retried)]

\* The response to a level answers n of its nodes.
Answered(n) ==
  /\ Asking
  /\ n <= Count
  /\ LET asked == SubSeq(pending, 1, Count)
         short == Unanswered(asked, n)
     IN  /\ level' = SubSeq(asked, 1, n)
         /\ batch' = IF n < Count THEN AtLeastOne(batch \div 2) ELSE batch
         /\ pending' = SubSeq(pending, Count + 1, Len(pending))
                         \o [i \in 1..Len(short.again) |-> Again(short.again[i])]
         /\ truncated' = (truncated \/ short.lost # <<>>)
         /\ refused' = refused + Len(short.lost)
  /\ state' = "visit"
  /\ UNCHANGED <<depthOf, stop, visited>>

-----------------------------------------------------------------------------
Visiting == state = "visit" /\ level # <<>> /\ ~stop
Parent == Head(level)

NodeLost ==
  /\ Visiting
  /\ state' = "Failed"
  /\ UNCHANGED <<pending, level, batch, depthOf, truncated, refused, stop, visited>>

\* Mutant of NodeRefused: a second transient refusal drops the node silently.
NodeRefusedQuietly(transient) ==
  /\ Visiting
  /\ level' = Tail(level)
  /\ IF transient
     THEN /\ batch' = AtLeastOne(batch \div 2)
          /\ pending' = IF Parent.retried THEN pending ELSE Append(pending, Again(Parent))
          /\ UNCHANGED <<truncated, refused>>
     ELSE /\ truncated' = TRUE /\ refused' = refused + 1
          /\ UNCHANGED <<batch, pending>>
  /\ UNCHANGED <<depthOf, stop, state, visited>>

\* Mutant of NodeRefused: a transient refusal is always retried.
NodeRefusedForever(transient) ==
  /\ Visiting
  /\ level' = Tail(level)
  /\ IF transient
     THEN /\ batch' = AtLeastOne(batch \div 2)
          /\ pending' = Append(pending, Again(Parent))
          /\ UNCHANGED <<truncated, refused>>
     ELSE /\ truncated' = TRUE /\ refused' = refused + 1
          /\ UNCHANGED <<batch, pending>>
  /\ UNCHANGED <<depthOf, stop, state, visited>>

\* A bad status of the node's own: once more if it is transient, else skipped.
NodeRefused(transient) ==
  /\ Visiting
  /\ level' = Tail(level)
  /\ IF transient /\ ~Parent.retried
     THEN /\ batch' = AtLeastOne(batch \div 2)
          /\ pending' = Append(pending, Again(Parent))
          /\ UNCHANGED <<truncated, refused>>
     ELSE /\ truncated' = TRUE /\ refused' = refused + 1
          /\ UNCHANGED <<batch, pending>>
  /\ UNCHANGED <<depthOf, stop, state, visited>>

\* Mutant of Fresh: a node another folder led to is taken again.
FreshOrNot(refs) == SelectSeq(refs, LAMBDA n : n \notin Skipped)

Fresh(refs) == SelectSeq(refs, LAMBDA n : n \notin Seen \cup Skipped)

\* The node's references, the first `returned` of them if the server capped the
\* folder; indexed up to maxNodes, and those that can hold more queued.
NodeVisited(returned) ==
  /\ Visiting
  /\ returned <= Len(Children[Parent.id])
  /\ LET fresh == Fresh(SubSeq(Children[Parent.id], 1, returned))
         room  == AtLeastOne(MaxNodes - Least(MaxNodes, Cardinality(Entries)))
         taken == SubSeq(fresh, 1, Least(room, Len(fresh)))
         depth == Parent.depth + 1
         below == SelectSeq(taken, LAMBDA n : n \in Browsable /\ depth < MaxDepth)
         found == {taken[i] : i \in 1..Len(taken)}
         full  == taken # <<>> /\ Cardinality(Entries \cup found) >= MaxNodes
     IN  /\ depthOf' = [n \in Seen \cup found |-> IF n \in Seen THEN depthOf[n] ELSE depth]
         /\ pending' = pending \o [i \in 1..Len(below) |-> [id |-> below[i], depth |-> depth, retried |-> FALSE]]
         /\ stop' = full
         /\ truncated' = (truncated \/ full \/ returned < Len(Children[Parent.id]))
  /\ level' = Tail(level)
  /\ visited' = Append(visited, Parent.id)
  /\ UNCHANGED <<batch, refused, state>>

\* The level is done: the continuation points are released, come what may.
LevelDone ==
  /\ state = "visit" /\ (level = <<>> \/ stop)
  /\ state' = "browse" /\ level' = <<>>
  /\ UNCHANGED <<pending, batch, depthOf, truncated, refused, stop, visited>>

\* Mutant of CrawlDone: an Objects that was refused makes a Ready, empty index.
CrawlDoneEmpty ==
  /\ state = "browse" /\ (pending = <<>> \/ stop)
  /\ state' = "Ready"
  /\ UNCHANGED <<pending, level, batch, depthOf, truncated, refused, stop, visited>>

CrawlDone ==
  /\ state = "browse" /\ (pending = <<>> \/ stop)
  /\ state' = IF Entries = {} /\ refused > 0 THEN "Failed" ELSE "Ready"
  /\ UNCHANGED <<pending, level, batch, depthOf, truncated, refused, stop, visited>>

MaxChildren == Cardinality(Nodes)

Next ==
  \/ TooMany \/ BrowseFails \/ \E n \in 0..BrowseBatch : Answered(n)
  \/ NodeLost \/ \E transient \in BOOLEAN : NodeRefused(transient)
  \/ \E returned \in 0..MaxChildren : NodeVisited(returned)
  \/ LevelDone \/ CrawlDone

Spec == Init /\ [][Next]_vars
Fairness == WF_vars(Next)
FairSpec == Spec /\ Fairness

-----------------------------------------------------------------------------
Pending == [id : Nodes, depth : 0..MaxDepth, retried : BOOLEAN]

TypeOK ==
  /\ \A i \in 1..Len(pending) : pending[i] \in Pending
  /\ \A i \in 1..Len(level) : level[i] \in Pending
  /\ batch \in 1..AtLeastOne(BrowseBatch)
  /\ Seen \subseteq Nodes
  /\ truncated \in BOOLEAN /\ stop \in BOOLEAN /\ refused \in Nat
  /\ state \in {"browse", "visit", "Ready", "Failed"}

\* An index that does not say it is truncated holds every child of every node it
\* holds down to maxDepth, whatever the server refused, capped or half answered.
CompleteOrTruncated ==
  state = "Ready" /\ ~truncated =>
    \A n \in Seen : (n \in Browsable \cup {Root}) /\ depthOf[n] < MaxDepth =>
      \A i \in 1..Len(Children[n]) : Children[n][i] \in Seen \cup Skipped

\* A node is browsed from one place in the queue, and its references are indexed
\* once, so references that cycle do not make the crawl go round.
EachNodeOnce ==
  LET queued == visited \o [i \in 1..Len(level) |-> level[i].id] \o [i \in 1..Len(pending) |-> pending[i].id]
  IN  \A i, j \in 1..Len(queued) : queued[i] = queued[j] => i = j

\* A Ready index with nothing in it is the server's answer for Objects, not a
\* refusal that would be served as "no such node" until a refresh.
EmptyIsAnswered == state = "Ready" /\ Entries = {} => visited = <<Root>>

\* The crawl ends, and so the searches parked on it are answered.
HasEnded == state \in {"Ready", "Failed"}
CrawlEnds == <>HasEnded
=============================================================================
