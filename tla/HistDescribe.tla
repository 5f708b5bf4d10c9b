----------------------------- MODULE HistDescribe -----------------------------
(***************************************************************************)
(* A hosted group's describes (HistGroupHost.cpp, Describe and             *)
(* Redescribe): what the source says of each member - DataType, display    *)
(* name, path, ranges - read in batches halved on a refusal as too many,   *)
(* kept by the host, shown to the endpoint and written to the member's     *)
(* row.  One describe is out at a time; the members asked for meanwhile    *)
(* wait for it.  What a source says of a member is a version of it.        *)
(***************************************************************************)
EXTENDS Naturals, Sequences, FiniteSets, SequencesExt, FiniteSetsExt

CONSTANTS Members,     \* numbers: a batch takes them in order
          Batch,       \* /gateway/hist/describeBatch
          Limit,       \* the nodes of a request the server takes; 0, not even one's operations
          MaxVersions, MaxBreaks, MaxRefusals

VARIABLES version,     \* the source's
          up,          \* the collector's client is registered
          node,        \* _nodes: Subscribed, Attributes (0 for none), Undescribed, Unwritten
          row,         \* the attributes each member's row holds
          batch,       \* _describeBatch
          describing, toDescribe,  \* _describing, _toDescribe
          d,           \* the describe that is out
          dropped,     \* the members let go with no client to describe them by
          count

vars == <<version, up, node, row, batch, describing, toDescribe, d, dropped, count>>

NoDescribe == [at |-> "none", all |-> << >>, start |-> 1, batch |-> 0, ids |-> << >>, rows |-> {}, unwritten |-> {}, next |-> FALSE]
Init ==
  /\ version = 1 /\ up = TRUE /\ batch = Batch /\ describing = FALSE /\ toDescribe = {} /\ d = NoDescribe
  /\ node = [m \in Members |-> [subscribed |-> FALSE, attributes |-> 0, undescribed |-> FALSE, unwritten |-> FALSE]]
  /\ row = [m \in Members |-> 0] /\ dropped = {} /\ count = [breaks |-> 0, refusals |-> 0]

\* Describe: the members begun, or left to the one that is out.
Begun(members) == [NoDescribe EXCEPT !.at = "begins", !.all = SetToSortSeq(members, <)]
\* Mutant of Describe: a second one goes beside the first.
DescribeOver(members) == describing' = TRUE /\ d' = Begun(members) /\ UNCHANGED toDescribe
Describe(members) ==
  IF describing THEN toDescribe' = toDescribe \cup members /\ UNCHANGED <<describing, d>>
  ELSE describing' = TRUE /\ d' = Begun(members) /\ UNCHANGED toDescribe

-----------------------------------------------------------------------------
(* Who asks: a pass that created the members' items, and the watch.        *)

Creates(members) ==
  /\ up /\ members # {} /\ \A m \in members : ~node[m].subscribed
  /\ node' = [m \in Members |-> IF m \in members THEN [node[m] EXCEPT !.subscribed = TRUE] ELSE node[m]]
  /\ Describe(members) /\ UNCHANGED <<version, up, row, batch, dropped, count>>

\* Redescribe: the members an answer of was lost, or refused.
Asked == {m \in Members : node[m].subscribed /\ node[m].undescribed}
Redescribe ==
  /\ up /\ Asked # {}
  /\ node' = [m \in Members |-> [node[m] EXCEPT !.undescribed = @ /\ m \notin Asked]]
  /\ Describe(Asked) /\ UNCHANGED <<version, up, row, batch, dropped, count>>

-----------------------------------------------------------------------------
(* The describe that is out.                                               *)

\* The group's batch is read once, as it begins.
Begins ==
  /\ d.at = "begins" /\ d' = [d EXCEPT !.at = "asks", !.batch = batch]
  /\ UNCHANGED <<version, up, node, row, batch, describing, toDescribe, dropped, count>>

Asks ==
  /\ d.at = "asks" /\ d.start <= Len(d.all)
  /\ d' = [d EXCEPT !.at = "asked", !.ids = SubSeq(d.all, d.start, Min({d.start + d.batch - 1, Len(d.all)}))]
  /\ UNCHANGED <<version, up, node, row, batch, describing, toDescribe, dropped, count>>

Halved(n) == Max({1, n \div 2})
\* Refused as too many: the batch halved, for the group, and the pass made again; one node's are lost.
TooMany ==
  /\ d.at = "asked" /\ up /\ Len(d.ids) > Limit /\ Len(d.ids) > 1
  /\ batch' = Min({batch, Halved(Len(d.ids))}) /\ d' = [d EXCEPT !.at = "asks", !.batch = Halved(Len(d.ids))]
  /\ UNCHANGED <<version, up, node, row, describing, toDescribe, dropped, count>>

\* Answered: each member takes what came, and is asked again for what did not; those changed, or unwritten, have their rows written.
Takes(read, all) ==
  LET taken(m) == [node[m] EXCEPT !.attributes = IF read THEN version ELSE @, !.undescribed = ~all]
      ids == Range(d.ids)
  IN  /\ node' = [m \in Members |-> IF m \in ids THEN taken(m) ELSE node[m]]
      /\ d' = [d EXCEPT !.at = "writes", !.unwritten = {},
                        !.rows = {m \in ids : node[m].unwritten \/ taken(m).attributes # node[m].attributes}]
      /\ UNCHANGED <<version, up, row, batch, describing, toDescribe, dropped>>
Answered == d.at = "asked" /\ up /\ Len(d.ids) <= Limit /\ Takes(TRUE, TRUE) /\ UNCHANGED count
\* One of the reads refused, or its answer lost; or every one, the connection down or a node's operations too many.
Refused ==
  /\ d.at = "asked" /\ up /\ count.refusals < MaxRefusals /\ count' = [count EXCEPT !.refusals = @ + 1]
  /\ Len(d.ids) <= Limit /\ \E read \in BOOLEAN : Takes(read, FALSE)
NoAnswer == d.at = "asked" /\ (~up \/ (Limit = 0 /\ Len(d.ids) = 1)) /\ Takes(FALSE, FALSE) /\ UNCHANGED count

\* A row's write, which may fail and leave the member unwritten.
Writes(m, written) ==
  /\ d.at = "writes" /\ m \in d.rows
  /\ written \/ count.refusals < MaxRefusals
  /\ count' = [count EXCEPT !.refusals = IF written THEN @ ELSE @ + 1]
  /\ row' = [row EXCEPT ![m] = IF written THEN node[m].attributes ELSE @]
  /\ d' = [d EXCEPT !.rows = @ \ {m}, !.unwritten = IF written THEN @ ELSE @ \cup {m}]
  /\ UNCHANGED <<version, up, node, batch, describing, toDescribe, dropped>>
\* Mutant of Written: a failed write is not kept.
WrittenOnly ==
  /\ d.at = "writes" /\ d.rows = {} /\ d' = [d EXCEPT !.at = "asks", !.start = @ + Len(d.ids)]
  /\ UNCHANGED <<version, up, node, row, batch, describing, toDescribe, dropped, count>>
Written ==
  /\ d.at = "writes" /\ d.rows = {} /\ d' = [d EXCEPT !.at = "asks", !.start = @ + Len(d.ids)]
  /\ node' = [m \in Members |-> IF m \in Range(d.ids) THEN [node[m] EXCEPT !.unwritten = m \in d.unwritten] ELSE node[m]]
  /\ UNCHANGED <<version, up, row, batch, describing, toDescribe, dropped, count>>

\* Every member asked: the client found, then, under the lock, the ones that waited - or the end, with no client or none waiting.
FindsClient ==
  /\ d.at = "asks" /\ d.start > Len(d.all) /\ d' = [d EXCEPT !.at = "ends", !.next = up]
  /\ UNCHANGED <<version, up, node, row, batch, describing, toDescribe, dropped, count>>
\* Mutant of Ends: the members that waited are left.
EndsAlone ==
  /\ d.at = "ends" /\ describing' = FALSE /\ d' = NoDescribe
  /\ UNCHANGED <<version, up, node, row, batch, toDescribe, dropped, count>>
Ends ==
  /\ d.at = "ends" /\ toDescribe' = {}
  /\ IF ~d.next \/ toDescribe = {}
     THEN describing' = FALSE /\ d' = NoDescribe /\ dropped' = dropped \cup toDescribe
     ELSE d' = Begun(toDescribe) /\ UNCHANGED <<describing, dropped>>
  /\ UNCHANGED <<version, up, node, row, batch, count>>

-----------------------------------------------------------------------------
(* The source and its connection.  A client lost has its items put back on *)
(* the next by the gateway (Reconnect), with no pass; a member abandoned,  *)
(* or whose namespace moved, is asked for by a pass again.                 *)

Changes == version < MaxVersions /\ version' = version + 1 /\ UNCHANGED <<up, node, row, batch, describing, toDescribe, d, dropped, count>>
Breaks ==
  /\ up /\ count.breaks < MaxBreaks /\ count' = [count EXCEPT !.breaks = @ + 1] /\ up' = FALSE
  /\ UNCHANGED <<version, node, row, batch, describing, toDescribe, d, dropped>>
Returns == ~up /\ up' = TRUE /\ UNCHANGED <<version, node, row, batch, describing, toDescribe, d, dropped, count>>
Resets(members) ==
  /\ members # {} /\ \A m \in members : node[m].subscribed
  /\ node' = [m \in Members |-> IF m \in members THEN [node[m] EXCEPT !.subscribed = FALSE] ELSE node[m]]
  /\ count.breaks < MaxBreaks /\ count' = [count EXCEPT !.breaks = @ + 1]
  /\ UNCHANGED <<version, up, row, batch, describing, toDescribe, d, dropped>>

Steps ==
  \/ Begins \/ Asks \/ TooMany \/ Answered \/ Refused \/ NoAnswer \/ Written \/ FindsClient \/ Ends
  \/ \E m \in Members, written \in BOOLEAN : Writes(m, written)
Next ==
  \/ \E members \in SUBSET Members : Creates(members) \/ Resets(members)
  \/ Redescribe \/ Steps \/ Changes \/ Breaks \/ Returns

Spec == Init /\ [][Next]_vars
\* The describe goes on, the watch runs, and a connection comes back; the source's refusals are few.
Fairness == WF_vars(Steps) /\ WF_vars(Redescribe) /\ WF_vars(Returns)
FairSpec == Spec /\ Fairness

-----------------------------------------------------------------------------
TypeOK ==
  /\ version \in 1..MaxVersions /\ batch \in 1..Batch /\ describing \in BOOLEAN /\ toDescribe \subseteq Members
  /\ node \in [Members -> [subscribed : BOOLEAN, attributes : 0..MaxVersions, undescribed : BOOLEAN, unwritten : BOOLEAN]]
  /\ (d.at = "none") = ~describing /\ row \in [Members -> 0..MaxVersions]

Coming(m) == m \in toDescribe \/ (describing /\ \E i \in d.start..Len(d.all) : d.all[i] = m)
\* A member with an item is described, or will be: in the describe that is out or waiting for it, or flagged for the watch, unless
\* it was let go with no client.
NoneForgotten == \A m \in Members : node[m].subscribed => node[m].attributes > 0 \/ node[m].undescribed \/ Coming(m) \/ m \in dropped

\* The same with no exception: "no client:  its next connect's pass describes every member" (HistGroupHost.cpp:664).
NoneEverForgotten == \A m \in Members : node[m].subscribed => node[m].attributes > 0 \/ node[m].undescribed \/ Coming(m)

\* With no describe out a member's row holds what the host and the endpoint show, unless its write failed and it is kept to write.
RowIsTheHosts == ~describing => \A m \in Members : row[m] = node[m].attributes \/ node[m].unwritten

\* A member being described, or waiting to be, is described in the end, whatever its server's limit - the batch comes down to what
\* it takes - or whichever answers were lost, unless its item went or it was let go with no client.
IsDescribed(m) == node[m].attributes > 0 \/ ~node[m].subscribed \/ m \in dropped
DescribedAtLast == \A m \in Members : Coming(m) ~> IsDescribed(m)
=============================================================================
