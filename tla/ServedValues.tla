----------------------------- MODULE ServedValues -----------------------------
(***************************************************************************)
(* The endpoint's cache of the members' last values (ServedValues.cpp) and *)
(* their namespaces: a value names a namespace by its index in the array   *)
(* its source had, the endpoint by an index of its own, given to each URI  *)
(* once and posted (Register).  Here: one group, its collector reading an  *)
(* array on each return of its connection, its members' values, losses,    *)
(* variables served and taken away, reads, and writes back to the source.  *)
(* A value is the one index it holds; its walk (remapData) finds them all. *)
(***************************************************************************)
EXTENDS Naturals, Sequences, FiniteSets, SequencesExt

CONSTANTS Members, Uris, Arrays, MaxChanges

VARIABLES array,     \* the source's NamespaceArray
          group,     \* _groups: whether it is held, its collector's last array, and its members' last values
          nodes,     \* _nodes: the members served
          indexes,   \* _indexes: the endpoint's index of each URI, 0 before it has one
          posted,    \* the arrays posted to be registered
          host,      \* the host: whether its array is read, its members, and the endpoint listening
          start,     \* where the endpoint's Start is
          meant,     \* of each member, the URI its last value named, and whether it was lost since
          write,     \* a write on its way to the source: its URI and the index it has now
          early,     \* the members whose value came before the cache had the group's array
          count

vars == <<array, group, nodes, indexes, posted, host, start, meant, write, early, count>>

NoValue == [ns |-> 0, uris |-> << >>, lost |-> FALSE, has |-> FALSE]
NoWrite == [state |-> "none", uri |-> "", ns |-> 0]

\* A host that loads after the endpoint listens has told it all; one loaded before is met by Start.
Init ==
  /\ array \in Arrays /\ nodes = {} /\ indexes = [u \in Uris |-> 0] /\ posted = << >>
  /\ \E listened \in BOOLEAN : host = [listening |-> listened, read |-> FALSE, joined |-> {}]
  /\ group = [uris |-> << >>, members |-> [m \in {} |-> NoValue]]
  /\ start = "no" /\ meant = [m \in Members |-> [uri |-> "", lost |-> FALSE]] /\ write = NoWrite /\ early = {} /\ count = 0

Counted == count < MaxChanges /\ count' = count + 1
Held == DOMAIN group.members

-----------------------------------------------------------------------------
(* The host's hooks and tap.                                               *)

\* Mutant of SetUris: the values held move to the new array.
SetUrisOver(g, uris) == [g EXCEPT !.uris = uris, !.members = [m \in DOMAIN @ |-> [@[m] EXCEPT !.uris = uris]]]
SetUris(g, uris) == [g EXCEPT !.uris = uris]
Store(g, m, ns) ==
  IF m \notin DOMAIN g.members THEN g ELSE [g EXCEPT !.members[m] = [ns |-> ns, uris |-> g.uris, lost |-> FALSE, has |-> TRUE]]
\* Mutant of Lose: a member with a value keeps its status.
LoseUnread(g) == [g EXCEPT !.members = [m \in DOMAIN @ |-> IF @[m].has THEN @[m] ELSE [@[m] EXCEPT !.lost = TRUE]]]
Lose(g) == [g EXCEPT !.members = [m \in DOMAIN @ |-> [@[m] EXCEPT !.lost = TRUE]]]
Joined(g, m) == IF m \in DOMAIN g.members THEN g ELSE [g EXCEPT !.members = [n \in DOMAIN @ \cup {m} |-> IF n = m THEN NoValue ELSE @[n]]]
Left(g, m) == [g EXCEPT !.members = [n \in DOMAIN @ \ {m} |-> @[n]]]

\* NodeJoined: told of before the member has an item.
Join(m) ==
  /\ Counted /\ m \notin host.joined /\ host' = [host EXCEPT !.joined = @ \cup {m}]
  /\ group' = IF host.listening THEN Joined(group, m) ELSE group
  /\ UNCHANGED <<array, nodes, indexes, posted, start, meant, write, early>>
Leave(m) ==
  /\ Counted /\ m \in host.joined /\ m \notin nodes /\ host' = [host EXCEPT !.joined = @ \ {m}]
  /\ group' = IF host.listening THEN Left(group, m) ELSE group
  /\ meant' = [meant EXCEPT ![m] = [uri |-> "", lost |-> FALSE]] /\ early' = early \ {m}
  /\ UNCHANGED <<array, nodes, indexes, posted, start, write>>
\* The collector's array, ahead of the values it brings; its namespaces posted.
NamespacesRead ==
  /\ Counted /\ ~host.read /\ host' = [host EXCEPT !.read = TRUE]
  /\ IF host.listening THEN group' = SetUris(group, array) /\ posted' = Append(posted, array) ELSE UNCHANGED <<group, posted>>
  /\ UNCHANGED <<array, nodes, indexes, start, meant, write, early>>
\* A value, which names a namespace of the array the source has.
ValueChanged(m, ns) ==
  /\ Counted /\ host.read /\ m \in host.joined /\ ns \in 1..Len(array)
  /\ group' = IF host.listening THEN Store(group, m, ns) ELSE group
  /\ meant' = IF host.listening /\ m \in Held THEN [meant EXCEPT ![m] = [uri |-> array[ns], lost |-> FALSE]] ELSE meant
  /\ early' = IF host.listening /\ m \in Held /\ group.uris = << >> /\ start # "done" THEN early \cup {m} ELSE early \ {m}
  /\ UNCHANGED <<array, nodes, indexes, posted, host, start, write>>
\* The connection breaks and comes back with the array it then has, which is read again before any value.
NodesLost(a) ==
  /\ Counted /\ array' = a /\ host' = [host EXCEPT !.read = FALSE]
  /\ group' = IF host.listening THEN Lose(group) ELSE group
  /\ meant' = [m \in Members |-> IF m \in Held /\ host.listening THEN [meant[m] EXCEPT !.lost = TRUE] ELSE meant[m]]
  /\ UNCHANGED <<nodes, indexes, posted, start, write, early>>

-----------------------------------------------------------------------------
(* The endpoint: it listens, starts - the hosts' members joined and        *)
(* served, then their arrays seeded - and registers what is posted.        *)

\* Each URI's index, given once.
RECURSIVE RegisterAll(_, _)
RegisterAll(known, uris) ==
  IF uris = << >> THEN known
  ELSE LET u == Head(uris)
           next == 1 + Cardinality({v \in Uris : known[v] > 0})
       IN  RegisterAll(IF known[u] > 0 THEN known ELSE [known EXCEPT ![u] = next], Tail(uris))

Listens ==
  /\ ~host.listening /\ start = "no" /\ host' = [host EXCEPT !.listening = TRUE]
  /\ UNCHANGED <<array, group, nodes, indexes, posted, start, meant, write, early, count>>
StartJoins ==
  /\ host.listening /\ start = "no" /\ start' = "joined" /\ nodes' = host.joined
  /\ group' = [group EXCEPT !.members = [m \in host.joined |-> IF m \in Held THEN @[m] ELSE NoValue]]
  /\ UNCHANGED <<array, indexes, posted, host, meant, write, early, count>>
\* Mutant of Seeded: the array is left to the next read.
SeededNone(g, uris) == g
Seeded(g, uris) == IF uris = << >> \/ g.uris # << >> THEN g ELSE [g EXCEPT !.uris = uris]
StartSeeds ==
  LET uris == IF host.read THEN array ELSE << >> IN
  /\ start = "joined" /\ start' = "done" /\ group' = Seeded(group, uris) /\ indexes' = RegisterAll(indexes, uris)
  /\ UNCHANGED <<array, nodes, posted, host, meant, write, early, count>>
Registers ==
  /\ start = "done" /\ posted # << >> /\ posted' = Tail(posted) /\ indexes' = RegisterAll(indexes, Head(posted))
  /\ UNCHANGED <<array, group, nodes, host, start, meant, write, early, count>>
\* A member's variable is served, and its variable taken away with the member's value kept.
Serve(m) ==
  /\ start = "done" /\ Counted /\ m \in host.joined /\ nodes' = IF m \in nodes THEN nodes \ {m} ELSE nodes \cup {m}
  /\ UNCHANGED <<array, group, indexes, posted, host, start, meant, write, early>>

\* Map, to the endpoint's index, and back to the source's; 0 where there is none.
ToEndpoint(value) == IF value.ns > Len(value.uris) THEN 0 ELSE indexes[value.uris[value.ns]]
FromEndpoint(uris, i) ==
  LET at == {n \in 1..Len(uris) : indexes[uris[n]] = i} IN IF i = 0 \/ at = {} THEN 0 ELSE CHOOSE n \in at : TRUE

\* A client's write of a NodeId in the endpoint's namespace for a URI: unmapped by the group's array now, refused where it won't go.
Written(m, u) ==
  /\ Counted /\ m \in nodes /\ write.state = "none" /\ indexes[u] > 0 /\ FromEndpoint(group.uris, indexes[u]) > 0
  /\ write' = [state |-> "queued", uri |-> u, ns |-> FromEndpoint(group.uris, indexes[u])]
  /\ UNCHANGED <<array, group, nodes, indexes, posted, host, start, meant, early>>
\* Forwarded over the connection as it then is.
Forwarded ==
  /\ write.state = "queued" /\ host.read /\ write' = [write EXCEPT !.state = "sent", !.ns = IF @ <= Len(array) /\ array[@] = write.uri THEN @ ELSE 0]
  /\ UNCHANGED <<array, group, nodes, indexes, posted, host, start, meant, early, count>>

Next ==
  \/ \E m \in Members : Join(m) \/ Leave(m) \/ Serve(m) \/ (\E ns \in 1..Cardinality(Uris) : ValueChanged(m, ns)) \/ \E u \in Uris : Written(m, u)
  \/ NamespacesRead \/ \E a \in Arrays : NodesLost(a)
  \/ Listens \/ StartJoins \/ StartSeeds \/ Registers \/ Forwarded

Spec == Init /\ [][Next]_vars

-----------------------------------------------------------------------------
TypeOK ==
  /\ array \in Arrays /\ group.uris \in Arrays \cup {<< >>} /\ Held \subseteq Members /\ nodes \subseteq Members
  /\ indexes \in [Uris -> 0..Cardinality(Uris)] /\ start \in {"no", "joined", "done"}

Value(m) == group.members[m]
\* A served member's read is of its last value: it names the namespace the source meant when it sent it, whatever array came since,
\* or is counted as unplaced; and with its array registered it is placed, unless it came before Start had seeded the array.
ReadsAsMeant ==
  \A m \in nodes \cap Held :
    Value(m).has =>
      /\ meant[m].uri # ""
      /\ ToEndpoint(Value(m)) \in {0, indexes[meant[m].uri]}
      /\ start = "done" /\ posted = << >> /\ m \notin early => ToEndpoint(Value(m)) > 0

\* A read answers Good only with a value that came after the connection's last loss.
GoodIsCurrent == \A m \in nodes \cap Held : Value(m).lost = meant[m].lost

\* A value that came with the array read is placed once it is registered, with no exception.
EveryValueIsPlaced ==
  \A m \in nodes \cap Held : Value(m).has /\ start = "done" /\ posted = << >> => ToEndpoint(Value(m)) > 0

\* A write reaches the source naming the namespace the client meant.
WrittenAsMeant == write.state = "sent" => write.ns > 0
=============================================================================
