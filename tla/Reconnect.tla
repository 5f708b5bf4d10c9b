----------------------------- MODULE Reconnect ------------------------------
(***************************************************************************)
(* What the gateway does for its subscribers when a connection or a        *)
(* session goes (UAClient.cpp): a dying client's monitored nodes are       *)
(* parked, one chain per slug and credential reconnects, and a rebuild     *)
(* puts the nodes back on the new client, or on the same client's new      *)
(* session, while subscribers subscribe, unsubscribe and close.            *)
(* One slug and credential.  A step is a hold of _pendingMutex, or a       *)
(* stretch of a coroutine between two awaits.  A pair is a listener and a  *)
(* node it monitors.                                                       *)
(***************************************************************************)
EXTENDS Naturals, FiniteSets

CONSTANTS Listeners, Nodes,
          MaxRejections,  \* in a row, after which a chain gives up
          MaxClients,     \* bound: the clients of a run; the last one stays up
          MaxSessions,    \* bound: the sessions lost under a live client
          MaxAway,        \* bound: connects that find the server away
          MaxAsks         \* bound: subscribes and unsubscribes

VARIABLES client,   \* the clients made so far
          pending,  \* the key's entry of _pending
          chain,    \* the reconnect chains running
          rebuild,  \* _rebuilds, and where each one's coroutine is
          want,     \* pairs subscribed: neither left, refused nor given up
          left,     \* pairs whose unsubscribe was answered
          slipped,  \* pairs a rebuild's create asked for between their unsubscribe's walk and its last purge
          closed,   \* listeners that closed
          ask,      \* the unsubscribe that is running
          count,    \* sessions lost, connects failed, asks made
          phase     \* of the shutdown

vars == <<client, pending, chain, rebuild, want, left, slipped, closed, ask, count, phase>>

Pairs == Listeners \X Nodes
Clients == 1..MaxClients
Rebuilds == 1..2        \* at a time
Chains == 1..2
NoClient == [connected |-> FALSE, discarded |-> FALSE, registered |-> FALSE, made |-> FALSE, items |-> {}]
NoEntry == [entry |-> FALSE, nodes |-> {}, rejections |-> 0]
NoRebuild == [pc |-> "none", client |-> 0, nodes |-> {}, out |-> {}, asked |-> {}, restored |-> {}, dropped |-> {}, session |-> FALSE]
NoAsk == [pc |-> "none", pairs |-> {}, close |-> FALSE, todo |-> {}]

Init ==
  /\ client = [c \in Clients |-> NoClient]
  /\ pending = NoEntry
  /\ chain = [k \in Chains |-> [pc |-> "none", client |-> 0]]
  /\ rebuild = [r \in Rebuilds |-> NoRebuild]
  /\ want = {} /\ left = {} /\ slipped = {} /\ closed = {}
  /\ ask = NoAsk
  /\ count = [sessions |-> 0, away |-> 0, asks |-> 0]
  /\ phase = "running"

ShuttingDown == phase # "running"
Least(S) == CHOOSE x \in S : \A y \in S : x <= y
Fresh == {c \in Clients : ~client[c].made}
Registered == {c \in Clients : client[c].registered}
Rebuilt == UNION {rebuild[r].nodes : r \in Rebuilds}
On(c) == {r \in Rebuilds : rebuild[r].client = c}
FreeRebuilds == {r \in Rebuilds : rebuild[r].pc = "none"}
Running == {k \in Chains : chain[k].pc # "none"}

-----------------------------------------------------------------------------
(* _pending.                                                               *)

\* parkLocked: the entry's existence says that a chain runs.
Parks(pairs) == pairs # {} /\ ~ShuttingDown /\ ~pending.entry

\* Mutant of ParkLocked: the nodes parked before are overwritten.
ParkOver(pairs) ==
  /\ pending' = IF pairs = {} \/ ShuttingDown THEN pending
                ELSE [pending EXCEPT !.entry = TRUE, !.nodes = pairs]
  /\ chain' = IF Parks(pairs) THEN [chain EXCEPT ![Least(Chains \ Running)] = [pc |-> "start", client |-> 0]] ELSE chain

\* Mutant of ParkLocked: ShuttingDown is not looked at.
ParkLate(pairs) ==
  /\ pending' = IF pairs = {} THEN pending
                ELSE [pending EXCEPT !.entry = TRUE, !.nodes = @ \cup pairs]
  /\ chain' = IF Parks(pairs) THEN [chain EXCEPT ![Least(Chains \ Running)] = [pc |-> "start", client |-> 0]] ELSE chain

ParkLocked(pairs) ==
  /\ pending' = IF pairs = {} \/ ShuttingDown THEN pending
                ELSE [pending EXCEPT !.entry = TRUE, !.nodes = @ \cup pairs]
  /\ chain' = IF Parks(pairs) THEN [chain EXCEPT ![Least(Chains \ Running)] = [pc |-> "start", client |-> 0]] ELSE chain

\* TakeForResubscribe: what the rebuilds b have out on the client comes to nothing.
Taken(b, c) == [r \in Rebuilds |-> IF b[r].client = c /\ b[r].pc = "create" THEN [b[r] EXCEPT !.out = {}] ELSE b[r]]

\* Mutant of StashPending: what the client monitored is not parked.
StashNothing(c, b) ==
  /\ client' = [client EXCEPT ![c].connected = FALSE, ![c].items = IF ShuttingDown THEN @ ELSE {}]
  /\ rebuild' = IF ShuttingDown THEN b ELSE Taken(b, c)
  /\ ParkLocked({})

\* Taken, parked and disconnected under the one lock; b is what else becomes of the rebuilds.
StashPending(c, b) ==
  /\ client' = [client EXCEPT ![c].connected = FALSE, ![c].items = IF ShuttingDown THEN @ ELSE {}]
  /\ rebuild' = IF ShuttingDown THEN b ELSE Taken(b, c)
  /\ ParkLocked(IF ShuttingDown THEN {} ELSE client[c].items)

-----------------------------------------------------------------------------
(* Clients.                                                                *)

NewClient == [NoClient EXCEPT !.connected = TRUE, !.registered = TRUE, !.made = TRUE]

\* Some request's connect.
Connects ==
  /\ Registered = {} /\ Fresh # {} /\ ~ShuttingDown
  /\ client' = [client EXCEPT ![Least(Fresh)] = NewClient]
  /\ UNCHANGED <<pending, chain, rebuild, want, left, slipped, closed, ask, count, phase>>

\* ConnectionLost: run_iterate failed, a submission was refused, or the row was edited.  (A removed
\* client's loop is taken to be stopped at once: what fails between the two is left out.)
ConnectionLost(c) ==
  /\ client[c].registered /\ ~client[c].discarded /\ c < MaxClients
  /\ StashPending(c, rebuild)
  /\ UNCHANGED <<want, left, slipped, closed, ask, count, phase>>

\* RemoveClient: what it monitored is forgotten.
RemoveClient(c) ==
  /\ client[c].registered /\ ~client[c].discarded /\ c < MaxClients
  /\ client' = [client EXCEPT ![c].discarded = TRUE, ![c].connected = FALSE]
  /\ want' = want \ client[c].items
  /\ UNCHANGED <<pending, chain, rebuild, left, slipped, closed, ask, count, phase>>

\* The end of either.
Deregister(c) ==
  /\ client[c].registered /\ ~client[c].connected
  /\ client' = [client EXCEPT ![c].registered = FALSE]
  /\ UNCHANGED <<pending, chain, rebuild, want, left, slipped, closed, ask, count, phase>>

\* A stretch of a rebuild that holds the client's strand.
OnStrand(r) == rebuild[r].pc \in {"decide", "drop", "purge"}

StartRebuild(c, pairs) == [NoRebuild EXCEPT !.pc = "start", !.client = c, !.nodes = pairs]

\* Resubscribe: the client's session is another, or its subscription timed out.
Resubscribe(c) ==
  /\ client[c].registered /\ client[c].connected /\ ~ShuttingDown
  /\ count.sessions < MaxSessions /\ FreeRebuilds # {}
  /\ \A r \in On(c) : ~OnStrand(r)
  /\ count' = [count EXCEPT !.sessions = @ + 1]
  /\ client' = [client EXCEPT ![c].items = {}]
  /\ rebuild' = IF client[c].items = {} THEN Taken(rebuild, c)
                ELSE [Taken(rebuild, c) EXCEPT ![Least(FreeRebuilds)] = StartRebuild(c, client[c].items)]
  /\ UNCHANGED <<pending, chain, want, left, slipped, closed, ask, phase>>

-----------------------------------------------------------------------------
(* resubscribe.                                                            *)

Goto(r, pc) == rebuild' = [rebuild EXCEPT ![r].pc = pc]

Connected(r) == client[rebuild[r].client].connected

\* A subscription is asked for, if there is anything to put back on the client.
Begin(r) ==
  /\ rebuild[r].pc = "start"
  /\ Goto(r, IF Connected(r) /\ rebuild[r].nodes # {} THEN "subscribe" ELSE "next")
  /\ UNCHANGED <<client, pending, chain, want, left, slipped, closed, ask, count, phase>>

\* declareLost: the status says that the connection went, before anything else had noticed.
Declares(r, status) == status = "closed" /\ Connected(r) /\ ~client[rebuild[r].client].discarded

\* It is made, refused, or the connection or the session went.
Subscribed(r, status) ==
  /\ rebuild[r].pc = "subscribe"
  /\ LET next == [rebuild EXCEPT ![r].pc = IF status = "good" THEN "next" ELSE "finish", ![r].session = status = "session"]
     IN  IF Declares(r, status) THEN rebuild[r].client < MaxClients /\ StashPending(rebuild[r].client, next)
         ELSE rebuild' = next /\ UNCHANGED <<client, pending, chain>>
  /\ UNCHANGED <<want, left, slipped, closed, ask, count, phase>>

\* One listener's nodes are read, not taken, and a create is sent for them.
Create(r) ==
  /\ rebuild[r].pc = "next"
  /\ IF Connected(r) /\ rebuild[r].nodes # {}
     THEN \E l \in {p[1] : p \in rebuild[r].nodes} :
            LET asked == {p \in rebuild[r].nodes : p[1] = l}
            IN  /\ rebuild' = [rebuild EXCEPT ![r].pc = "create", ![r].asked = asked, ![r].out = asked]
                /\ slipped' = IF ask.pc = "walk" /\ rebuild[r].client \notin ask.todo
                              THEN slipped \cup (asked \cap ask.pairs) ELSE slipped
     ELSE Goto(r, "finish") /\ UNCHANGED slipped
  /\ UNCHANGED <<client, pending, chain, want, left, closed, ask, count, phase>>

\* The create answers: what is good of what is still out is on the client.
Created(r, good, status) ==
  /\ rebuild[r].pc = "create"
  /\ good \subseteq rebuild[r].out /\ (good # {} => status = "answered" /\ client[rebuild[r].client].registered)
  /\ LET next == [rebuild EXCEPT ![r].pc = "decide", ![r].out = {}, ![r].restored = good, ![r].session = status = "session"]
     IN  IF Declares(r, status) THEN rebuild[r].client < MaxClients /\ StashPending(rebuild[r].client, next)
         ELSE /\ rebuild' = next
              /\ client' = [client EXCEPT ![rebuild[r].client].items = @ \cup good]
              /\ UNCHANGED <<pending, chain>>
  /\ UNCHANGED <<want, left, slipped, closed, ask, count, phase>>

\* Mutant of Decide: a client that died is read as a server that refused.
DecideRefused(r) ==
  /\ rebuild[r].pc = "decide"
  /\ LET b == rebuild[r]
         wanted == b.nodes \cap b.asked
         dropped == b.restored \ wanted
     IN  /\ UNCHANGED <<pending, chain, want>>
         /\ rebuild' = [rebuild EXCEPT ![r] = [b EXCEPT !.nodes = @ \ b.asked,
              !.dropped = dropped, !.pc = IF dropped = {} THEN "next" ELSE "drop", !.asked = {}, !.restored = {}, !.session = FALSE]]
  /\ UNCHANGED <<client, left, slipped, closed, ask, count, phase>>

\* Under _pendingMutex: the listener leaves the rebuild.  Good and still wanted is restored; good and
\* not wanted has to go; of the rest, a client that died parks it, a live one was refused it.
Decide(r) ==
  /\ rebuild[r].pc = "decide"
  /\ LET b == rebuild[r]
         wanted == b.nodes \cap b.asked
         rest == b.nodes \ b.asked
         dropped == b.restored \ wanted
         parks == ~client[b.client].connected /\ ~client[b.client].discarded
         parked == IF parks THEN rest \cup (wanted \ b.restored) ELSE {}
     IN  /\ ParkLocked(parked)
         /\ want' = IF parks THEN want ELSE want \ (IF client[b.client].discarded THEN wanted ELSE wanted \ b.restored)
         /\ rebuild' = [rebuild EXCEPT ![r] = [b EXCEPT !.nodes = IF parks THEN {} ELSE rest,
              !.dropped = dropped, !.pc = IF dropped = {} THEN "next" ELSE "drop", !.asked = {}, !.restored = {}, !.session = FALSE]]
  /\ UNCHANGED <<client, left, slipped, closed, ask, count, phase>>

\* The client's Unsubscribe of the dropped, then UnsubscribePending.
Drop(r) ==
  /\ rebuild[r].pc = "drop"
  /\ client' = [client EXCEPT ![rebuild[r].client].items = @ \ rebuild[r].dropped]
  /\ rebuild' = [q \in Rebuilds |-> IF q = r THEN [rebuild[q] EXCEPT !.pc = "purge"]
                                    ELSE IF rebuild[q].client = rebuild[r].client THEN [rebuild[q] EXCEPT !.out = @ \ rebuild[r].dropped]
                                    ELSE rebuild[q]]
  /\ UNCHANGED <<pending, chain, want, left, slipped, closed, ask, count, phase>>

Purge(r) ==
  /\ rebuild[r].pc = "purge"
  /\ pending' = [pending EXCEPT !.nodes = @ \ rebuild[r].dropped]
  /\ rebuild' = [q \in Rebuilds |-> [rebuild[q] EXCEPT !.nodes = @ \ rebuild[r].dropped,
                                       !.pc = IF q = r THEN "next" ELSE @, !.dropped = IF q = r THEN {} ELSE @]]
  /\ UNCHANGED <<client, chain, want, left, slipped, closed, ask, count, phase>>

\* Mutant of Finish: what was never attempted is dropped, whether or not the client died.
FinishDrops(r) ==
  /\ rebuild[r].pc = "finish"
  /\ rebuild' = [rebuild EXCEPT ![r] = NoRebuild]
  /\ UNCHANGED <<client, pending, chain, want, left, slipped, closed, ask, count, phase>>

\* What was never attempted: parked when the client died, else refused with the subscription.
Finish(r) ==
  /\ rebuild[r].pc = "finish"
  /\ LET c == client[rebuild[r].client]
     IN  /\ ParkLocked(IF ~c.connected /\ ~c.discarded THEN rebuild[r].nodes ELSE {})
         /\ want' = IF c.connected \/ c.discarded THEN want \ rebuild[r].nodes ELSE want
  /\ rebuild' = [rebuild EXCEPT ![r] = NoRebuild]
  /\ UNCHANGED <<client, left, slipped, closed, ask, count, phase>>

-----------------------------------------------------------------------------
(* waitThenConnect and connectPending.                                     *)

Ends(k) == chain' = [chain EXCEPT ![k] = [pc |-> "none", client |-> 0]]

\* The wait begins, registered in the entry.
Wait(k) ==
  /\ chain[k].pc = "start"
  /\ IF ~ShuttingDown /\ pending.entry THEN chain' = [chain EXCEPT ![k].pc = "wait"] ELSE Ends(k)
  /\ UNCHANGED <<client, pending, rebuild, want, left, slipped, closed, ask, count, phase>>

\* It ends, or is cancelled: nothing left to restore ends the chain.
Wakes(k) ==
  /\ chain[k].pc = "wait"
  /\ IF ~ShuttingDown /\ pending.nodes # {}
     THEN chain' = [chain EXCEPT ![k].pc = "connect"] /\ UNCHANGED pending
     ELSE Ends(k) /\ pending' = IF ShuttingDown THEN pending ELSE NoEntry
  /\ UNCHANGED <<client, rebuild, want, left, slipped, closed, ask, count, phase>>

\* GetClient: the registered client, or a new one.
GetClient(k) ==
  /\ chain[k].pc = "connect"
  /\ \/ \E c \in Registered : chain' = [chain EXCEPT ![k] = [pc |-> "got", client |-> c]] /\ UNCHANGED client
     \/ /\ Registered = {} /\ Fresh # {} /\ ~ShuttingDown
        /\ client' = [client EXCEPT ![Least(Fresh)] = NewClient]
        /\ chain' = [chain EXCEPT ![k] = [pc |-> "got", client |-> Least(Fresh)]]
  /\ UNCHANGED <<pending, rebuild, want, left, slipped, closed, ask, count, phase>>

\* From _pending into _rebuilds under one lock; the chain ends.
Restore(k) ==
  /\ chain[k].pc = "got"
  /\ LET c == chain[k].client
     IN  IF ShuttingDown
         THEN /\ client' = [client EXCEPT ![c].discarded = TRUE, ![c].connected = FALSE]
              /\ UNCHANGED <<pending, rebuild>>
         ELSE /\ FreeRebuilds # {}
              /\ pending' = NoEntry
              /\ rebuild' = IF pending.nodes = {} THEN rebuild
                            ELSE [rebuild EXCEPT ![Least(FreeRebuilds)] = StartRebuild(c, pending.nodes)]
              /\ UNCHANGED client
  /\ Ends(k)
  /\ UNCHANGED <<want, left, slipped, closed, ask, count, phase>>

\* Mutant of Fails: rejections are retried for ever.
FailsForever(k, rejected) ==
  /\ chain[k].pc = "connect" /\ Registered = {}
  /\ ~rejected => count.away < MaxAway
  /\ count' = IF rejected THEN count ELSE [count EXCEPT !.away = @ + 1]
  /\ IF ShuttingDown THEN Ends(k) ELSE chain' = [chain EXCEPT ![k].pc = "start"]
  /\ UNCHANGED <<client, pending, rebuild, want, left, slipped, closed, ask, phase>>

\* A connect that failed: isRejection counts, MaxRejections in a row give up.
Fails(k, rejected) ==
  /\ chain[k].pc = "connect" /\ Registered = {}
  /\ ~rejected => count.away < MaxAway
  /\ count' = IF rejected THEN count ELSE [count EXCEPT !.away = @ + 1]
  /\ LET rejections == IF rejected THEN pending.rejections + 1 ELSE 0
     IN  IF pending.entry /\ rejections < MaxRejections
         THEN /\ pending' = [pending EXCEPT !.rejections = rejections]
              /\ IF ShuttingDown THEN Ends(k) ELSE chain' = [chain EXCEPT ![k].pc = "start"]
              /\ UNCHANGED want
         ELSE /\ pending' = NoEntry /\ want' = want \ pending.nodes
              /\ Ends(k)
  /\ UNCHANGED <<client, rebuild, left, slipped, closed, ask, phase>>

-----------------------------------------------------------------------------
(* Subscribers.                                                            *)

\* A subscribe whose create the live client answered.
Subscribe(p) ==
  /\ p \notin want \cup ask.pairs /\ p[1] \notin closed /\ count.asks < MaxAsks
  /\ \E c \in Registered :
       /\ client[c].connected
       /\ \A r \in On(c) : ~OnStrand(r)
       /\ client' = [client EXCEPT ![c].items = @ \cup {p}]
  /\ want' = want \cup {p} /\ left' = left \ {p}
  /\ count' = [count EXCEPT !.asks = @ + 1]
  /\ UNCHANGED <<pending, chain, rebuild, slipped, closed, ask, phase>>

\* Mutant of PurgePending: an entry with nothing left to restore is erased.
PurgeErases(pairs) ==
  /\ pending' = IF pending.nodes \subseteq pairs THEN NoEntry ELSE [pending EXCEPT !.nodes = @ \ pairs]
  /\ rebuild' = [r \in Rebuilds |-> [rebuild[r] EXCEPT !.nodes = @ \ pairs]]

\* PurgePending and UnsubscribePending: the nodes only, never the entry.
PurgePending(pairs) ==
  /\ pending' = [pending EXCEPT !.nodes = @ \ pairs]
  /\ rebuild' = [r \in Rebuilds |-> [rebuild[r] EXCEPT !.nodes = @ \ pairs]]

\* The by-node unsubscribe looks on the live clients; the close of a listener purges, then looks on all.
Unsubscribe(pairs, close) ==
  /\ ask.pc = "none" /\ count.asks < MaxAsks
  /\ pairs # {} /\ pairs \subseteq want
  /\ IF close
     THEN /\ PurgePending(pairs) /\ ask' = [NoAsk EXCEPT !.pc = "purged", !.pairs = pairs, !.close = TRUE]
          /\ closed' = closed \cup {p[1] : p \in pairs}
     ELSE /\ ask' = [NoAsk EXCEPT !.pc = "walk", !.pairs = pairs, !.todo = {c \in Registered : client[c].connected}]
          /\ UNCHANGED <<pending, rebuild, closed>>
  /\ want' = want \ pairs
  /\ count' = [count EXCEPT !.asks = @ + 1]
  /\ UNCHANGED <<client, chain, left, slipped, phase>>

ClientsToWalk ==
  /\ ask.pc = "purged"
  /\ ask' = [ask EXCEPT !.pc = "walk", !.todo = Registered]
  /\ UNCHANGED <<client, pending, chain, rebuild, want, left, slipped, closed, count, phase>>

\* UAMonitoringNodes::Unsubscribe: off the items, and cancelled in the creates still out.
WalkClient(c) ==
  /\ ask.pc = "walk" /\ c \in ask.todo
  /\ ask' = [ask EXCEPT !.todo = @ \ {c}]
  /\ client' = [client EXCEPT ![c].items = @ \ ask.pairs]
  /\ rebuild' = [r \in Rebuilds |-> IF r \in On(c) THEN [rebuild[r] EXCEPT !.out = @ \ ask.pairs] ELSE rebuild[r]]
  /\ UNCHANGED <<pending, chain, want, left, slipped, closed, count, phase>>

\* Mutant of Walked: the close does not purge again after the walk.
WalkedOnce ==
  /\ ask.pc = "walk" /\ ask.todo = {}
  /\ IF ask.close THEN UNCHANGED <<pending, rebuild>> ELSE PurgePending(ask.pairs)
  /\ left' = left \cup ask.pairs
  /\ ask' = NoAsk
  /\ UNCHANGED <<client, chain, want, slipped, closed, count, phase>>

\* Then what is parked, or being put back; and the answer.
Walked ==
  /\ ask.pc = "walk" /\ ask.todo = {}
  /\ PurgePending(ask.pairs)
  /\ left' = left \cup ask.pairs
  /\ ask' = NoAsk
  /\ UNCHANGED <<client, chain, want, slipped, closed, count, phase>>

-----------------------------------------------------------------------------
ShutDown ==
  /\ phase = "running"
  /\ phase' = "stopping"
  /\ UNCHANGED <<client, pending, chain, rebuild, want, left, slipped, closed, ask, count>>

StopReconnects ==
  /\ phase = "stopping"
  /\ phase' = "stopped"
  /\ pending' = NoEntry
  /\ UNCHANGED <<client, chain, rebuild, want, left, slipped, closed, ask, count>>

-----------------------------------------------------------------------------
Rebuilding(r) ==
  \/ Begin(r) \/ Create(r) \/ Decide(r) \/ Drop(r) \/ Purge(r) \/ Finish(r)
  \/ \E status \in {"good", "refused", "closed", "session"} : Subscribed(r, status)
  \/ \E good \in SUBSET rebuild[r].out, status \in {"answered", "closed", "session"} : Created(r, good, status)

Reconnecting(k) == Wait(k) \/ Wakes(k) \/ GetClient(k) \/ Restore(k) \/ \E rejected \in BOOLEAN : Fails(k, rejected)

Next ==
  \/ Connects
  \/ \E c \in Clients : ConnectionLost(c) \/ RemoveClient(c) \/ Deregister(c) \/ Resubscribe(c) \/ WalkClient(c)
  \/ \E r \in Rebuilds : Rebuilding(r)
  \/ \E k \in Chains : Reconnecting(k)
  \/ \E p \in Pairs : Subscribe(p) \/ Unsubscribe({p}, FALSE)
  \/ \E l \in Listeners : Unsubscribe({p \in want : p[1] = l}, TRUE)
  \/ ClientsToWalk \/ Walked
  \/ ShutDown \/ StopReconnects

\* Coroutines run on, timers fire, requests are answered.
Fairness ==
  /\ \A c \in Clients : WF_vars(Deregister(c))
  /\ \A r \in Rebuilds : WF_vars(Rebuilding(r))
  /\ \A k \in Chains : WF_vars(Reconnecting(k))
  /\ WF_vars(ClientsToWalk \/ Walked \/ \E c \in Clients : WalkClient(c))

Spec == Init /\ [][Next]_vars
FairSpec == Spec /\ Fairness

-----------------------------------------------------------------------------
TypeOK ==
  /\ \A c \in Clients : client[c].items \subseteq Pairs /\ (client[c].connected => client[c].made)
  /\ pending.nodes \subseteq Pairs /\ pending.rejections \in 0..MaxRejections /\ (pending.nodes # {} => pending.entry)
  /\ \A k \in Chains : chain[k].pc \in {"none", "start", "wait", "connect", "got"}
  /\ \A r \in Rebuilds : /\ rebuild[r].pc \in {"none", "start", "subscribe", "next", "create", "decide", "drop", "purge", "finish"}
                         /\ rebuild[r].out \subseteq rebuild[r].asked /\ rebuild[r].nodes \subseteq Pairs
  /\ want \cup left \subseteq Pairs /\ closed \subseteq Listeners

Live(c) == client[c].connected

\* An entry of _pending has one chain running on it, and no chain runs without one: two would restore
\* the nodes twice, none would leave them parked (parkLocked, PurgePending).
OneChainPerEntry == phase = "running" => Cardinality(Running) = (IF pending.entry THEN 1 ELSE 0)

\* What a listener subscribed and did not leave is on a live client, parked, or being put back, unless
\* a live server refused it, the chain gave up, its client was removed or the process stops.
WantedIsHeld ==
  phase = "running" =>
    want \ slipped \subseteq pending.nodes \cup Rebuilt \cup UNION {client[c].items : c \in {d \in Clients : Live(d)}}

\* A rebuild is about to take it off again.
Undone(p) == \E r \in Rebuilds : OnStrand(r) /\ p \in (rebuild[r].restored \ rebuild[r].nodes) \cup rebuild[r].dropped

Gone(p) ==
  /\ p \notin Rebuilt
  /\ p \in pending.nodes => Undone(p)
  /\ \A c \in Clients : Live(c) /\ p \in client[c].items => Undone(p)

\* What a listener left, by node or by closing, does not come back: neither parked nor being put back,
\* nor on a live client, but for what a rebuild is about to take off again; unless a rebuild's create
\* was sent between the unsubscribe's walk over the clients and its look at what is parked.
LeftStaysLeft == \A p \in left \ slipped : Gone(p)

\* The same with no exception, as UAClient::Unsubscribe's comment has it: "whatever it took before the
\* walk reached that client is parked by now, and whatever it takes after, the walk had already removed".
LeftIsGone == \A p \in left : Gone(p)

\* A rebuild drops a node on a live client only because the server refused it, as resubscribe's comment
\* has it: "every node ends one of four ways - restored, refused by a live server (a retry would be refused
\* again), unsubscribed meanwhile, or parked for the reconnect chain because the client died".
OneOfFourWays ==
  [][\A r \in Rebuilds : rebuild[r].session /\ Live(rebuild[r].client) /\ ~rebuild'[r].session =>
       rebuild[r].nodes \cap want \subseteq want']_vars

\* Nothing is parked once StopReconnects has cleared _pending.
NothingParkedAtEnd == phase = "stopped" => ~pending.entry

\* A subscription that is lost comes back, unless it is given up on one of the ways above.
IsServed(p) ==
  \/ p \notin want \ slipped \/ phase # "running"
  \/ \E c \in Clients : Live(c) /\ p \in client[c].items
SubscriptionsComeBack == \A p \in Pairs : []<>IsServed(p)
=============================================================================
