--------------------------- MODULE MonitoredItems ---------------------------
(***************************************************************************)
(* One client's monitored items (UAMonitoringNodes) and the subscription   *)
(* they are on (SubscribeAwait, DataChangeAwait, DeleteMonitoring): the    *)
(* gateway's books beside the server's own.  Listeners subscribe and       *)
(* unsubscribe from the web threads, answers arrive on the strand in the   *)
(* order the requests were sent, and an item nobody listens to is deleted  *)
(* a second later, with the subscription if it was the last.               *)
(* The server acts on a request as it is sent: both directions are FIFO.   *)
(***************************************************************************)
EXTENDS Naturals, Sequences, FiniteSets, SequencesExt

CONSTANTS Listeners, Nodes,
          Asks,       \* subscribes that can be under way at once
          MaxAsks, MaxSubscriptions, MaxItems   \* bounds

VARIABLES cached,   \* CreatedSubscriptionResponse: the subscription's id, 0 for none
          items,    \* _subscriptions and _byNode
          ask,      \* each subscribe: its coroutine, its entry of _requests and of _calls
          queued,   \* _requests of Subscriptions.cpp: asks awaiting the subscription
          wire,     \* requests sent and not answered
          timers,   \* DeleteMonitoring passes waiting: the items each was armed for
          deletes,  \* deletes decided and not yet sent
          pumped,   \* SubscriptionRequestId is registered with the processing loop
          stopping, \* the posted stop of the pump
          server,   \* the server's subscriptions and items
          acked,    \* what each listener was told it has
          second,   \* subscriptions made while another was cached, and the ones they displaced
          used      \* asks, subscription ids and item ids used

vars == <<cached, items, ask, queued, wire, timers, deletes, pumped, stopping, server, acked, second, used>>

NoAsk == [pc |-> "idle", listener |-> "none", nodes |-> {}, redriven |-> FALSE, called |-> {}, cancelled |-> {}, taken |-> FALSE]

Init ==
  /\ cached = 0 /\ items = {}
  /\ ask = [a \in Asks |-> NoAsk]
  /\ queued = {} /\ wire = <<>> /\ timers = {} /\ deletes = {}
  /\ pumped = FALSE /\ stopping = FALSE
  /\ server = [subs |-> {}, items |-> {}]
  /\ acked = {} /\ second = {}
  /\ used = [asks |-> 0, subs |-> 0, items |-> 0]

ItemsOf(n) == {i \in items : i.node = n}
Pairs(l, ns) == {<<l, n>> : n \in ns}
RemoveItems(ids) == {i \in server.items : i.id \notin ids}

-----------------------------------------------------------------------------
(* Subscribing.                                                            *)

\* SubscribeAwait::await_ready.
Subscribe(a, l, ns) ==
  /\ ask[a].pc = "idle" /\ used.asks < MaxAsks
  /\ ask' = [ask EXCEPT ![a] = [NoAsk EXCEPT !.pc = IF cached # 0 THEN "submit" ELSE "suspend", !.listener = l, !.nodes = ns]]
  /\ used' = [used EXCEPT !.asks = @ + 1]
  /\ UNCHANGED <<cached, items, queued, wire, timers, deletes, pumped, stopping, server, acked, second>>

\* On the strand: the first awaiter sends the create, the rest wait for its answer.
Suspend(a) ==
  /\ ask[a].pc = "suspend"
  /\ ask' = [ask EXCEPT ![a].pc = "queued"]
  /\ queued' = queued \cup {a}
  /\ IF queued = {}
     THEN /\ used.subs < MaxSubscriptions
          /\ used' = [used EXCEPT !.subs = @ + 1]
          /\ wire' = Append(wire, [kind |-> "sub", id |-> used.subs + 1, ask |-> a, made |-> {}])
          /\ server' = [server EXCEPT !.subs = @ \cup {used.subs + 1}]
     ELSE UNCHANGED <<used, wire, server>>
  /\ UNCHANGED <<cached, items, timers, deletes, pumped, stopping, acked, second>>

\* Mutant of SuspendRefused: the refused awaiter stays in the queue.
SuspendRefusedQueued(a) ==
  /\ ask[a].pc = "suspend" /\ queued = {}
  /\ ask' = [ask EXCEPT ![a].pc = "queued"] /\ queued' = {a}
  /\ UNCHANGED <<cached, items, wire, timers, deletes, pumped, stopping, server, acked, used, second>>

\* A create that could not be sent: takeRequests fails every awaiter.
SuspendRefused(a) ==
  /\ ask[a].pc = "suspend" /\ queued = {}
  /\ ask' = [ask EXCEPT ![a] = NoAsk]
  /\ UNCHANGED <<cached, items, queued, wire, timers, deletes, pumped, stopping, server, acked, used, second>>

\* SubscribeAwait::OnComplete.
SubscriptionMade ==
  /\ wire # <<>> /\ Head(wire).kind = "sub"
  /\ cached' = Head(wire).id
  /\ second' = IF cached = 0 THEN second ELSE second \cup {cached, Head(wire).id}
  /\ ask' = [a \in Asks |-> IF a \in queued THEN [ask[a] EXCEPT !.pc = "submit"] ELSE ask[a]]
  /\ queued' = {} /\ wire' = Tail(wire)
  /\ UNCHANGED <<items, timers, deletes, pumped, stopping, server, acked, used>>

\* MonitoredItemsRequest and Submit: nodes already monitored are joined, the others are asked for on the
\* cached subscription; with none cached a subscription is built first, once.
Submit(a) ==
  /\ ask[a].pc = "submit"
  /\ LET l == ask[a].listener
         new == {n \in ask[a].nodes : ItemsOf(n) = {}}
         joined == {IF i.node \in ask[a].nodes THEN [i EXCEPT !.listeners = @ \cup {l}] ELSE i : i \in items}
     IN  IF new # {} /\ cached = 0
         THEN /\ ask' = [ask EXCEPT ![a] = IF ask[a].redriven THEN NoAsk ELSE [@ EXCEPT !.pc = "suspend", !.redriven = TRUE]]
              /\ UNCHANGED <<items, wire, server, acked, used>>
         ELSE /\ items' = joined
              /\ IF new = {}
                 THEN /\ ask' = [ask EXCEPT ![a] = NoAsk]
                      /\ acked' = acked \cup Pairs(l, ask[a].nodes)
                      /\ UNCHANGED <<wire, server, used>>
                 ELSE \E good \in SUBSET new :
                      /\ cached \notin server.subs => good = {}
                      /\ used.items + Cardinality(good) <= MaxItems
                      /\ LET at == SetToSeq(good)
                             made == {[id |-> used.items + k, node |-> at[k], sub |-> cached] : k \in 1..Len(at)}
                         IN  /\ wire' = Append(wire, [kind |-> "items", id |-> cached, ask |-> a, made |-> made])
                             /\ server' = [server EXCEPT !.items = @ \cup made]
                      /\ used' = [used EXCEPT !.items = @ + Cardinality(good)]
                      /\ ask' = [ask EXCEPT ![a].pc = "out", ![a].called = new]
                      /\ UNCHANGED acked
  /\ UNCHANGED <<cached, queued, timers, deletes, pumped, stopping, second>>

\* Mutant of Answer: a second item is kept for a node that another create monitored meanwhile.
AnswerTwice ==
  /\ wire # <<>> /\ Head(wire).kind = "items"
  /\ LET a == Head(wire).ask
         l == ask[a].listener
         kept == {m \in Head(wire).made : m.node \notin ask[a].cancelled}
     IN  /\ items' = items \cup {[id |-> m.id, node |-> m.node, sub |-> m.sub, listeners |-> {l}] : m \in kept}
         /\ acked' = acked \cup Pairs(l, {m.node : m \in kept})
         /\ ask' = [ask EXCEPT ![a] = NoAsk]
         /\ pumped' = TRUE
  /\ wire' = Tail(wire)
  /\ UNCHANGED <<cached, queued, timers, deletes, stopping, server, used, second>>

\* Mutant of Answer: a node unsubscribed while its create was out is monitored all the same.
AnswerCancelled ==
  /\ wire # <<>> /\ Head(wire).kind = "items"
  /\ LET a == Head(wire).ask
         l == ask[a].listener
         kept == {m \in Head(wire).made : ItemsOf(m.node) = {}}
     IN  /\ items' = items \cup {[id |-> m.id, node |-> m.node, sub |-> m.sub, listeners |-> {l}] : m \in kept}
         /\ acked' = acked \cup Pairs(l, {m.node : m \in kept} \ ask[a].cancelled)
         /\ deletes' = deletes
         /\ ask' = [ask EXCEPT ![a] = NoAsk]
         /\ pumped' = (pumped \/ kept # {})
  /\ wire' = Tail(wire)
  /\ UNCHANGED <<cached, queued, timers, stopping, server, used, second>>

\* OnCreateResponse, then GetResult: each item made is the node's, a duplicate of one made meanwhile, or
\* cancelled, and the last two are deleted.  What was taken for a resubscribe is nobody's.
Answer ==
  /\ wire # <<>> /\ Head(wire).kind = "items"
  /\ LET a == Head(wire).ask
         l == ask[a].listener
         made == IF ask[a].taken THEN {} ELSE Head(wire).made
         wanted == {m \in made : m.node \notin ask[a].cancelled}
         kept == {m \in wanted : ItemsOf(m.node) = {}}
         joined == {m.node : m \in wanted \ kept}
         told == {m.node : m \in wanted} \cup (ask[a].nodes \ (ask[a].called \cup ask[a].cancelled))
     IN  /\ items' = {IF i.node \in joined THEN [i EXCEPT !.listeners = @ \cup {l}] ELSE i : i \in items}
                     \cup {[id |-> m.id, node |-> m.node, sub |-> m.sub, listeners |-> {l}] : m \in kept}
         /\ deletes' = IF made = kept THEN deletes ELSE deletes \cup {[ids |-> {m.id : m \in made \ kept}, sub |-> 0]}
         /\ acked' = acked \cup Pairs(l, {n \in told : ItemsOf(n) # {} \/ \E m \in kept : m.node = n})
         /\ ask' = [ask EXCEPT ![a] = NoAsk]
         /\ pumped' = (pumped \/ (items = {} /\ kept # {}))
  /\ wire' = Tail(wire)
  /\ UNCHANGED <<cached, queued, timers, stopping, server, used, second>>

-----------------------------------------------------------------------------
(* Unsubscribing.                                                          *)

\* Mutant of Unsubscribe: a pass that is waiting is left to find the items.
UnsubscribeUnarmed(l, ns) ==
  /\ LET left == {IF i.node \in ns THEN [i EXCEPT !.listeners = @ \ {l}] ELSE i : i \in items}
         empty == {i.id : i \in {j \in left : j.listeners = {} /\ j.node \in ns /\ j \notin items}}
     IN  /\ items' = left
         /\ timers' = IF empty = {} \/ timers # {} THEN timers ELSE {empty}
  /\ ask' = [a \in Asks |-> IF ask[a].pc = "out" /\ ask[a].listener = l
                            THEN [ask[a] EXCEPT !.cancelled = @ \cup (ask[a].nodes \cap ns)] ELSE ask[a]]
  /\ acked' = acked \ Pairs(l, ns)
  /\ <<items', ask', acked'>> # <<items, ask, acked>>
  /\ UNCHANGED <<cached, queued, wire, deletes, pumped, stopping, server, used, second>>

\* By node, or all of a listener's as it closes; items left with no listener arm a DeleteMonitoring.
Unsubscribe(l, ns) ==
  /\ LET left == {IF i.node \in ns THEN [i EXCEPT !.listeners = @ \ {l}] ELSE i : i \in items}
         empty == {i.id : i \in {j \in left : j.listeners = {} /\ j.node \in ns /\ j \notin items}}
     IN  /\ items' = left
         /\ timers' = IF empty = {} THEN timers ELSE timers \cup {empty}
  /\ ask' = [a \in Asks |-> IF ask[a].pc = "out" /\ ask[a].listener = l
                            THEN [ask[a] EXCEPT !.cancelled = @ \cup (ask[a].nodes \cap ns)] ELSE ask[a]]
  /\ acked' = acked \ Pairs(l, ns)
  /\ <<items', ask', acked'>> # <<items, ask, acked>>
  /\ UNCHANGED <<cached, queued, wire, deletes, pumped, stopping, server, used, second>>

\* Mutant of DeleteMonitoring: a subscribe in flight does not keep the subscription.
DeleteUnderSubscribe(ids) ==
  /\ timers' = timers \ {ids}
  /\ LET gone == {i \in items : i.id \in ids /\ i.listeners = {}}
         drops == gone # {} /\ items = gone /\ \E i \in gone : i.sub = cached
     IN  /\ items' = items \ gone
         /\ IF drops
            THEN /\ deletes' = deletes \cup {[ids |-> {i.id : i \in gone}, sub |-> cached]}
                 /\ cached' = 0 /\ pumped' = FALSE /\ UNCHANGED stopping
            ELSE /\ deletes' = IF gone = {} THEN deletes ELSE deletes \cup {[ids |-> {i.id : i \in gone}, sub |-> 0]}
                 /\ stopping' = (stopping \/ (gone # {} /\ items = gone)) /\ UNCHANGED <<cached, pumped>>
  /\ UNCHANGED <<ask, queued, wire, server, acked, used, second>>

\* Mutant of DeleteMonitoring: the subscription is uncached with an item of another, and not deleted.
DeleteForgets(ids) ==
  /\ timers' = timers \ {ids}
  /\ LET gone == {i \in items : i.id \in ids /\ i.listeners = {}}
         drops == items = gone /\ (\A a \in Asks : ask[a].pc # "out")
     IN  /\ items' = items \ gone
         /\ deletes' = IF gone = {} THEN deletes ELSE deletes \cup {[ids |-> {i.id : i \in gone}, sub |-> (CHOOSE i \in gone : TRUE).sub]}
         /\ cached' = IF drops THEN 0 ELSE cached
         /\ pumped' = (pumped /\ ~drops)
  /\ UNCHANGED <<ask, queued, wire, stopping, server, acked, used, second>>

\* A second later: what still has no listener goes, and the cached subscription with it when nothing is
\* monitored and no subscribe is in flight; else the pump is stopped, if it still has nothing by then.
DeleteMonitoring(ids) ==
  /\ timers' = timers \ {ids}
  /\ LET gone == {i \in items : i.id \in ids /\ i.listeners = {}}
         drops == gone # {} /\ items = gone /\ (\A a \in Asks : ask[a].pc # "out") /\ \E i \in gone : i.sub = cached
     IN  /\ items' = items \ gone
         /\ IF drops
            THEN /\ deletes' = deletes \cup {[ids |-> {i.id : i \in gone}, sub |-> cached]}
                 /\ cached' = 0 /\ pumped' = FALSE /\ UNCHANGED stopping
            ELSE /\ deletes' = IF gone = {} THEN deletes ELSE deletes \cup {[ids |-> {i.id : i \in gone}, sub |-> 0]}
                 /\ stopping' = (stopping \/ (gone # {} /\ items = gone)) /\ UNCHANGED <<cached, pumped>>
  /\ UNCHANGED <<ask, queued, wire, server, acked, used, second>>

\* Mutant of StopPump: an item that arrived meanwhile is not looked for.
StopPumpBlind ==
  /\ stopping /\ stopping' = FALSE
  /\ pumped' = FALSE
  /\ UNCHANGED <<cached, items, ask, queued, wire, timers, deletes, server, acked, used, second>>

StopPump ==
  /\ stopping /\ stopping' = FALSE
  /\ pumped' = (pumped /\ items # {})
  /\ UNCHANGED <<cached, items, ask, queued, wire, timers, deletes, server, acked, used, second>>

\* DeleteMonitoredItemsAwait and UnsubscribeAwait, deleteSubscriptionCallback.
SendDelete(d) ==
  /\ deletes' = deletes \ {d}
  /\ server' = [subs |-> server.subs \ {d.sub}, items |-> {i \in RemoveItems(d.ids) : i.sub # d.sub}]
  /\ cached' = IF cached = d.sub THEN 0 ELSE cached
  /\ UNCHANGED <<items, ask, queued, wire, timers, pumped, stopping, acked, used, second>>

\* The server's subscription times out, or goes with its session: SubscriptionStatusChanged and
\* Resubscribe, TakeForResubscribe.  What is taken is put back by a rebuild.
SubscriptionLost ==
  /\ cached # 0 /\ cached \in server.subs
  /\ server' = [subs |-> server.subs \ {cached}, items |-> {i \in server.items : i.sub # cached}]
  /\ cached' = 0 /\ items' = {}
  /\ acked' = {}
  /\ ask' = [a \in Asks |-> IF ask[a].pc = "out" THEN [ask[a] EXCEPT !.taken = TRUE] ELSE ask[a]]
  /\ UNCHANGED <<queued, wire, timers, deletes, pumped, stopping, used, second>>

-----------------------------------------------------------------------------
Next ==
  \/ \E a \in Asks : Suspend(a) \/ SuspendRefused(a) \/ Submit(a)
                     \/ \E l \in Listeners, ns \in SUBSET Nodes \ {{}} : Subscribe(a, l, ns)
  \/ SubscriptionMade \/ Answer
  \/ \E l \in Listeners, ns \in SUBSET Nodes \ {{}} : Unsubscribe(l, ns)
  \/ \E ids \in timers : DeleteMonitoring(ids)
  \/ \E d \in deletes : SendDelete(d)
  \/ StopPump \/ SubscriptionLost

Spec == Init /\ [][Next]_vars

-----------------------------------------------------------------------------
TypeOK ==
  /\ cached \in 0..MaxSubscriptions
  /\ \A i \in items : i.node \in Nodes /\ i.listeners \subseteq Listeners /\ i.id \in 1..MaxItems
  /\ \A i, j \in items : i.node = j.node => i = j
  /\ \A a \in Asks : ask[a].pc \in {"idle", "suspend", "queued", "submit", "out"} /\ ask[a].cancelled \cup ask[a].called \subseteq ask[a].nodes
  /\ queued = {a \in Asks : ask[a].pc = "queued"}

\* Whoever was told that a node is monitored, and has not left it, is on an item the server has, on a
\* subscription it has: never acknowledged and then silent.
AckedIsMonitored ==
  \A p \in acked : \E i \in items : i.node = p[2] /\ p[1] \in i.listeners /\ [id |-> i.id, node |-> i.node, sub |-> i.sub] \in server.items

\* Every item the server has is in the books, or an answer or a delete that knows of it is under way: none
\* is left to push to nobody, unless a second subscription was made (OneSubscription).
NoOrphanItem ==
  \A s \in {i \in server.items : i.sub \notin second} :
    \/ \E i \in items : i.id = s.id
    \/ \E d \in deletes : s.id \in d.ids \/ s.sub = d.sub
    \/ \E k \in 1..Len(wire) : s \in wire[k].made

\* An item nobody listens to has a pass coming for it.
UnheardIsDeleted == \A i \in items : i.listeners = {} => \E ids \in timers : i.id \in ids

\* While anything is monitored the loop pumps the subscription.
MonitoredIsPumped == items # {} => pumped

\* An ask that waits for the subscription has its create on the wire.
QueuedHasItsCreate == queued # {} => \E k \in 1..Len(wire) : wire[k].kind = "sub"

\* But for a second one, the server holds no subscription except the one cached and those being created,
\* deleted or, with a subscribe answered by then, kept.
NoOrphanSubscription ==
  \A s \in server.subs \ second : s = cached \/ (\E d \in deletes : d.sub = s) \/ \E k \in 1..Len(wire) : wire[k].id = s

\* A client has one data subscription (Subscriptions.h: "the one data subscription per client").
OneSubscription == Cardinality(server.subs \ {d.sub : d \in deletes}) <= 1
=============================================================================
