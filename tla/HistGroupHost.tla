--------------------------- MODULE HistGroupHost ----------------------------
(***************************************************************************)
(* The collector of one history group (HistGroupHost): members are kept by *)
(* namespace URI and monitored by the index the server has for it, on the  *)
(* collector's client.  A pass asks for an item for every member without   *)
(* one; the client parks and rebuilds the items of a broken connection by  *)
(* index, and the values of a rebuild wait until the server's namespaces   *)
(* have been read again; a watch asks again for what stays lost.           *)
(* Each step is a hold of the host's mutex, or a step of a coroutine.      *)
(***************************************************************************)
EXTENDS Naturals, FiniteSets, FiniteSetsExt

CONSTANTS Members,
          IdOf,         \* IdOf[v][m]: the id of a member under version v of the server's NamespaceArray
          MaxBreaks, MaxRemovals, MaxRefusals, MaxEdits   \* bounds on what goes wrong, and on the joins and leaves

VARIABLES node,      \* _nodes: each member's id (0, unresolved), Subscribed and Lost; in: it is a member
          host,      \* _closed, _subscribing, _again, _retry, _watch, _verifying, _epoch
          pass,      \* Subscribing: where it is, the ids of its create, those cancelled meanwhile
          verify,    \* Verify, each out: its epoch, the members lost already, whether the connection it reads on went
          calls,     \* what is left of a call when the mutex is released: ids to unsubscribe, Subscribe; check: Check's
          held,      \* _held: each value's member, and the member whose node it is of
          connected, \* the group's connection
          client,    \* the collector's: up, the ids it has items on and has parked, the version of the session
          wrong,     \* a member was given another node's value
          count

vars == <<node, host, pass, verify, calls, held, connected, client, wrong, count>>

Versions == DOMAIN IdOf
Ids == UNION {{IdOf[v][m] : m \in Members} : v \in Versions}
NoPass == [pc |-> "none", ids |-> {}, cancelled |-> {}]
NoCall == [ids |-> {}, all |-> FALSE, subscribe |-> FALSE, check |-> FALSE]
Absent == [in |-> FALSE, id |-> 0, subscribed |-> FALSE, lost |-> FALSE]
In == {m \in Members : node[m].in}

Init ==
  /\ node = [m \in Members |-> [Absent EXCEPT !.in = TRUE]]
  /\ host = [closed |-> FALSE, subscribing |-> FALSE, again |-> FALSE, retry |-> FALSE, watch |-> FALSE,
             verifying |-> FALSE, epoch |-> 0]
  /\ pass = NoPass /\ verify = {} /\ held = {} /\ connected = TRUE
  /\ calls = {[NoCall EXCEPT !.subscribe = TRUE]}
  /\ client = [up |-> FALSE, items |-> {}, parked |-> {}, version |-> 1]
  /\ wrong = FALSE
  /\ count = [breaks |-> 0, removals |-> 0, refusals |-> 0, edits |-> 0]

FindNode(id) == {m \in In : node[m].id = id}
Monitored(id) == CHOOSE m \in Members : IdOf[client.version][m] = id
Reset == [m \in Members |-> IF node[m].in THEN [Absent EXCEPT !.in = TRUE] ELSE node[m]]
Moved(v) == \E m \in In : node[m].id \notin {0, IdOf[v][m]}

\* UAClient's unsubscribes, of everything or by node: the items, what is parked, and the create that is out.
Drop(all, ids) ==
  LET gone == IF all THEN Ids ELSE ids
  IN  /\ client' = [client EXCEPT !.items = @ \ gone, !.parked = @ \ gone]
      /\ pass' = IF pass.pc = "create" THEN [pass EXCEPT !.cancelled = @ \cup (pass.ids \cap gone)] ELSE pass

-----------------------------------------------------------------------------
(* Membership, and what a call does once it has let the mutex go.          *)

Join(m) ==
  /\ count.edits < MaxEdits /\ ~host.closed /\ ~node[m].in
  /\ node' = [node EXCEPT ![m] = [Absent EXCEPT !.in = TRUE]]
  /\ calls' = calls \cup {[NoCall EXCEPT !.subscribe = TRUE]}
  /\ count' = [count EXCEPT !.edits = @ + 1]
  /\ UNCHANGED <<host, pass, verify, held, connected, client, wrong>>

\* A value that waits for one that left is nobody's: a member that joins again has another index.
Leave(m) ==
  /\ count.edits < MaxEdits /\ ~host.closed /\ node[m].in
  /\ node' = [node EXCEPT ![m] = Absent]
  /\ held' = {h \in held : h.member # m}
  /\ calls' = IF node[m].id = 0 THEN calls ELSE calls \cup {[NoCall EXCEPT !.ids = {node[m].id}]}
  /\ count' = [count EXCEPT !.edits = @ + 1]
  /\ UNCHANGED <<host, pass, verify, connected, client, wrong>>

Close ==
  /\ ~host.closed
  /\ host' = [host EXCEPT !.closed = TRUE, !.retry = FALSE, !.watch = FALSE, !.verifying = FALSE]
  /\ held' = {}
  /\ node' = [m \in Members |-> [node[m] EXCEPT !.subscribed = FALSE]]
  /\ calls' = calls \cup {[NoCall EXCEPT !.all = TRUE]}
  /\ UNCHANGED <<pass, verify, connected, client, wrong, count>>

\* The unsubscribe of a call, then its Subscribe.
RunDrop(k) ==
  /\ k \in calls /\ (k.all \/ k.ids # {})
  /\ Drop(k.all, k.ids)
  /\ calls' = (calls \ {k}) \cup (IF k.subscribe THEN {[k EXCEPT !.ids = {}, !.all = FALSE]} ELSE {})
  /\ UNCHANGED <<node, host, verify, held, connected, wrong, count>>

\* Mutant of Subscribe: a pass that is out is left to find the members that have none.
SubscribeOnce(k) ==
  LET starts == ~host.closed /\ ~host.subscribing /\ \E m \in In : ~node[m].subscribed
  IN  /\ k \in calls /\ k.subscribe /\ ~k.all /\ k.ids = {} /\ calls' = calls \ {k}
      /\ host' = [host EXCEPT !.watch = @ \/ ~host.closed, !.subscribing = @ \/ starts]
      /\ pass' = IF starts THEN [NoPass EXCEPT !.pc = "connect"] ELSE pass
      /\ UNCHANGED <<node, verify, held, connected, client, wrong, count>>

Subscribe(k) ==
  LET wanted == ~host.closed /\ \E m \in In : ~node[m].subscribed
      starts == wanted /\ ~host.subscribing
  IN  /\ k \in calls /\ k.subscribe /\ ~k.all /\ k.ids = {} /\ calls' = calls \ {k}
      /\ host' = [host EXCEPT !.watch = @ \/ ~host.closed, !.again = @ \/ (wanted /\ host.subscribing),
                              !.subscribing = @ \/ starts]
      /\ pass' = IF starts THEN [NoPass EXCEPT !.pc = "connect"] ELSE pass
      /\ UNCHANGED <<node, verify, held, connected, client, wrong, count>>

RetryFires ==
  /\ host.retry
  /\ host' = [host EXCEPT !.retry = FALSE]
  /\ calls' = calls \cup {[NoCall EXCEPT !.subscribe = TRUE]}
  /\ UNCHANGED <<node, pass, verify, held, connected, client, wrong, count>>

-----------------------------------------------------------------------------
(* Subscribing.                                                            *)

\* Its end: another pass for what was asked meanwhile, else a retry for what failed.
Finish(retry) ==
  /\ host' = [host EXCEPT !.subscribing = FALSE, !.again = FALSE,
                          !.retry = @ \/ (retry /\ ~host.again /\ ~host.closed)]
  /\ pass' = NoPass

FinishCalls == calls \cup (IF host.again THEN {[NoCall EXCEPT !.subscribe = TRUE]} ELSE {})

\* An await that throws: no connection, or the client it has is gone.
PassFails ==
  /\ pass.pc # "none" /\ (pass.pc = "lost" \/ (pass.pc = "connect" /\ count.refusals < MaxRefusals))
  /\ Finish(TRUE) /\ calls' = FinishCalls
  /\ count' = IF pass.pc = "lost" THEN count ELSE [count EXCEPT !.refusals = @ + 1]
  /\ UNCHANGED <<node, verify, held, connected, client, wrong>>

PassConnects ==
  /\ pass.pc = "connect"
  /\ client' = [client EXCEPT !.up = TRUE]
  /\ pass' = [pass EXCEPT !.pc = "read"]
  /\ UNCHANGED <<node, host, verify, calls, held, connected, wrong, count>>

\* Mutant of PassReads: a server whose namespaces moved keeps the members' ids.
PassReadsOn ==
  /\ pass.pc = "read"
  /\ LET v == client.version
         asked == {m \in In : ~node[m].subscribed /\ ~host.closed}
     IN  /\ node' = [m \in Members |-> IF m \in asked /\ node[m].id = 0 THEN [node[m] EXCEPT !.id = IdOf[v][m]] ELSE node[m]]
         /\ pass' = [pass EXCEPT !.pc = "send", !.ids = {node'[m].id : m \in asked}]
  /\ UNCHANGED <<host, verify, calls, held, connected, client, wrong, count>>

\* The namespaces, read, and the ids of the members to ask for.  Moved: every item goes first, in the
\* same turn of the client's strand.
PassReads ==
  /\ pass.pc = "read"
  /\ LET v == client.version
         moved == Moved(v)
         nodes == IF moved THEN Reset ELSE node
         asked == {m \in In : ~nodes[m].subscribed /\ ~host.closed}
     IN  /\ node' = [m \in Members |-> IF m \in asked THEN [nodes[m] EXCEPT !.id = IdOf[v][m]] ELSE nodes[m]]
         /\ host' = IF moved THEN [host EXCEPT !.epoch = @ + 1, !.verifying = FALSE] ELSE host
         /\ held' = IF moved THEN {} ELSE held
         /\ client' = IF moved THEN [client EXCEPT !.items = {}, !.parked = {}] ELSE client
         /\ pass' = [pass EXCEPT !.pc = "send", !.ids = {IdOf[v][m] : m \in asked}]
  /\ UNCHANGED <<verify, calls, connected, wrong, count>>

\* The subscription is there and the create is sent; with nothing to ask the pass is over.
PassSends ==
  /\ pass.pc = "send"
  /\ IF pass.ids = {}
     THEN Finish(FALSE) /\ calls' = FinishCalls
     ELSE pass' = [pass EXCEPT !.pc = "create"] /\ UNCHANGED <<host, calls>>
  /\ UNCHANGED <<node, verify, held, connected, client, wrong, count>>

\* Mutant of PassAcked: only a rebuild brings the connection back.
PassAckedInGap(refused) ==
  /\ pass.pc = "create" /\ refused = {}
  /\ LET good == pass.ids \ pass.cancelled
     IN  /\ client' = [client EXCEPT !.items = @ \cup good]
         /\ node' = [m \in Members |-> IF node[m].in /\ node[m].id \in good /\ ~host.closed
                                       THEN [node[m] EXCEPT !.subscribed = TRUE, !.lost = FALSE] ELSE node[m]]
         /\ Finish(~host.closed /\ good # pass.ids)
         /\ calls' = FinishCalls \cup (IF host.closed THEN {[NoCall EXCEPT !.all = TRUE]} ELSE {})
  /\ UNCHANGED <<verify, held, connected, wrong, count>>

\* Mutant of PassAcked: a pass that outlived Close leaves its items.
PassAckedClosed(refused) ==
  /\ pass.pc = "create"
  /\ LET good == pass.ids \ (pass.cancelled \cup refused)
     IN  /\ client' = [client EXCEPT !.items = @ \cup good]
         /\ node' = [m \in Members |-> IF node[m].in /\ node[m].id \in good
                                       THEN [node[m] EXCEPT !.subscribed = TRUE, !.lost = FALSE] ELSE node[m]]
         /\ Finish(good # pass.ids) /\ calls' = FinishCalls
         /\ connected' = TRUE
  /\ UNCHANGED <<verify, held, wrong, count>>

\* The create's answer, and each item's member marked.  Closed meanwhile: its items go.
PassAcked(refused) ==
  /\ pass.pc = "create" /\ refused \subseteq pass.ids
  /\ count.refusals + Cardinality(refused) <= MaxRefusals
  /\ LET good == pass.ids \ (pass.cancelled \cup refused)
     IN  /\ client' = [client EXCEPT !.items = @ \cup good]
         /\ node' = [m \in Members |-> IF node[m].in /\ node[m].id \in good /\ ~host.closed
                                       THEN [node[m] EXCEPT !.subscribed = TRUE, !.lost = FALSE] ELSE node[m]]
         /\ Finish(~host.closed /\ good # pass.ids)
         /\ calls' = FinishCalls \cup (IF host.closed THEN {[NoCall EXCEPT !.all = TRUE]} ELSE {})
  /\ connected' = TRUE
  /\ count' = [count EXCEPT !.refusals = @ + Cardinality(refused)]
  /\ UNCHANGED <<verify, held, wrong>>

-----------------------------------------------------------------------------
(* Values, the break and the return.                                       *)

\* Mutant of SendDataChange: a rebuild's values are not held.
SendDataChangeAtOnce(id) ==
  /\ id \in client.items
  /\ wrong' = (wrong \/ \E m \in FindNode(id) : m # Monitored(id))
  /\ UNCHANGED <<node, host, pass, verify, calls, held, connected, client, count>>

SendDataChange(id) ==
  /\ id \in client.items /\ ~host.closed
  /\ \E m \in FindNode(id) :
       IF host.verifying
       THEN held' = held \cup {[member |-> m, of |-> Monitored(id)]} /\ UNCHANGED wrong
       ELSE wrong' = (wrong \/ m # Monitored(id)) /\ UNCHANGED held
  /\ UNCHANGED <<node, host, pass, verify, calls, connected, client, count>>

ConnectionLost ==
  IF client.items = {}
  THEN UNCHANGED <<connected, host, held, node>>
  ELSE /\ connected' = FALSE
       /\ host' = [host EXCEPT !.epoch = @ + 1, !.verifying = FALSE]
       /\ held' = IF host.verifying THEN {} ELSE held
       /\ node' = [m \in Members |-> IF node[m].in /\ node[m].id \in client.items THEN [node[m] EXCEPT !.lost = TRUE] ELSE node[m]]

\* The client's connection is gone: what is awaited on it throws, but a create answers each of its nodes.
Interrupted ==
  /\ verify' = {[c EXCEPT !.lost = TRUE] : c \in verify}
  /\ pass' = CASE pass.pc \in {"read", "send"} -> [pass EXCEPT !.pc = "lost"]
               [] pass.pc = "create" -> [pass EXCEPT !.cancelled = pass.ids]
               [] OTHER -> pass

\* The session breaks, and is renewed in place, or the client goes.  The server may be back with its
\* namespaces moved.
Break(inPlace, v) ==
  /\ client.up /\ count.breaks < MaxBreaks
  /\ ConnectionLost
  /\ client' = [up |-> inPlace, items |-> {}, parked |-> client.parked \cup client.items, version |-> v]
  /\ Interrupted
  /\ count' = [count EXCEPT !.breaks = @ + 1]
  /\ UNCHANGED <<calls, wrong>>

\* The client is removed, and nobody is told.
Removed(v) ==
  /\ client.up /\ count.removals < MaxRemovals
  /\ client' = [client EXCEPT !.up = FALSE, !.items = {}, !.version = v]
  /\ Interrupted
  /\ count' = [count EXCEPT !.removals = @ + 1]
  /\ UNCHANGED <<node, host, calls, held, connected, wrong>>

\* The rebuild put the items back, but those the server refused; ConnectionRestored.
Restored(refused) ==
  /\ client.parked # {} /\ refused \subseteq client.parked /\ count.refusals + Cardinality(refused) <= MaxRefusals
  /\ LET back == client.parked \ refused
     IN  /\ client' = [client EXCEPT !.up = TRUE, !.items = @ \cup back, !.parked = {}]
         /\ IF host.closed \/ back = {}
            THEN UNCHANGED <<node, host, verify>>
            ELSE /\ node' = [m \in Members |-> IF node[m].id \in back THEN [node[m] EXCEPT !.lost = FALSE] ELSE node[m]]
                 /\ host' = [host EXCEPT !.epoch = @ + 1, !.verifying = TRUE]
                 /\ verify' = verify \cup {[epoch |-> host.epoch + 1, lost |-> FALSE, old |-> {m \in In : node'[m].lost}]}
  /\ count' = [count EXCEPT !.refusals = @ + Cardinality(refused)]
  /\ UNCHANGED <<pass, calls, held, connected, wrong>>

\* Verify: the namespaces read, or not.  Moved, every item goes and is asked for again; else what
\* waited is delivered.
Verified(c, reads) ==
  /\ c \in verify /\ verify' = verify \ {c}
  /\ reads => ~c.lost
  /\ LET moved == ~reads \/ Moved(client.version)
     IN  IF host.closed \/ c.epoch # host.epoch
         THEN UNCHANGED <<node, host, pass, calls, held, connected, client, wrong>>
         ELSE /\ host' = [host EXCEPT !.verifying = FALSE]
              /\ connected' = TRUE
              /\ held' = {}
              /\ node' = IF moved THEN Reset ELSE node
              /\ wrong' = (wrong \/ (~moved /\ \E h \in held : h.member # h.of))
              /\ Drop(moved, {})
              /\ calls' = IF moved THEN calls \cup {[NoCall EXCEPT !.subscribe = TRUE]} ELSE calls
  /\ UNCHANGED count

\* Mutant of Check: members whose items went without a word are not looked for.
CheckTold(late) ==
  /\ host.watch /\ ~\E k \in calls : k.check
  /\ LET abandoned == IF late THEN {m \in In : node[m].subscribed /\ node[m].lost /\ \A c \in verify : m \in c.old} ELSE {}
         ids == {node[m].id : m \in abandoned}
     IN  IF host.subscribing
         THEN UNCHANGED <<node, calls, connected>>
         ELSE /\ node' = [m \in Members |-> IF m \in abandoned THEN [Absent EXCEPT !.in = TRUE] ELSE node[m]]
              /\ UNCHANGED connected
              /\ calls' = IF abandoned = {} THEN calls ELSE calls \cup {[NoCall EXCEPT !.ids = ids, !.subscribe = TRUE, !.check = TRUE]}
  /\ UNCHANGED <<host, pass, verify, held, client, wrong, count>>

\* The watch: members whose items are gone without a word are lost, those lost past AbandonAfter are
\* asked for again.  AbandonAfter outlasts any read, so not those lost since a Verify that is out began.
Check(late) ==
  /\ host.watch /\ ~\E k \in calls : k.check
  /\ LET gone == {m \in In : node[m].subscribed /\ ~node[m].lost /\ (node[m].id \notin client.items \/ ~client.up)}
         abandoned == IF late THEN {m \in In : node[m].subscribed /\ node[m].lost /\ \A c \in verify : m \in c.old} ELSE {}
         ids == {node[m].id : m \in abandoned}
     IN  IF host.subscribing
         THEN UNCHANGED <<node, calls, connected>>
         ELSE /\ node' = [m \in Members |-> IF m \in abandoned THEN [Absent EXCEPT !.in = TRUE]
                                            ELSE IF m \in gone THEN [node[m] EXCEPT !.lost = TRUE] ELSE node[m]]
              /\ connected' = (connected /\ ~(~client.up /\ gone # {}))
              /\ calls' = IF abandoned = {} THEN calls ELSE calls \cup {[NoCall EXCEPT !.ids = ids, !.subscribe = TRUE, !.check = TRUE]}
  /\ UNCHANGED <<host, pass, verify, held, client, wrong, count>>

Next ==
  \/ \E m \in Members : Join(m) \/ Leave(m)
  \/ Close \/ RetryFires
  \/ \E k \in calls : Subscribe(k) \/ RunDrop(k)
  \/ PassFails \/ PassConnects \/ PassReads \/ PassSends \/ \E r \in SUBSET Ids : PassAcked(r)
  \/ \E id \in Ids : SendDataChange(id)
  \/ \E inPlace \in BOOLEAN, v \in Versions : Break(inPlace, v)
  \/ (\E v \in Versions : Removed(v)) \/ \E r \in SUBSET Ids : Restored(r)
  \/ \E c \in verify, reads \in BOOLEAN : Verified(c, reads)
  \/ \E late \in BOOLEAN : Check(late)

Spec == Init /\ [][Next]_vars

\* Every await is answered, timers fire, and what is lost gets old.
Fairness ==
  /\ WF_vars(\E k \in calls : Subscribe(k)) /\ WF_vars(\E k \in calls : RunDrop(k)) /\ WF_vars(RetryFires)
  /\ WF_vars(PassFails) /\ WF_vars(PassConnects) /\ WF_vars(PassReads) /\ WF_vars(PassSends)
  /\ WF_vars(\E r \in SUBSET Ids : PassAcked(r)) /\ WF_vars(\E r \in SUBSET Ids : Restored(r))
  /\ WF_vars(\E c \in verify, reads \in BOOLEAN : Verified(c, reads))
  /\ WF_vars(Check(TRUE) /\ ~host.subscribing)
FairSpec == Spec /\ Fairness

-----------------------------------------------------------------------------
TypeOK ==
  /\ node \in [Members -> [in : BOOLEAN, id : Ids \cup {0}, subscribed : BOOLEAN, lost : BOOLEAN]]
  /\ pass.pc \in {"none", "connect", "read", "send", "create", "lost"}
  /\ pass.ids \subseteq Ids /\ pass.cancelled \subseteq pass.ids
  /\ client.items \cup client.parked \subseteq Ids
  /\ host.subscribing = (pass.pc # "none")
  /\ connected \in BOOLEAN

\* A member is never given another node's value, though the server may come back with its namespaces
\* moved and the client rebuilds by index: a rebuild's values wait for the namespaces (_verifying, _held).
RightMember == ~wrong

\* A member of an open group that has no item is being asked for, or will be: by the pass that is
\* out, the one after it, or a retry.
MembersAreAsked ==
  ~host.closed /\ (\E m \in In : ~node[m].subscribed) =>
    host.subscribing \/ host.retry \/ \E k \in calls : k.subscribe

\* Every value of an open group finds its connection open, so none is stored inside a gap: while
\* values are let through and there is an item, the group was told the connection is back.
NoValueInAGap ==
  ~host.closed /\ ~host.verifying /\ ~connected => \A id \in client.items : FindNode(id) = {}

\* Once a closed group's calls are through, none of its nodes has an item, parked or live, though a
\* pass may have been out when it closed.
ClosedHasNoItems ==
  host.closed /\ pass.pc = "none" /\ calls = {} => client.items = {} /\ client.parked = {}

\* Whatever breaks, is refused or is removed, every member of a group that stays open is collected in
\* the end: its own node's item is on the client.
AllCollected == host.closed \/ (client.up /\ \A m \in In : IdOf[client.version][m] \in client.items)
EveryMemberCollected == <>[]AllCollected

\* The group's connection comes back only once it is back: with the client up.
ConnectedOnceBack == [][~connected /\ connected' => client'.up]_vars
=============================================================================
