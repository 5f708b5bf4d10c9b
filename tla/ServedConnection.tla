--------------------------- MODULE ServedConnection ---------------------------
(***************************************************************************)
(* A connection folder's _Connection object on the gateway's endpoint      *)
(* (GatewayServer::Apply and the row's hooks): it follows the registry's   *)
(* clients of one slug, one per credential, by the changes UAClient tells  *)
(* of off every lock, applied in the order posted on the endpoint's        *)
(* thread, and the row by its mutations' hooks.                            *)
(***************************************************************************)
EXTENDS Naturals, Sequences, FiniteSets

CONSTANTS Credentials, MaxChanges, MaxRows

VARIABLES client,   \* the registry: of each credential, none, or its client with its session up or down
          telling,  \* the changes whose notifyChange is still to run, a credential's one at a time
          row,      \* the row is in the table
          hook,     \* the row mutation's hook, still to run
          posted, held, started,
          shown,    \* the folder and its _Connection, as written
          outage,   \* whether the last session was lost and none has come since;  the outages recovered while the folder was there
          recovered,
          crossed,  \* the registry moved between a change and its notice
          early,    \* a session came up before its row's hook had posted the folder
          count

vars == <<client, telling, row, hook, posted, held, started, shown, outage, recovered, crossed, early, count>>

NoFolder == [there |-> FALSE, connected |-> FALSE, outage |-> FALSE, reconnects |-> 0]
HasSession == \E c \in Credentials : client[c] = "up"

Init ==
  /\ client = [c \in Credentials |-> "none"] /\ telling = {} /\ row \in BOOLEAN /\ hook = "none"
  /\ posted = << >> /\ held = << >> /\ started = FALSE /\ shown = NoFolder
  /\ outage = FALSE /\ recovered = 0 /\ crossed = FALSE /\ early = FALSE /\ count = [changes |-> 0, rows |-> 0]

-----------------------------------------------------------------------------
(* The registry.  Each change is told of once it is made, by its own       *)
(* thread.                                                                 *)

Moves(c, to, kind) ==
  LET up == to = "up" \/ \E d \in Credentials \ {c} : client[d] = "up" IN
  /\ count.changes < MaxChanges /\ count' = [count EXCEPT !.changes = @ + 1]
  /\ \A t \in telling : t.by # c
  /\ client' = [client EXCEPT ![c] = to]
  /\ telling' = telling \cup {[by |-> c, kind |-> kind]}
  /\ outage' = IF up THEN FALSE ELSE outage \/ (HasSession /\ kind = "lost")
  /\ recovered' = IF up /\ outage /\ row THEN recovered + 1 ELSE recovered
  /\ crossed' = (crossed \/ telling # {}) /\ early' = (early \/ (up /\ hook # "none"))
  /\ UNCHANGED <<row, hook, posted, held, started, shown>>

Connects(c) == client[c] = "none" /\ row /\ Moves(c, "up", "activated")         \* AnswerConnect
Breaks(c) == client[c] = "up" /\ Moves(c, "down", "lost")                \* StateCallback: reconnecting in place
Returns(c) == client[c] = "down" /\ Moves(c, "up", "activated")          \* StateCallback: re-activated
Lost(c) == client[c] # "none" /\ Moves(c, "none", "lost")                \* ConnectionLost
Removed(c) == client[c] # "none" /\ Moves(c, "none", "removed")          \* RemoveClient

\* Mutant of Tells: whether the slug is down is what the change itself did.
TellsOwn(t) ==
  /\ telling' = telling \ {t} /\ posted' = Append(posted, [op |-> "change", kind |-> t.kind, down |-> t.kind = "lost"])
  /\ UNCHANGED <<client, row, hook, held, started, shown, outage, recovered, crossed, early, count>>
\* notifyChange: Down as the registry is when it runs.
Tells(t) ==
  /\ telling' = telling \ {t} /\ posted' = Append(posted, [op |-> "change", kind |-> t.kind, down |-> ~HasSession])
  /\ UNCHANGED <<client, row, hook, held, started, shown, outage, recovered, crossed, early, count>>

-----------------------------------------------------------------------------
(* The row.                                                                *)

Creates ==
  /\ ~row /\ hook = "none" /\ count.rows < MaxRows /\ row' = TRUE /\ hook' = "created" /\ count' = [count EXCEPT !.rows = @ + 1]
  /\ UNCHANGED <<client, telling, posted, held, started, shown, outage, recovered, crossed, early>>
\* Its clients closed with it: removed, each told of.
Purges ==
  /\ row /\ hook = "none" /\ count.rows < MaxRows /\ \A c \in Credentials : client[c] = "none"
  /\ row' = FALSE /\ hook' = "purged" /\ count' = [count EXCEPT !.rows = @ + 1]
  /\ recovered' = 0 /\ outage' = FALSE
  /\ crossed' = (crossed \/ telling # {}) /\ UNCHANGED <<client, telling, posted, held, started, shown, early>>
Hooked ==
  /\ hook # "none" /\ posted' = Append(posted, [op |-> hook, kind |-> "", down |-> FALSE]) /\ hook' = "none"
  /\ UNCHANGED <<client, telling, row, held, started, shown, outage, recovered, crossed, early, count>>

-----------------------------------------------------------------------------
(* The endpoint's thread.                                                  *)

\* Mutant of Apply: a change is applied as it says.
ApplySaid(s, op) ==
  [s EXCEPT !.outage = IF op.kind = "lost" /\ op.down THEN TRUE ELSE IF op.kind = "activated" THEN FALSE ELSE @,
            !.reconnects = IF op.kind = "activated" /\ s.outage THEN @ + 1 ELSE @,
            !.connected = IF op.kind = "activated" THEN TRUE ELSE IF op.kind \in {"lost", "removed"} THEN FALSE ELSE @]
\* The last session's loss is an outage, the next activation a reconnect; Connected is the registry as it is now.
Apply(s, op) ==
  [s EXCEPT !.outage = IF op.kind = "lost" /\ op.down THEN TRUE ELSE IF op.kind = "activated" THEN FALSE ELSE @,
            !.reconnects = IF op.kind = "activated" /\ s.outage THEN @ + 1 ELSE @,
            !.connected = HasSession]

Applied(s, op) ==
  CASE op.op = "created" -> IF s.there THEN s ELSE [NoFolder EXCEPT !.there = TRUE]
    [] op.op = "purged" -> NoFolder
    [] op.op = "change" -> IF s.there THEN Apply(s, op) ELSE s

Serial ==
  /\ posted # << >> /\ posted' = Tail(posted)
  /\ IF started THEN shown' = Applied(shown, Head(posted)) /\ UNCHANGED held
     ELSE held' = Append(held, Head(posted)) /\ UNCHANGED shown
  /\ UNCHANGED <<client, telling, row, hook, started, outage, recovered, crossed, early, count>>

RECURSIVE RunAll(_, _)
RunAll(s, ops) == IF ops = << >> THEN s ELSE RunAll(Applied(s, Head(ops)), Tail(ops))
\* Mutant of Start: what was held before it is in the rows and the registry it reads, and is dropped.
StartAfresh ==
  /\ ~started /\ started' = TRUE /\ held' = << >>
  /\ shown' = IF row THEN [NoFolder EXCEPT !.there = TRUE, !.connected = HasSession] ELSE NoFolder
  /\ UNCHANGED <<client, telling, row, hook, posted, outage, recovered, crossed, early, count>>
\* The rows and the registry as they are now, then what was held.
Start ==
  /\ ~started /\ started' = TRUE /\ held' = << >>
  /\ shown' = RunAll(IF row THEN [NoFolder EXCEPT !.there = TRUE, !.connected = HasSession] ELSE NoFolder, held)
  /\ UNCHANGED <<client, telling, row, hook, posted, outage, recovered, crossed, early, count>>

Next ==
  \/ \E c \in Credentials : Connects(c) \/ Breaks(c) \/ Returns(c) \/ Lost(c) \/ Removed(c)
  \/ \E t \in telling : Tells(t)
  \/ Creates \/ Purges \/ Hooked \/ Serial \/ Start

Spec == Init /\ [][Next]_vars

-----------------------------------------------------------------------------
Quiet == started /\ telling = {} /\ hook = "none" /\ posted = << >>

TypeOK ==
  /\ client \in [Credentials -> {"none", "up", "down"}] /\ hook \in {"none", "created", "purged"}
  /\ shown \in [there : BOOLEAN, connected : BOOLEAN, outage : BOOLEAN, reconnects : 0..MaxChanges]

\* With every change applied, the folder is there while the row is, and Connected is whether a client of the slug has its session up, unless a session came up before its
\* row's folder was made.
ConnectedIsTrue == Quiet => shown.there = row /\ (row /\ ~early => shown.connected = HasSession)
\* The same with no exception: "true while a client with an activated session exists for the slug" (docs/servers/spec.md:82).
ConnectedIsAlwaysTrue == Quiet /\ row => shown.connected = HasSession

\* With every change applied, Reconnects counts the outages the connection has recovered from, unless the registry moved between
\* a loss and its notice.
ReconnectsCounted == Quiet /\ row /\ ~crossed /\ ~early => shown.reconnects = recovered
\* The same with no exception: "a UInt32 count since the gateway started of outages recovered" (docs/servers/spec.md:82).
EveryReconnectCounted == Quiet /\ row => shown.reconnects = recovered
=============================================================================
