--------------------------- MODULE ClientConnect ----------------------------
(***************************************************************************)
(* How the gateway's callers get the client of a connection (ConnectAwait, *)
(* UAClient's registry): one client per slug and credential, built on the  *)
(* blocking pool from the connection's row for the first caller, awaited   *)
(* by the rest, registered when its session activates, and started over    *)
(* when the row is edited meanwhile.  One slug and credential.             *)
(* Each step is a hold of one mutex, or a run of one posted task.          *)
(***************************************************************************)
EXTENDS Naturals, FiniteSets

CONSTANTS Waiters, Editors   \* each calls once

VARIABLES row,        \* the row's version in the database; 0, deleted
          edits,      \* _edits
          rowEdit,    \* the row's entry in _idEdits or _slugEdits
          editor,     \* the mutation that commits an edit and then tells the registry
          waiter,     \* what each caller has, and the edits done when it called
          requests,   \* _requests
          build,      \* each connect: a run of Create, then its client
          built,      \* connects started
          registered, \* _clients: the client registered, 0 for none
          posts,      \* posted to the executor
          phase       \* of the shutdown

vars == <<row, edits, rowEdit, editor, waiter, requests, build, built, registered, posts, phase>>

Builds == 1..(Cardinality(Waiters) + Cardinality(Editors))
NoBuild == [pc |-> "none", edits |-> 0, version |-> 0]
Active == {"reading", "queued", "building", "awaiting", "rejected"}
ShuttingDown == phase # "running"

Init ==
  /\ row = 1 /\ edits = 0 /\ rowEdit = 0
  /\ editor = [e \in Editors |-> [pc |-> "idle", version |-> 0, client |-> 0]]
  /\ waiter = [w \in Waiters |-> [pc |-> "idle", since |-> 0]]
  /\ requests = {}
  /\ build = [n \in Builds |-> NoBuild]
  /\ built = 0 /\ registered = 0
  /\ posts = {}
  /\ phase = "running"

EditedSince(n) == rowEdit > build[n].edits

Answer(ws, pc) == waiter' = [w \in Waiters |-> IF w \in ws THEN [waiter[w] EXCEPT !.pc = pc] ELSE waiter[w]]

-----------------------------------------------------------------------------
(* ConnectAwait.                                                           *)

\* A run of Create: the count of edits is taken before the row is read.
\* Mutant of Begin: it is taken as the row is read, after an edit it cannot have seen.
BeginLate == [pc |-> "reading", edits |-> edits + 1, version |-> 0]

Begin == [pc |-> "reading", edits |-> edits, version |-> 0]

Create ==
  /\ built' = built + 1
  /\ build' = [build EXCEPT ![built + 1] = Begin]

\* Start: a registered client answers on the spot.
Find(w) ==
  /\ waiter[w].pc = "idle"
  /\ waiter' = [waiter EXCEPT ![w] = [pc |-> IF registered # 0 THEN "client" ELSE "missed",
                                      since |-> Cardinality({e \in Editors : editor[e].pc = "done"})]]
  /\ UNCHANGED <<row, edits, rowEdit, editor, requests, build, built, registered, posts, phase>>

\* Mutant of Enlist: the registry is not looked at again under _requestMutex.
EnlistBlind(w) ==
  /\ waiter[w].pc = "missed"
  /\ /\ Answer({w}, "waiting") /\ requests' = requests \cup {w}
     /\ IF requests = {} THEN Create ELSE UNCHANGED <<build, built>>
  /\ UNCHANGED <<row, edits, rowEdit, editor, registered, posts, phase>>

\* Under _requestMutex: looked for again, else enlisted; the first builds.
Enlist(w) ==
  /\ waiter[w].pc = "missed"
  /\ IF registered # 0
     THEN Answer({w}, "client") /\ UNCHANGED <<requests, build, built>>
     ELSE /\ Answer({w}, "waiting") /\ requests' = requests \cup {w}
          /\ IF requests = {} THEN Create ELSE UNCHANGED <<build, built>>
  /\ UNCHANGED <<row, edits, rowEdit, editor, registered, posts, phase>>

\* Create's catch: every waiter is failed.
CreateFails(n) ==
  /\ build' = [build EXCEPT ![n].pc = "gone"]
  /\ requests' = {} /\ Answer(requests, "failed")

ReadRow(n) ==
  /\ build[n].pc = "reading"
  /\ \/ row = 0 /\ CreateFails(n)
     \/ /\ row # 0
        /\ build' = [build EXCEPT ![n].pc = "queued", ![n].version = row]
        /\ UNCHANGED <<requests, waiter>>
  /\ UNCHANGED <<row, edits, rowEdit, editor, built, registered, posts, phase>>

\* The job on the blocking pool begins; a shutdown fails it, an edit reads the row again.
TakeJob(n) ==
  /\ build[n].pc = "queued"
  /\ IF ShuttingDown THEN CreateFails(n)
     ELSE /\ build' = [build EXCEPT ![n] = IF EditedSince(n) THEN Begin ELSE [@ EXCEPT !.pc = "building"]]
          /\ UNCHANGED <<requests, waiter>>
  /\ UNCHANGED <<row, edits, rowEdit, editor, built, registered, posts, phase>>

\* The client is made and its connect sent, or that throws.
Connect(n) ==
  /\ build[n].pc = "building"
  /\ \/ CreateFails(n)
     \/ build' = [build EXCEPT ![n].pc = "awaiting"] /\ UNCHANGED <<requests, waiter>>
  /\ UNCHANGED <<row, edits, rowEdit, editor, built, registered, posts, phase>>

-----------------------------------------------------------------------------
(* UAClient.                                                               *)

\* Mutant of AnswerConnect: the edits are not looked at as the client is registered.
AnswerConnectStale(n, activated) ==
  /\ IF activated
     THEN registered' = n /\ build' = [build EXCEPT ![n].pc = "registered"]
     ELSE UNCHANGED registered /\ build' = [build EXCEPT ![n].pc = "gone"]
  /\ posts' = posts \cup {[task |-> IF activated THEN "resume" ELSE "fail", of |-> n]}

\* Mutant of AnswerConnect: a connect that has to start over is only stopped.
AnswerConnectOnce(n, activated) ==
  /\ IF activated /\ ~EditedSince(n)
     THEN registered' = n /\ build' = [build EXCEPT ![n].pc = "registered"]
     ELSE UNCHANGED registered /\ build' = [build EXCEPT ![n].pc = "gone"]
  /\ posts' = IF EditedSince(n) THEN posts
              ELSE posts \cup {[task |-> IF activated THEN "resume" ELSE "fail", of |-> n]}

\* Registered and its waiters resumed, or failed; or ConnectAgain, on a row edited since.
AnswerConnect(n, activated) ==
  /\ IF activated /\ ~EditedSince(n)
     THEN registered' = n /\ build' = [build EXCEPT ![n].pc = "registered"]
     ELSE UNCHANGED registered /\ build' = [build EXCEPT ![n].pc = "gone"]
  /\ posts' = posts \cup {[task |-> IF EditedSince(n) THEN "create" ELSE IF activated THEN "resume" ELSE "fail",
                           of |-> n]}

\* StateCallback of a client in _awaitingActivation.
StateCallback(n, activated) ==
  /\ build[n].pc = "awaiting"
  /\ AnswerConnect(n, activated)
  /\ UNCHANGED <<row, edits, rowEdit, editor, waiter, requests, built, phase>>

\* BadIdentityTokenRejected: out of _awaitingActivation, answered when the pool has read why.
IdentityRejected(n) ==
  /\ build[n].pc = "awaiting"
  /\ build' = [build EXCEPT ![n].pc = "rejected"]
  /\ UNCHANGED <<row, edits, rowEdit, editor, waiter, requests, built, registered, posts, phase>>

RejectionRead(n) ==
  /\ build[n].pc = "rejected"
  /\ AnswerConnect(n, FALSE)
  /\ UNCHANGED <<row, edits, rowEdit, editor, waiter, requests, built, phase>>

\* A posted ConnectAwait::Resume, or ConnectAgain's Create.
RunPost(p) ==
  /\ posts' = posts \ {p}
  /\ IF p.task = "create"
     THEN Create /\ UNCHANGED <<requests, waiter>>
     ELSE /\ requests' = {}
          /\ Answer(requests, IF p.task = "resume" THEN "client" ELSE "failed")
          /\ UNCHANGED <<build, built>>
  /\ UNCHANGED <<row, edits, rowEdit, editor, registered, phase>>

\* Only this client's own entry is erased.
Deregister(n) ==
  /\ registered' = IF registered = n THEN 0 ELSE registered
  /\ build' = [build EXCEPT ![n].pc = "gone"]

\* ConnectionLost or RemoveClient of a registered client.
Lost(n) ==
  /\ registered = n
  /\ Deregister(n)
  /\ UNCHANGED <<row, edits, rowEdit, editor, waiter, requests, built, posts, phase>>

-----------------------------------------------------------------------------
(* ServerCnnctnMAwait: the row is committed, then ConnectionEdited.        *)

Commit(e, removed) ==
  /\ editor[e].pc = "idle" /\ row # 0
  /\ row' = IF removed THEN 0 ELSE row + 1
  /\ editor' = [editor EXCEPT ![e].pc = "committed"]
  /\ UNCHANGED <<edits, rowEdit, waiter, requests, build, built, registered, posts, phase>>

\* Mutant of RecordEdit: the clients are looked for first.
RecordAfter(e) ==
  /\ editor[e].pc = "committed"
  /\ UNCHANGED <<edits, rowEdit>>
  /\ editor' = [editor EXCEPT ![e].pc = "recorded"]
  /\ UNCHANGED <<row, waiter, requests, build, built, registered, posts, phase>>

RecordEdit(e) ==
  /\ editor[e].pc = "committed"
  /\ edits' = edits + 1 /\ rowEdit' = edits + 1
  /\ editor' = [editor EXCEPT ![e].pc = "recorded"]
  /\ UNCHANGED <<row, waiter, requests, build, built, registered, posts, phase>>

BuiltFrom(e) ==
  /\ editor[e].pc = "recorded"
  /\ editor' = [editor EXCEPT ![e].pc = "found", ![e].client = registered]
  /\ UNCHANGED <<row, edits, rowEdit, waiter, requests, build, built, registered, posts, phase>>

ConnectionEdited(e) ==
  /\ editor[e].pc = "found"
  /\ editor' = [editor EXCEPT ![e].pc = "done"]
  /\ IF editor[e].client = 0 THEN UNCHANGED <<registered, build>> ELSE Deregister(editor[e].client)
  /\ UNCHANGED <<row, edits, rowEdit, waiter, requests, built, posts, phase>>

-----------------------------------------------------------------------------
ShutDown ==
  /\ phase = "running"
  /\ phase' = "stopping"
  /\ UNCHANGED <<row, edits, rowEdit, editor, waiter, requests, build, built, registered, posts>>

\* Mutant of PoolStops: a connect still building is not waited for.
PoolStopsAtOnce ==
  /\ phase = "stopping"
  /\ phase' = "pool"
  /\ UNCHANGED <<row, edits, rowEdit, editor, waiter, requests, build, built, registered, posts>>

\* BlockingPool::Stop joins the job that runs.
PoolStops ==
  /\ phase = "stopping"
  /\ \A n \in Builds : build[n].pc # "building"
  /\ phase' = "pool"
  /\ UNCHANGED <<row, edits, rowEdit, editor, waiter, requests, build, built, registered, posts>>

\* UAClient::Shutdown: AbandonConnects, then the registered ones are stopped and cleared.
AbandonConnects ==
  /\ phase = "pool"
  /\ phase' = "abandoned"
  /\ LET awaiting == {n \in Builds : build[n].pc = "awaiting"}
     IN  /\ build' = [n \in Builds |-> IF n \in awaiting THEN [build[n] EXCEPT !.pc = "gone"] ELSE build[n]]
         /\ posts' = posts \cup {[task |-> "fail", of |-> n] : n \in awaiting}
  /\ UNCHANGED <<row, edits, rowEdit, editor, waiter, requests, built, registered>>

ClearClients ==
  /\ phase = "abandoned"
  /\ phase' = "cleared"
  /\ registered' = 0
  /\ UNCHANGED <<row, edits, rowEdit, editor, waiter, requests, build, built, posts>>

-----------------------------------------------------------------------------
Connecting(n) ==
  ReadRow(n) \/ TakeJob(n) \/ Connect(n) \/ RejectionRead(n)
    \/ \E activated \in BOOLEAN : StateCallback(n, activated)

Next ==
  \/ \E w \in Waiters : Find(w) \/ Enlist(w)
  \/ \E n \in Builds : Connecting(n) \/ IdentityRejected(n) \/ Lost(n)
  \/ \E p \in posts : RunPost(p)
  \/ \E e \in Editors : RecordEdit(e) \/ BuiltFrom(e) \/ ConnectionEdited(e) \/ \E removed \in BOOLEAN : Commit(e, removed)
  \/ ShutDown \/ PoolStops \/ AbandonConnects \/ ClearClients

\* A read, a job and a posted task run, and a connect is answered one way or the other.
Fairness ==
  /\ \A n \in Builds : WF_vars(Connecting(n))
  /\ WF_vars(\E p \in posts : RunPost(p))

Spec == Init /\ [][Next]_vars
FairSpec == Spec /\ Fairness

-----------------------------------------------------------------------------
Connects == {n \in Builds : build[n].pc \in Active}

TypeOK ==
  /\ row \in 0..(1 + Cardinality(Editors))
  /\ edits \in 0..Cardinality(Editors) /\ rowEdit \in 0..edits
  /\ \A e \in Editors : editor[e].pc \in {"idle", "committed", "recorded", "found", "done"}
  /\ \A w \in Waiters : waiter[w].pc \in {"idle", "missed", "waiting", "client", "failed"}
  /\ requests \subseteq Waiters
  /\ \A n \in Builds : build[n].pc \in Active \cup {"none", "registered", "gone"} /\ build[n].edits \in 0..edits
  /\ registered \in {0} \cup Builds
  /\ \A p \in posts : p.task \in {"create", "resume", "fail"} /\ p.of \in Builds

\* One client is connecting at a time, and only while none is registered: the entry
\* AnswerConnect makes is always new (its ASSERT(inserted)), whatever order the
\* callers, the drop of a client and the drain of its waiters come in.
OneClientPerKey == Cardinality(Connects) <= 1 /\ (Connects # {} => registered = 0)

\* Whoever waits is in _requests, and something is on its way that will empty it: a
\* connect, or a task posted.
NoWaiterStranded ==
  /\ requests = {w \in Waiters : waiter[w].pc = "waiting"}
  /\ requests # {} => Connects # {} \/ posts # {}

\* A client whose row was edited after it was read is not left registered: the edit
\* that made it stale has yet to look for it, or has it in hand.
StaleIsFound ==
  registered # 0 /\ build[registered].version # row =>
    \E e \in Editors : \/ editor[e].pc \in {"committed", "recorded"}
                       \/ editor[e].pc = "found" /\ editor[e].client = registered

\* Once shutdown has cleared the registry, nothing is registered again.
NoneAfterShutdown == phase = "cleared" => registered = 0 /\ \A n \in Builds : build[n].pc \notin {"building", "awaiting"}

GivesTheRowsClient ==
  \A w \in Waiters : waiter[w].pc # "client" /\ waiter'[w].pc = "client" /\ registered # 0 /\ row # 0 =>
    build[registered].version > waiter'[w].since

\* The registered client of a caller that called after an edit was done is not built
\* from the row as it was before (its version counts the edits committed).
NeverAnOlderRow == [][GivesTheRowsClient]_vars

\* Every caller that waits for a connect is answered.
Waits(w) == waiter[w].pc = "waiting"
IsAnswered(w) == waiter[w].pc \in {"client", "failed"}
EveryWaiterAnswered == \A w \in Waiters : Waits(w) ~> IsAnswered(w)
=============================================================================
