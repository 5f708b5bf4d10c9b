------------------------------ MODULE MCLive ------------------------------
(*****************************************************************************)
(* Liveness: small instances of the components that promise that something   *)
(* comes, with the fairness of their own schedulers. A behaviour is one      *)
(* component's, and the components take turns with the same state            *)
(* variables, so that a state is no larger than the component it is of.      *)
(*****************************************************************************)
EXTENDS Integers, Sequences, FiniteSets

VARIABLES part, s1, s2, s3, s4, s5, s6, s7, s8, s9, s10, s11, s12, s13, s14, s15

\* A small address space with a cycle.
MCChildren == [o |-> <<"a", "b">>, a |-> <<"b", "o">>, b |-> << >>]

\* Two members whose browse paths a second answer swaps.
PathIds == << [a |-> 1, b |-> 2], [a |-> 2, b |-> 1] >>

\* A record of the first day.
DaysOf == [r1 |-> 1, r2 |-> 2]

\* Connects of one slug and credential, and an edit of its row.
Connect == INSTANCE ClientConnect WITH Waiters <- {"w1", "w2"}, Editors <- {"e1"}, row <- s1, edits <- s2,
  rowEdit <- s3, editor <- s4, waiter <- s5, requests <- s6, build <- s7, built <- s8, registered <- s9, posts <- s10,
  phase <- s11
\* A listener of a node, over a loss of the client and of its session.
Reconnection == INSTANCE Reconnect WITH Listeners <- {"l1"}, Nodes <- {"n1"}, MaxRejections <- 2, MaxClients <- 2,
  MaxSessions <- 1, MaxAway <- 1, MaxAsks <- 1, client <- s1, pending <- s2, chain <- s3, rebuild <- s4, want <- s5,
  left <- s6, slipped <- s7, closed <- s8, ask <- s9, count <- s10, phase <- s11
\* The pump of one client.
Loop == INSTANCE ProcessingLoop WITH Requests <- {"r1", "r2"}, MaxLapses <- 2, Monitored <- TRUE, c <- s1,
  session <- s2, used <- s3, lapses <- s4
\* A connection of the asio manager.
Asio == INSTANCE AsioConnection WITH Connections <- {"k1"}, MaxPosts <- 1, MaxTx <- 1, conn <- s1, manager <- s2,
  raising <- s3
\* The node index's slot.
Slot == INSTANCE LazySlot WITH Callers <- {"c1", "c2"}, Owner <- "index", MaxFetches <- 2, slot <- s1, fetches <- s2,
  outcome <- s3, held <- s4, call <- s5, resumes <- s6
\* A crawl of the address space.
Crawl == INSTANCE NodeCrawl WITH Root <- "o", Children <- MCChildren, Skipped <- {}, Browsable <- {"a", "b"},
  MaxDepth <- 2, MaxNodes <- 3, BrowseBatch <- 1, pending <- s1, level <- s2, batch <- s3, depthOf <- s4,
  truncated <- s5, refused <- s6, stop <- s7, state <- s8, visited <- s9
\* A hosted group, its connection breaking once.
GroupHost == INSTANCE HistGroupHost WITH Members <- {"a", "b"}, IdOf <- PathIds, MaxBreaks <- 1, MaxRemovals <- 1,
  MaxRefusals <- 1, MaxEdits <- 0, node <- s1, host <- s2, pass <- s3, verify <- s4, calls <- s5, held <- s6,
  connected <- s7, client <- s8, wrong <- s9, count <- s10
\* The describes of its members.
Describes == INSTANCE HistDescribe WITH Members <- {1, 2}, Batch <- 2, Limit <- 1, MaxVersions <- 2, MaxBreaks <- 1,
  MaxRefusals <- 1, version <- s1, up <- s2, node <- s3, row <- s4, batch <- s5, describing <- s6, toDescribe <- s7,
  d <- s8, dropped <- s9, count <- s10
\* Writes forwarded to a node.
Writes == INSTANCE ServedWrites WITH Nodes <- {"n"}, Addresses <- {1, 2}, MaxWrites <- 3, operation <- s1,
  queue <- s2, forward <- s3, ready <- s4, scheduled <- s5, server <- s6, stopped <- s7, stop <- s8, sent <- s9,
  set <- s10, ended <- s11, count <- s12
\* A group's day files.
Files == INSTANCE HistDayFiles WITH Records <- {"r1", "r2"}, MaxDay <- 2, MaxCrashes <- 1, MaxFailures <- 1,
  DayOf <- DaysOf, now <- s1, up <- s2, file <- s3, old <- s4, flushed <- s5, mem <- s6, buffer <- s7, pass <- s8,
  removed <- s9, ended <- s10, sent <- s11, claimed <- s12, crashes <- s13, failures <- s14
\* A client socket, a request and a closer.
Socket == INSTANCE ClientSocket WITH Requests <- {"r1"}, Closers <- {"a1"}, core <- s1, strand <- s2, held <- s3,
  reading <- s4, caller <- s5, tasks <- s6, timer <- s7, drains <- s8, erring <- s9, closer <- s10,
  closeHandle <- s11, sent <- s12, resumes <- s13, closes <- s14, late <- s15
\* An application's subscription over its session's losses.
Session == INSTANCE AppReconnect WITH Queries <- {"q1"}, MaxReplayFailures <- 2, MaxLosses <- 2, MaxRefusals <- 2,
  MaxIds <- 3, session <- s1, connect <- s2, posted <- s3, subs <- s4, asked <- s5, remembered <- s6, replay <- s7,
  leaving <- s8, left <- s9, missed <- s10, refused <- s11, used <- s12

connectVars == <<s1, s2, s3, s4, s5, s6, s7, s8, s9, s10, s11>>
reconnectVars == <<s1, s2, s3, s4, s5, s6, s7, s8, s9, s10, s11>>
loopVars == <<s1, s2, s3, s4>>
asioVars == <<s1, s2, s3>>
slotVars == <<s1, s2, s3, s4, s5, s6>>
crawlVars == <<s1, s2, s3, s4, s5, s6, s7, s8, s9>>
groupVars == <<s1, s2, s3, s4, s5, s6, s7, s8, s9, s10>>
describeVars == <<s1, s2, s3, s4, s5, s6, s7, s8, s9, s10>>
writeVars == <<s1, s2, s3, s4, s5, s6, s7, s8, s9, s10, s11, s12>>
filesVars == <<s1, s2, s3, s4, s5, s6, s7, s8, s9, s10, s11, s12, s13, s14>>
socketVars == <<s1, s2, s3, s4, s5, s6, s7, s8, s9, s10, s11, s12, s13, s14, s15>>
sessionVars == <<s1, s2, s3, s4, s5, s6, s7, s8, s9, s10, s11, s12>>
vars == <<part, s1, s2, s3, s4, s5, s6, s7, s8, s9, s10, s11, s12, s13, s14, s15>>

\* A group that has flushed before and stays, and what a killed process gave the OS is written back.
FilesInit == Files!Init /\ s5 = {0}
FilesNext == Files!Next /\ (~s2 => s4 = [d \in Files!Days |-> {}])' /\ ~s9'


\* What the i-th promise of a component waits for, and what it comes to.
Awaits(i) ==
  \/ part = "connect" /\ i = 1 /\ Connect!Waits("w1")
  \/ part = "connect" /\ i = 2 /\ Connect!Waits("w2")
  \/ part = "reconnect"
  \/ part = "loop" /\ i = 1 /\ Loop!IsAsked("r1")
  \/ part = "loop" /\ i = 2 /\ Loop!IsAsked("r2")
  \/ part = "loop" /\ i = 3 /\ Loop!IsUnused
  \/ part = "asio" /\ i = 1 /\ Asio!IsClosing("k1")
  \/ part = "asio" /\ i = 2 /\ Asio!IsStopping
  \/ part = "slot" /\ i = 1 /\ Slot!IsParked("c1")
  \/ part = "slot" /\ i = 2 /\ Slot!IsParked("c2")
  \/ part = "crawl"
  \/ part = "describe" /\ i = 1 /\ Describes!Coming(1)
  \/ part = "describe" /\ i = 2 /\ Describes!Coming(2)
  \/ part = "write" /\ Writes!HasWrites("n")
  \/ part = "files" /\ i = 1 /\ Files!IsDue(1)
  \/ part = "files" /\ i = 2 /\ Files!IsDue(2)
  \/ part = "socket" /\ i = 1 /\ Socket!IsTasked("r1")
  \/ part = "socket" /\ i = 2 /\ Socket!Suspends("a1")
  \/ part = "session" /\ Session!IsRemembered("q1")

Comes(i) ==
  \/ part = "connect" /\ i = 1 /\ Connect!IsAnswered("w1")
  \/ part = "connect" /\ i = 2 /\ Connect!IsAnswered("w2")
  \/ part = "reconnect" /\ \A p \in Reconnection!Pairs : Reconnection!IsServed(p)
  \/ part = "loop" /\ i = 1 /\ Loop!HasEnded("r1")
  \/ part = "loop" /\ i = 2 /\ Loop!HasEnded("r2")
  \/ part = "loop" /\ i = 3 /\ Loop!IsUsedOrGone
  \/ part = "asio" /\ i = 1 /\ Asio!IsGone("k1")
  \/ part = "asio" /\ i = 2 /\ Asio!IsStopped
  \/ part = "slot" /\ i = 1 /\ Slot!IsAnswered("c1")
  \/ part = "slot" /\ i = 2 /\ Slot!IsAnswered("c2")
  \/ part = "crawl" /\ Crawl!HasEnded
  \/ part = "describe" /\ i = 1 /\ Describes!IsDescribed(1)
  \/ part = "describe" /\ i = 2 /\ Describes!IsDescribed(2)
  \/ part = "write" /\ ~Writes!HasWrites("n")
  \/ part = "files" /\ i = 1 /\ Files!IsArchivedOrGone(1)
  \/ part = "files" /\ i = 2 /\ Files!IsArchivedOrGone(2)
  \/ part = "socket" /\ i = 1 /\ Socket!IsResumed("r1")
  \/ part = "socket" /\ i = 2 /\ Socket!IsDone("a1")
  \/ part = "session" /\ Session!IsCarried("q1")

Init ==
  \/ part = "connect" /\ Connect!Init /\ s12 = 0 /\ s13 = 0 /\ s14 = 0 /\ s15 = 0
  \/ part = "reconnect" /\ Reconnection!Init /\ s12 = 0 /\ s13 = 0 /\ s14 = 0 /\ s15 = 0
  \/ part = "loop" /\ Loop!Init /\ s5 = 0 /\ s6 = 0 /\ s7 = 0 /\ s8 = 0 /\ s9 = 0 /\ s10 = 0 /\ s11 = 0 /\ s12 = 0 /\ s13 = 0 /\ s14 = 0 /\ s15 = 0
  \/ part = "asio" /\ Asio!Init /\ s4 = 0 /\ s5 = 0 /\ s6 = 0 /\ s7 = 0 /\ s8 = 0 /\ s9 = 0 /\ s10 = 0 /\ s11 = 0 /\ s12 = 0 /\ s13 = 0 /\ s14 = 0 /\ s15 = 0
  \/ part = "slot" /\ Slot!Init /\ s7 = 0 /\ s8 = 0 /\ s9 = 0 /\ s10 = 0 /\ s11 = 0 /\ s12 = 0 /\ s13 = 0 /\ s14 = 0 /\ s15 = 0
  \/ part = "crawl" /\ Crawl!Init /\ s10 = 0 /\ s11 = 0 /\ s12 = 0 /\ s13 = 0 /\ s14 = 0 /\ s15 = 0
  \/ part = "group" /\ GroupHost!Init /\ s11 = 0 /\ s12 = 0 /\ s13 = 0 /\ s14 = 0 /\ s15 = 0
  \/ part = "describe" /\ Describes!Init /\ s11 = 0 /\ s12 = 0 /\ s13 = 0 /\ s14 = 0 /\ s15 = 0
  \/ part = "write" /\ Writes!Init /\ s13 = 0 /\ s14 = 0 /\ s15 = 0
  \/ part = "files" /\ FilesInit /\ s15 = 0
  \/ part = "socket" /\ Socket!Init
  \/ part = "session" /\ Session!Init /\ s13 = 0 /\ s14 = 0 /\ s15 = 0

Next ==
  \/ part = "connect" /\ Connect!Next /\ UNCHANGED <<part, s12, s13, s14, s15>>
  \/ part = "reconnect" /\ Reconnection!Next /\ UNCHANGED <<part, s12, s13, s14, s15>>
  \/ part = "loop" /\ Loop!Next /\ UNCHANGED <<part, s5, s6, s7, s8, s9, s10, s11, s12, s13, s14, s15>>
  \/ part = "asio" /\ Asio!Next /\ UNCHANGED <<part, s4, s5, s6, s7, s8, s9, s10, s11, s12, s13, s14, s15>>
  \/ part = "slot" /\ Slot!Next /\ UNCHANGED <<part, s7, s8, s9, s10, s11, s12, s13, s14, s15>>
  \/ part = "crawl" /\ Crawl!Next /\ UNCHANGED <<part, s10, s11, s12, s13, s14, s15>>
  \/ part = "group" /\ GroupHost!Next /\ UNCHANGED <<part, s11, s12, s13, s14, s15>>
  \/ part = "describe" /\ Describes!Next /\ UNCHANGED <<part, s11, s12, s13, s14, s15>>
  \/ part = "write" /\ Writes!Next /\ UNCHANGED <<part, s13, s14, s15>>
  \/ part = "files" /\ FilesNext /\ UNCHANGED <<part, s15>>
  \/ part = "socket" /\ Socket!Next /\ UNCHANGED <<part>>
  \/ part = "session" /\ Session!Next /\ UNCHANGED <<part, s13, s14, s15>>

\* Each condition names its part, so that it says nothing of a behaviour of another.
Fairness ==
  /\ \A n \in Connect!Builds : WF_(connectVars)(part = "connect" /\ Connect!Connecting(n))
  /\ WF_(connectVars)(part = "connect" /\ (\E p \in s10 : Connect!RunPost(p)))
  /\ \A c \in Reconnection!Clients : WF_(reconnectVars)(part = "reconnect" /\ Reconnection!Deregister(c))
  /\ \A r \in Reconnection!Rebuilds : WF_(reconnectVars)(part = "reconnect" /\ Reconnection!Rebuilding(r))
  /\ \A k \in Reconnection!Chains : WF_(reconnectVars)(part = "reconnect" /\ Reconnection!Reconnecting(k))
  /\ WF_(reconnectVars)(part = "reconnect" /\ (Reconnection!ClientsToWalk \/ Reconnection!Walked \/ \E c \in Reconnection!Clients : Reconnection!WalkClient(c)))
  /\ \A id \in Loop!Ids : WF_(loopVars)(part = "loop" /\ Loop!Resubmit(id)) /\ WF_(loopVars)(part = "loop" /\ Loop!WakeAnswered(id))
  /\ WF_(loopVars)(part = "loop" /\ Loop!RunStarter)
  /\ WF_(loopVars)(part = "loop" /\ Loop!PingFires)
  /\ WF_(loopVars)(part = "loop" /\ Loop!FailPending)
  /\ WF_(loopVars)(part = "loop" /\ Loop!WakeStopped)
  /\ WF_(loopVars)(part = "loop" /\ Loop!WakeDead)
  /\ WF_(loopVars)(part = "loop" /\ Loop!WakeActivated)
  /\ WF_(loopVars)(part = "loop" /\ Loop!WakeDrained)
  /\ WF_(loopVars)(part = "loop" /\ Loop!WakeIdle)
  /\ WF_(asioVars)(part = "asio" /\ Asio!RaiseEnd)
  /\ WF_(asioVars)(part = "asio" /\ Asio!RunPost("k1"))
  /\ WF_(asioVars)(part = "asio" /\ Asio!Loop("k1"))
  /\ WF_(asioVars)(part = "asio" /\ (\E op \in Asio!Ops : (op = "read" => s1["k1"].state = "Closing") /\ Asio!Complete("k1", op)))
  /\ WF_(slotVars)(part = "slot" /\ (\E how \in Slot!Outcomes : Slot!Finish(how)))
  /\ \A c \in {"c1", "c2"} : WF_(slotVars)(part = "slot" /\ (\E r \in s6 : r.to = c /\ Slot!Answer(r)))
  /\ WF_(crawlVars)(part = "crawl" /\ Crawl!Next)
  /\ WF_(groupVars)(part = "group" /\ (\E k \in s5 : GroupHost!Subscribe(k)))
  /\ WF_(groupVars)(part = "group" /\ (\E k \in s5 : GroupHost!RunDrop(k)))
  /\ WF_(groupVars)(part = "group" /\ GroupHost!RetryFires)
  /\ WF_(groupVars)(part = "group" /\ GroupHost!PassFails)
  /\ WF_(groupVars)(part = "group" /\ GroupHost!PassConnects)
  /\ WF_(groupVars)(part = "group" /\ GroupHost!PassReads)
  /\ WF_(groupVars)(part = "group" /\ GroupHost!PassSends)
  /\ WF_(groupVars)(part = "group" /\ (\E r \in SUBSET GroupHost!Ids : GroupHost!PassAcked(r)))
  /\ WF_(groupVars)(part = "group" /\ (\E r \in SUBSET GroupHost!Ids : GroupHost!Restored(r)))
  /\ WF_(groupVars)(part = "group" /\ (\E c \in s4, reads \in BOOLEAN : GroupHost!Verified(c, reads)))
  /\ WF_(groupVars)(part = "group" /\ GroupHost!Check(TRUE) /\ ~s2.subscribing)
  /\ WF_(describeVars)(part = "describe" /\ Describes!Steps)
  /\ WF_(describeVars)(part = "describe" /\ Describes!Redescribe)
  /\ WF_(describeVars)(part = "describe" /\ Describes!Returns)
  /\ WF_(writeVars)(part = "write" /\ Writes!Executes("n"))
  /\ WF_(writeVars)(part = "write" /\ Writes!Answered)
  /\ WF_(writeVars)(part = "write" /\ (Writes!StopWrites \/ Writes!StopReady \/ Writes!ServerGone))
  /\ WF_(filesVars)(part = "files" /\ Files!Start)
  /\ WF_(filesVars)(part = "files" /\ Files!FlushStep)
  /\ WF_(filesVars)(part = "files" /\ Files!Tick)
  /\ WF_(socketVars)(part = "socket" /\ (Socket!StrandWrite \/ Socket!StrandClose \/ Socket!StrandAwait))
  /\ WF_(socketVars)(part = "socket" /\ (s1.transportClosed /\ (Socket!CloseDone \/ Socket!Wrote(FALSE))))
  /\ WF_(socketVars)(part = "socket" /\ Socket!DeadlineFires)
  /\ \A at \in {"strand", "other"} : WF_(socketVars)(part = "socket" /\ (Socket!CancelTimeouts(at) \/ Socket!FailTasks(at)))
  /\ WF_(socketVars)(part = "socket" /\ Socket!Finish)
  /\ WF_(socketVars)(part = "socket" /\ (Socket!AddTimeout("r1") \/ Socket!Write("r1")))
  /\ WF_(socketVars)(part = "socket" /\ Socket!TimerEnds("r1"))
  /\ WF_(socketVars)(part = "socket" /\ Socket!CloseOnError("r1"))
  /\ WF_(socketVars)(part = "socket" /\ Socket!Suspend("a1"))
  /\ WF_(sessionVars)(part = "session" /\ Session!LoggedIn)
  /\ WF_(sessionVars)(part = "session" /\ Session!Wakes)
  /\ WF_(sessionVars)(part = "session" /\ Session!Registered)
  /\ WF_(sessionVars)(part = "session" /\ Session!StartReplay)
  /\ WF_(sessionVars)(part = "session" /\ Session!ForgetRemoved)
  /\ WF_(sessionVars)(part = "session" /\ (\E a \in s5 : Session!Acked(a)))

Spec == Init /\ [][Next]_vars /\ Fairness

\* What is awaited comes. A connect ends for each of its callers (ClientConnect!EveryWaiterAnswered); a node still
\* listened to is monitored again or given up (Reconnect!SubscriptionsComeBack); every request of a client ends and
\* an idle client is removed (ProcessingLoop!EveryRequestEnds, IdleIsRemoved); an asio close is answered and a stop
\* ends (AsioConnection!CloseEnds, StopEnds); a slot's callers are resumed (LazySlot!Answered); a crawl ends
\* (NodeCrawl!CrawlEnds); a member is described (HistDescribe!DescribedAtLast); a forwarded write ends
\* (ServedWrites!EveryWriteEnds); a past day is archived (HistDayFiles!PastIsArchived); a socket's request ends and
\* its closer is resumed (ClientSocket!EveryRequestEnds, EveryCloserEnds); and a subscription remembered is live
\* again or dropped (AppReconnect!RememberedComesBack). A behaviour has one part, so the components' leads-to
\* formulas are one.
PromisesAreKept == \A i \in 1..3 : Awaits(i) ~> Comes(i)

\* A hosted group: every member that can be is collected in the end (HistGroupHost::Check and its passes).
MembersAreCollected == <>[](part = "group" => GroupHost!AllCollected)
=============================================================================
