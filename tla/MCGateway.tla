------------------------------ MODULE MCGateway ------------------------------
(*****************************************************************************)
(* Small instances of the OPC gateway's client components: connects,         *)
(* reconnects, the request pump, the asio connections, monitored items and   *)
(* their modifies, the lazily filled caches the address-space crawl, and     *)
(* the web page that talks to the gateway. One run checks them all, each     *)
(* behaviour one component's.                                                *)
(*****************************************************************************)
EXTENDS Integers, Sequences, FiniteSets

VARIABLES
  part, \* the component whose instance runs
  connect_row, connect_edits, connect_rowEdit, connect_editor, connect_waiter, connect_requests, connect_build,
  connect_built, connect_registered, connect_posts, connect_phase,
  reconnect_client, reconnect_pending, reconnect_chain, reconnect_rebuild, reconnect_want, reconnect_left,
  reconnect_slipped, reconnect_closed, reconnect_ask, reconnect_count, reconnect_phase,
  loop_c, loop_session, loop_used, loop_lapses,
  asio_conn, asio_manager, asio_raising,
  items_cached, items_items, items_ask, items_queued, items_wire, items_timers, items_deletes, items_pumped,
  items_stopping, items_server, items_acked, items_second, items_used,
  modify_asked, modify_granted, modify_requested, modify_pending, modify_computed, modify_posted, modify_out,
  modify_server, modify_overtaken, modify_changes,
  slot_slot, slot_fetches, slot_outcome, slot_held, slot_call, slot_resumes,
  cache_slot, cache_fetches, cache_outcome, cache_held, cache_call, cache_resumes,
  crawl_pending, crawl_level, crawl_batch, crawl_depthOf, crawl_truncated, crawl_refused, crawl_stop, crawl_state,
  crawl_visited,
  page_net, page_kind, page_outcome, page_authorizes, page_acked, page_jobs, page_credential, page_page, page_cut,
  rest_store, rest_sessions, rest_call, rest_login, rest_renewal, rest_resumes, rest_called, rest_sentAs,
  rest_signIns, rest_prompts, rest_moved

\* What listeners ask of one node: sampling, queue, discard, trigger and deadband.
Ask(s, q, d, t, b, v) == [sampling |-> s, queue |-> q, discard |-> d, trigger |-> t, deadband |-> b, value |-> v]
MCAsks == {Ask(1, 1, TRUE, 1, "none", 0), Ask(2, 5, FALSE, 2, "absolute", 3), Ask(1, 5, FALSE, 1, "absolute", 2),
           Ask(2, 1, FALSE, 1, "percent", 4)}

\* A small address space: two ways to d, two cycles, and a node that is skipped.
MCChildren == [o |-> <<"a", "b", "s">>, a |-> <<"d", "o">>, b |-> <<"c", "d">>, c |-> <<"d">>, d |-> <<"e", "b">>,
               e |-> << >>, s |-> <<"a">>]

\* Connects of one slug and credential, and an edit of its row.
Connect == INSTANCE ClientConnect WITH Waiters <- {"w1", "w2"}, Editors <- {"e1"}, row <- connect_row,
  edits <- connect_edits, rowEdit <- connect_rowEdit, editor <- connect_editor, waiter <- connect_waiter,
  requests <- connect_requests, build <- connect_build, built <- connect_built, registered <- connect_registered,
  posts <- connect_posts, phase <- connect_phase
\* A listener of two nodes, over a loss of the client and of its session.
Reconnection == INSTANCE Reconnect WITH Listeners <- {"l1"}, Nodes <- {"n1", "n2"}, MaxRejections <- 2,
  MaxClients <- 2, MaxSessions <- 1, MaxAway <- 1, MaxAsks <- 2, client <- reconnect_client,
  pending <- reconnect_pending, chain <- reconnect_chain, rebuild <- reconnect_rebuild, want <- reconnect_want,
  left <- reconnect_left, slipped <- reconnect_slipped, closed <- reconnect_closed, ask <- reconnect_ask,
  count <- reconnect_count, phase <- reconnect_phase
\* The pump of one client, two requests and its monitored items.
Loop == INSTANCE ProcessingLoop WITH Requests <- {"r1", "r2"}, MaxLapses <- 2, Monitored <- TRUE, c <- loop_c,
  session <- loop_session, used <- loop_used, lapses <- loop_lapses
\* A connection of open62541's asio manager.
Asio == INSTANCE AsioConnection WITH Connections <- {"k1"}, MaxPosts <- 2, MaxTx <- 2, conn <- asio_conn,
  manager <- asio_manager, raising <- asio_raising
\* Two listeners of one node, and the data subscription they share.
Items == INSTANCE MonitoredItems WITH Listeners <- {"l1", "l2"}, Nodes <- {"n1"}, Asks <- {1, 2}, MaxAsks <- 3,
  MaxSubscriptions <- 3, MaxItems <- 3, cached <- items_cached, items <- items_items, ask <- items_ask,
  queued <- items_queued, wire <- items_wire, timers <- items_timers, deletes <- items_deletes,
  pumped <- items_pumped, stopping <- items_stopping, server <- items_server, acked <- items_acked,
  second <- items_second, used <- items_used
\* What two listeners ask of one item, merged.
Modifies == INSTANCE ItemModify WITH Listeners <- {"l1", "l2"}, Asks <- MCAsks, MaxChanges <- 2,
  asked <- modify_asked, granted <- modify_granted, requested <- modify_requested, pending <- modify_pending,
  computed <- modify_computed, posted <- modify_posted, out <- modify_out, server <- modify_server,
  overtaken <- modify_overtaken, changes <- modify_changes
\* The node index's slot, two callers.
Slot == INSTANCE LazySlot WITH Callers <- {"c1", "c2"}, Owner <- "index", MaxFetches <- 3, slot <- slot_slot,
  fetches <- slot_fetches, outcome <- slot_outcome, held <- slot_held, call <- slot_call, resumes <- slot_resumes
\* A cache's slot, forgotten on failure.
Cache == INSTANCE LazySlot WITH Callers <- {"c1", "c2"}, Owner <- "cache", MaxFetches <- 3, slot <- cache_slot,
  fetches <- cache_fetches, outcome <- cache_outcome, held <- cache_held, call <- cache_call, resumes <- cache_resumes
\* A crawl of the address space.
Crawl == INSTANCE NodeCrawl WITH Root <- "o", Children <- MCChildren, Skipped <- {"s"},
  Browsable <- {"a", "b", "c", "d"}, MaxDepth <- 3, MaxNodes <- 6, BrowseBatch <- 3, pending <- crawl_pending,
  level <- crawl_level, batch <- crawl_batch, depthOf <- crawl_depthOf, truncated <- crawl_truncated,
  refused <- crawl_refused, stop <- crawl_stop, state <- crawl_state, visited <- crawl_visited
\* A page's socket over a loss and a return from the page cache.
Page == INSTANCE BrowserSocket WITH MaxRequests <- 4, MaxSockets <- 2, MaxReloads <- 1, net <- page_net,
  kind <- page_kind, outcome <- page_outcome, authorizes <- page_authorizes, acked <- page_acked, jobs <- page_jobs,
  credential <- page_credential, page <- page_page, cut <- page_cut
\* A page's requests and the sessions they carry.
Rest == INSTANCE BrowserRest WITH Gets <- {"g1"}, Posts <- {"p1", "p2"}, MaxSessions <- 2, MaxSignIns <- 1,
  MaxPrompts <- 2, store <- rest_store, sessions <- rest_sessions, call <- rest_call, login <- rest_login,
  renewal <- rest_renewal, resumes <- rest_resumes, called <- rest_called, sentAs <- rest_sentAs,
  signIns <- rest_signIns, prompts <- rest_prompts, moved <- rest_moved

connectVars == <<connect_row, connect_edits, connect_rowEdit, connect_editor, connect_waiter, connect_requests,
  connect_build, connect_built, connect_registered, connect_posts, connect_phase>>
reconnectVars == <<reconnect_client, reconnect_pending, reconnect_chain, reconnect_rebuild, reconnect_want,
  reconnect_left, reconnect_slipped, reconnect_closed, reconnect_ask, reconnect_count, reconnect_phase>>
loopVars == <<loop_c, loop_session, loop_used, loop_lapses>>
asioVars == <<asio_conn, asio_manager, asio_raising>>
itemsVars == <<items_cached, items_items, items_ask, items_queued, items_wire, items_timers, items_deletes,
  items_pumped, items_stopping, items_server, items_acked, items_second, items_used>>
modifyVars == <<modify_asked, modify_granted, modify_requested, modify_pending, modify_computed, modify_posted,
  modify_out, modify_server, modify_overtaken, modify_changes>>
slotVars == <<slot_slot, slot_fetches, slot_outcome, slot_held, slot_call, slot_resumes>>
cacheVars == <<cache_slot, cache_fetches, cache_outcome, cache_held, cache_call, cache_resumes>>
crawlVars == <<crawl_pending, crawl_level, crawl_batch, crawl_depthOf, crawl_truncated, crawl_refused, crawl_stop,
  crawl_state, crawl_visited>>
pageVars == <<page_net, page_kind, page_outcome, page_authorizes, page_acked, page_jobs, page_credential, page_page,
  page_cut>>
restVars == <<rest_store, rest_sessions, rest_call, rest_login, rest_renewal, rest_resumes, rest_called, rest_sentAs,
  rest_signIns, rest_prompts, rest_moved>>
vars == <<part, connectVars, reconnectVars, loopVars, asioVars, itemsVars, modifyVars, slotVars, cacheVars, crawlVars,
  pageVars, restVars>>

Init ==
  /\ part \in {"connect", "reconnect", "loop", "asio", "items", "modify", "slot", "cache", "crawl", "page", "rest"}
  /\ Connect!Init
  /\ Reconnection!Init
  /\ Loop!Init
  /\ Asio!Init
  /\ Items!Init
  /\ \/ part = "modify" /\ Modifies!Init
     \/ part # "modify" /\ modify_asked = 0 /\ modify_granted = 0 /\ modify_requested = 0 /\ modify_pending = 0 /\
        modify_computed = 0 /\ modify_posted = 0 /\ modify_out = 0 /\ modify_server = 0 /\ modify_overtaken = 0 /\
        modify_changes = 0
  /\ Slot!Init
  /\ Cache!Init
  /\ Crawl!Init
  /\ \/ part = "page" /\ Page!Init
     \/ part # "page" /\ page_net = 0 /\ page_kind = 0 /\ page_outcome = 0 /\ page_authorizes = 0 /\ page_acked = 0 /\
        page_jobs = 0 /\ page_credential = 0 /\ page_page = 0 /\ page_cut = 0
  /\ \/ part = "rest" /\ Rest!Init
     \/ part # "rest" /\ rest_store = 0 /\ rest_sessions = 0 /\ rest_call = 0 /\ rest_login = 0 /\ rest_renewal = 0 /\
        rest_resumes = 0 /\ rest_called = 0 /\ rest_sentAs = 0 /\ rest_signIns = 0 /\ rest_prompts = 0 /\
        rest_moved = 0

Next ==
  \/ part = "connect" /\ Connect!Next /\ UNCHANGED <<part, reconnectVars, loopVars, asioVars, itemsVars, modifyVars,
       slotVars, cacheVars, crawlVars, pageVars, restVars>>
  \/ part = "reconnect" /\ Reconnection!Next /\ UNCHANGED <<part, connectVars, loopVars, asioVars, itemsVars,
       modifyVars, slotVars, cacheVars, crawlVars, pageVars, restVars>>
  \/ part = "loop" /\ Loop!Next /\ UNCHANGED <<part, connectVars, reconnectVars, asioVars, itemsVars, modifyVars,
       slotVars, cacheVars, crawlVars, pageVars, restVars>>
  \/ part = "asio" /\ Asio!Next /\ UNCHANGED <<part, connectVars, reconnectVars, loopVars, itemsVars, modifyVars,
       slotVars, cacheVars, crawlVars, pageVars, restVars>>
  \/ part = "items" /\ Items!Next /\ UNCHANGED <<part, connectVars, reconnectVars, loopVars, asioVars, modifyVars,
       slotVars, cacheVars, crawlVars, pageVars, restVars>>
  \/ part = "modify" /\ Modifies!Next /\ UNCHANGED <<part, connectVars, reconnectVars, loopVars, asioVars, itemsVars,
       slotVars, cacheVars, crawlVars, pageVars, restVars>>
  \/ part = "slot" /\ Slot!Next /\ UNCHANGED <<part, connectVars, reconnectVars, loopVars, asioVars, itemsVars,
       modifyVars, cacheVars, crawlVars, pageVars, restVars>>
  \/ part = "cache" /\ Cache!Next /\ UNCHANGED <<part, connectVars, reconnectVars, loopVars, asioVars, itemsVars,
       modifyVars, slotVars, crawlVars, pageVars, restVars>>
  \/ part = "crawl" /\ Crawl!Next /\ UNCHANGED <<part, connectVars, reconnectVars, loopVars, asioVars, itemsVars,
       modifyVars, slotVars, cacheVars, pageVars, restVars>>
  \/ part = "page" /\ Page!Next /\ UNCHANGED <<part, connectVars, reconnectVars, loopVars, asioVars, itemsVars,
       modifyVars, slotVars, cacheVars, crawlVars, restVars>>
  \/ part = "rest" /\ Rest!Next /\ UNCHANGED <<part, connectVars, reconnectVars, loopVars, asioVars, itemsVars,
       modifyVars, slotVars, cacheVars, crawlVars, pageVars>>

Spec == Init /\ [][Next]_vars

\* ConnectAwait, ConnectionEdited and Shutdown: a slug and credential has one client, every caller a connect that
\* will answer it, an edited row its clients found, and a shutdown leaves none. StashPending, connectPending and
\* resubscribe: a listener's wanted node is monitored, parked or in a rebuild, with one chain an entry, and one it
\* left is not put back but by the one race the module names.
ClientsAreKept ==
  /\ Connect!TypeOK /\ Connect!OneClientPerKey /\ Connect!NoWaiterStranded /\ Connect!StaleIsFound /\
       Connect!NoneAfterShutdown
  /\ Reconnection!TypeOK /\ Reconnection!OneChainPerEntry /\ Reconnection!WantedIsHeld /\
       Reconnection!LeftStaysLeft /\ Reconnection!NothingParkedAtEnd

\* AsyncRequest: one loop pumps a client, every request out is pumped, a lapsed session is pinged, and a stop
\* leaves nothing and idles once. Asio connections: one callback at a time, no operation or queued write forgotten,
\* a closed one quiet, and the loop outlives the raise in it.
RequestsArePumped ==
  /\ Loop!TypeOK /\ Loop!OneLoop /\ Loop!NoZombie /\ Loop!PendingIsPumped /\ Loop!StoppedHoldsNothing /\
       Loop!IdledOnce
  /\ Asio!TypeOK /\ Asio!OneEventAtATime /\ Asio!NeverForgotten /\ Asio!ClosedIsQuiet /\ Asio!QueuedGoesOut /\
       Asio!LoopOutlivesRaise

\* MonitoringNodes and DataChanges: each item and subscription of the server is held or being deleted, an
\* acknowledged listener has its item, an unheard item its delete, and the client is pumped while items exist; the
\* item runs the strictest of what its listeners ask (merge, Modifying).
ItemsAreServed ==
  /\ Items!TypeOK /\ Items!NoOrphanItem /\ Items!AckedIsMonitored /\ Items!UnheardIsDeleted /\
       Items!MonitoredIsPumped /\ Items!QueuedHasItsCreate /\ Items!NoOrphanSubscription
  /\ part = "modify" => Modifies!TypeOK /\ Modifies!MergeIsStrictest /\ Modifies!ServerRunsTheMerge

\* LazySlot and LazyCache: one fetch at a time, each caller resumed once with the answer of a fetch no older than
\* its call, a lost one not pinned; NodeIndex: a crawl not marked truncated holds every node within its depth,
\* once.
CachesAnswer ==
  /\ Slot!TypeOK /\ Slot!EachAnsweredOnce /\ Slot!OneFetch /\ Slot!AnswersAreTrue
  /\ Cache!TypeOK /\ Cache!LostIsNotPinned
  /\ Crawl!TypeOK /\ Crawl!CompleteOrTruncated /\ Crawl!EachNodeOnce /\ Crawl!EmptyIsAnswered

\* ProtoService of the web client: a request whose promise is open is on the page's socket or queued behind it,
\* what is queued waits for the ack or the handshake that releases it, nothing is sent twice or before the ack but
\* after the one race the module names, and a page back from the cache holds no socket that it closed.
PageIsAnswered ==
  /\ part = "page" => Page!TypeOK /\ Page!NoneStranded /\ Page!BacklogIsReleased /\ Page!SentOnce /\
       Page!QueuesUntilAck /\ Page!ShownIsLive

\* ProtoService's REST calls: each call that has not ended awaits something that comes, none is retried for ever,
\* and a POST is never run again as another user while nothing else changes the user.
CallsKeepTheirUser ==
  /\ part = "rest" => Rest!TypeOK /\ Rest!EachAwaitsSomething /\ Rest!FewRetries /\ Rest!KeepsItsUser

\* Connection::MaybeRaiseClosing: nothing is delivered of a connection after its closing state; ConnectAwait: a
\* caller is given no client of an older row than at its call.
LastWord == [][Asio!TellsNothingAfter /\ Connect!GivesTheRowsClient]_<<asioVars, connectVars>>
=============================================================================
