--------------------------- MODULE HistSubscribe ---------------------------
(***************************************************************************)
(* A web client's history subscription: GatewaySocketSession's             *)
(* HistSubscribe coroutine and HistSubscriber over a group's Subscribe,    *)
(* with the values collected, the heartbeats a flush releases and the      *)
(* group's end delivered from other threads.  The socket's strand runs     *)
(* what is dispatched to it in order, and what it writes reaches the       *)
(* client in that order.  One node; a record is its place in the store.    *)
(***************************************************************************)
EXTENDS Naturals, Sequences, FiniteSets, SequencesExt

CONSTANTS Subs,       \* the HistSubscribes
          IdOf,       \* the request id each is sent with
          Kinds,      \* what is collected: values, heartbeats
          MaxRecords, \* how many records are stored, at most
          PageLimit   \* the records of a page

VARIABLES store,      \* the records: a value, a heartbeat, one released, one dropped
          group,      \* whether the group is open, and who is registered
          collecting, \* the value being delivered, and to whom still
          scheduled,  \* the released heartbeats' deliveries, and the group's ends, on the clock
          sub,        \* each subscriber and the coroutine that feeds it
          claims,     \* _histSubscriptions
          strand,     \* what is dispatched to the socket's strand
          busy,       \* the End the strand is in, and the frame it then writes
          out,        \* the frames written
          open        \* whether the socket is

vars == <<store, group, collecting, scheduled, sub, claims, strand, busy, out, open>>

Ids == {IdOf[s] : s \in Subs}
Nobody == "nobody"
Frame(kind, s, records) == [kind |-> kind, sub |-> s, records |-> records]

Init ==
  /\ store = << >> /\ group = [open |-> TRUE, subscribers |-> {}]
  /\ collecting = [record |-> 0, to |-> {}] /\ scheduled = {}
  /\ sub = [s \in Subs |-> [pc |-> "idle", ended |-> FALSE, held |-> FALSE, snapshot |-> << >>, queued |-> << >>, live |-> FALSE]]
  /\ claims = [i \in Ids |-> Nobody] /\ strand = << >> /\ busy = Frame("none", Nobody, << >>) /\ out = << >> /\ open = TRUE

-----------------------------------------------------------------------------
(* The group.                                                              *)

socket == <<sub, claims, strand, busy, out, open>>

\* StoreRecord under the lock: a value goes to the subscribers of that moment; a heartbeat, which a drop may take back,
\* waits for a flush.
Collect(kind) ==
  /\ group.open /\ Len(store) < MaxRecords /\ collecting.to = {}
  /\ store' = Append(store, kind)
  /\ collecting' = IF kind = "value" THEN [record |-> Len(store) + 1, to |-> group.subscribers] ELSE collecting
  /\ UNCHANGED <<group, scheduled>> /\ UNCHANGED socket

DropBeat(n) ==
  /\ store[n] = "beat" /\ store' = [store EXCEPT ![n] = "dropped"]
  /\ UNCHANGED <<group, collecting, scheduled>> /\ UNCHANGED socket

\* Take releases a heartbeat, once, and its delivery is put on the clock.
Release(n) ==
  /\ store[n] = "beat" /\ store' = [store EXCEPT ![n] = "released"]
  /\ scheduled' = scheduled \cup {Frame("beat", s, <<n>>) : s \in group.subscribers}
  /\ UNCHANGED <<group, collecting>> /\ UNCHANGED socket

\* Close or Stopping: the registrations go, and each subscriber is told.
GroupEnds ==
  /\ group.open /\ group' = [open |-> FALSE, subscribers |-> {}]
  /\ scheduled' = scheduled \cup {Frame("ended", s, << >>) : s \in group.subscribers}
  /\ UNCHANGED <<store, collecting>> /\ UNCHANGED socket

\* Mutant of SnapshotOf: the heartbeats not released are in it.
SnapshotAll == SelectSeq([n \in 1..Len(store) |-> n], LAMBDA n : store[n] # "dropped")
\* The snapshot: what is stored, but for the heartbeats a drop can still take.
SnapshotOf == SelectSeq([n \in 1..Len(store) |-> n], LAMBDA n : store[n] \in {"value", "released"})

-----------------------------------------------------------------------------
(* HistSubscriber.                                                         *)

Dispatch(frame) == strand' = IF open THEN Append(strand, frame) ELSE strand

\* OnRecords: queued until the snapshot is through.
OnRecords(s, records) ==
  /\ strand' = IF ~sub[s].ended /\ sub[s].live THEN Append(strand, Frame("push", s, records)) ELSE strand
  /\ sub' = IF sub[s].ended \/ sub[s].live THEN sub ELSE [sub EXCEPT ![s].queued = @ \o records]

DeliverValue(s) ==
  /\ s \in collecting.to /\ collecting' = [collecting EXCEPT !.to = @ \ {s}]
  /\ OnRecords(s, <<collecting.record>>)
  /\ UNCHANGED <<store, group, scheduled, claims, busy, out, open>>

DeliverScheduled(d) ==
  /\ d \in scheduled /\ scheduled' = scheduled \ {d}
  /\ IF d.kind = "beat" THEN OnRecords(d.sub, d.records) ELSE Dispatch(d) /\ UNCHANGED sub
  /\ UNCHANGED <<store, group, collecting, claims, busy, out, open>>

-----------------------------------------------------------------------------
(* HistSubscribing, which resumes on the executor.                         *)

To(s, pc) == [sub EXCEPT ![s].pc = pc]
At(s, pc) == sub[s].pc = pc
others == <<store, collecting, scheduled, busy, out, open>>

\* Group::Subscribe: registered and snapshot under one hold of the group's lock.
Subscribe(s) ==
  /\ At(s, "claimed")
  /\ IF group.open
     THEN /\ sub' = [sub EXCEPT ![s].pc = "subscribed", ![s].snapshot = SnapshotOf]
          /\ group' = [group EXCEPT !.subscribers = @ \cup {s}]
     ELSE sub' = To(s, "failing") /\ UNCHANGED group
  /\ UNCHANGED <<claims, strand>> /\ UNCHANGED others

\* Mutant of Register: an end that came first is not looked for.
RegisterBlind(s) ==
  /\ At(s, "subscribed")
  /\ group' = group /\ sub' = [sub EXCEPT ![s].pc = "acking", ![s].held = TRUE]
  /\ UNCHANGED <<claims, strand>> /\ UNCHANGED others

\* Register's other half: the subscription is kept, or ended if an End came first.
Register(s) ==
  /\ At(s, "subscribed")
  /\ sub' = [sub EXCEPT ![s].pc = "acking", ![s].held = ~sub[s].ended]
  /\ group' = IF sub[s].ended THEN [group EXCEPT !.subscribers = @ \ {s}] ELSE group
  /\ UNCHANGED <<claims, strand>> /\ UNCHANGED others

Ack(s) ==
  /\ At(s, "acking") /\ sub' = To(s, "paging") /\ Dispatch(Frame("ack", s, << >>))
  /\ UNCHANGED <<group, claims>> /\ UNCHANGED others

\* A page of the snapshot, written through the strand; or an exception of its files.
Page(s) ==
  LET n == IF PageLimit < Len(sub[s].snapshot) THEN PageLimit ELSE Len(sub[s].snapshot)
      rest == SubSeq(sub[s].snapshot, n + 1, Len(sub[s].snapshot))
  IN  /\ At(s, "paging")
      /\ \/ sub[s].ended /\ sub' = To(s, "enlivens") /\ UNCHANGED strand
         \/ /\ ~sub[s].ended
            /\ sub' = [sub EXCEPT ![s].snapshot = rest, ![s].pc = IF rest = << >> THEN "enlivens" ELSE "paging"]
            /\ Dispatch(Frame("page", s, SubSeq(sub[s].snapshot, 1, n)))
         \/ ~sub[s].ended /\ sub' = To(s, "failing") /\ UNCHANGED strand
      /\ UNCHANGED <<group, claims>> /\ UNCHANGED others

\* Live: what was queued behind the snapshot goes, and the rest follows as it comes.
Live(s) ==
  /\ At(s, "enlivens")
  /\ IF sub[s].ended THEN sub' = To(s, "done") /\ UNCHANGED strand
     ELSE /\ sub' = [sub EXCEPT ![s].pc = "done", ![s].live = TRUE, ![s].queued = << >>]
          /\ strand' = IF sub[s].queued = << >> THEN strand ELSE Append(strand, Frame("push", s, sub[s].queued))
  /\ UNCHANGED <<group, claims>> /\ UNCHANGED others

\* The exception path: RemoveHist of this subscriber alone, End, then the exception under its id.
Fail(s) ==
  /\ At(s, "failing")
  /\ claims' = [i \in Ids |-> IF claims[i] = s THEN Nobody ELSE claims[i]]
  /\ sub' = [sub EXCEPT ![s].pc = "failed", ![s].ended = @ \/ claims[IdOf[s]] = s]
  /\ group' = IF claims[IdOf[s]] = s THEN [group EXCEPT !.subscribers = @ \ {s}] ELSE group
  /\ UNCHANGED strand /\ UNCHANGED others

WriteException(s) ==
  /\ At(s, "failed") /\ sub' = To(s, "done") /\ Dispatch(Frame("exception", s, << >>))
  /\ UNCHANGED <<group, claims>> /\ UNCHANGED others

-----------------------------------------------------------------------------
(* The strand: the client's requests, what is dispatched to it, the close. *)

Free == open /\ busy.sub = Nobody
data == <<store, group, collecting, scheduled>>

\* HistSubscribe: the id is claimed, or live and refused.
HistSubscribe(s) ==
  /\ Free /\ At(s, "idle")
  /\ IF claims[IdOf[s]] = Nobody
     THEN claims' = [claims EXCEPT ![IdOf[s]] = s] /\ sub' = To(s, "claimed")
     ELSE sub' = To(s, "refused") /\ UNCHANGED claims
  /\ UNCHANGED <<strand, busy, out, open>> /\ UNCHANGED data

\* RemoveHist and the first half of End, on the strand; the frame is written once the End is through.
Ends(s, frame) ==
  /\ claims' = [claims EXCEPT ![IdOf[s]] = Nobody]
  /\ sub' = [sub EXCEPT ![s].ended = TRUE]
  /\ busy' = frame

HistUnsubscribe(i) ==
  /\ Free /\ claims[i] # Nobody
  /\ Ends(claims[i], Frame("complete", claims[i], << >>))
  /\ UNCHANGED <<strand, out, open>> /\ UNCHANGED data

\* End under _pageMutex.
EndLocked ==
  /\ open /\ busy.sub # Nobody
  /\ group' = IF sub[busy.sub].held THEN [group EXCEPT !.subscribers = @ \ {busy.sub}] ELSE group
  /\ out' = Append(out, busy) /\ busy' = Frame("none", Nobody, << >>)
  /\ UNCHANGED <<store, collecting, scheduled, sub, claims, strand, open>>

\* Mutant of Writes: a page or a push is written whether or not its subscription has ended.
WritesAnyway(frame) == TRUE
\* WriteHist looks again on the strand; an ack or an exception answers the request in any case.
Writes(frame) == frame.kind \in {"page", "push"} => ~sub[frame.sub].ended

RunStrand ==
  LET frame == Head(strand)
  IN  /\ Free /\ strand # << >> /\ strand' = Tail(strand)
      /\ IF frame.kind = "ended" /\ ~sub[frame.sub].ended
         THEN Ends(frame.sub, frame) /\ UNCHANGED out
         ELSE /\ out' = IF frame.kind # "ended" /\ Writes(frame) THEN Append(out, frame) ELSE out
              /\ UNCHANGED <<claims, sub, busy>>
      /\ UNCHANGED open /\ UNCHANGED data

\* Mutant of Close: the subscriptions are left to the coroutines that feed them.
CloseLeaves ==
  /\ Free /\ open' = FALSE /\ claims' = [i \in Ids |-> Nobody]
  /\ UNCHANGED <<sub, group, strand, busy, out, store, collecting, scheduled>>

\* OnClose: every subscription is ended, and none is claimed any more.
Close ==
  LET ended == {claims[i] : i \in Ids} \ {Nobody}
  IN  /\ Free /\ open' = FALSE
      /\ claims' = [i \in Ids |-> Nobody]
      /\ sub' = [s \in Subs |-> IF s \in ended THEN [sub[s] EXCEPT !.ended = TRUE] ELSE sub[s]]
      /\ group' = [group EXCEPT !.subscribers = @ \ {s \in ended : sub[s].held}]
      /\ strand' = << >>
      /\ UNCHANGED <<store, collecting, scheduled, busy, out>>

Coroutine(s) == Subscribe(s) \/ Register(s) \/ Ack(s) \/ Page(s) \/ Live(s) \/ Fail(s) \/ WriteException(s)
Next ==
  \/ \E kind \in Kinds : Collect(kind)
  \/ \E n \in 1..Len(store) : DropBeat(n) \/ Release(n)
  \/ GroupEnds \/ RunStrand \/ EndLocked \/ Close
  \/ \E s \in Subs : DeliverValue(s) \/ Coroutine(s) \/ HistSubscribe(s)
  \/ \E d \in scheduled : DeliverScheduled(d)
  \/ \E i \in Ids : HistUnsubscribe(i)

Spec == Init /\ [][Next]_vars

-----------------------------------------------------------------------------
FrameKinds == {"none", "ack", "page", "push", "exception", "complete", "ended", "beat"}
TypeOK ==
  /\ \A n \in 1..Len(store) : store[n] \in {"value", "beat", "released", "dropped"}
  /\ group.subscribers \subseteq Subs /\ collecting.to \subseteq Subs
  /\ \A f \in scheduled \cup ToSet(strand) \cup ToSet(out) \cup {busy} : f.kind \in FrameKinds
  /\ \A i \in Ids : claims[i] \in Subs \cup {Nobody}
  /\ \A s \in Subs : sub[s].held \in BOOLEAN /\ sub[s].ended \in BOOLEAN /\ sub[s].live \in BOOLEAN

Times(n, records) == Cardinality({i \in 1..Len(records) : records[i] = n})
RECURSIVE InFrames(_, _, _)
InFrames(n, s, frames) ==
  IF frames = << >> THEN 0
  ELSE (IF Head(frames).sub = s THEN Times(n, Head(frames).records) ELSE 0) + InFrames(n, s, Tail(frames))

\* Where a record is on its way to a subscriber: in the snapshot's rest, queued, dispatched, written, or being delivered.
OnItsWay(n, s) ==
  Times(n, sub[s].snapshot) + Times(n, sub[s].queued) + InFrames(n, s, strand) + InFrames(n, s, out)
  + (IF s \in collecting.to /\ collecting.record = n THEN 1 ELSE 0)
  + Cardinality({d \in scheduled : d.kind = "beat" /\ d.sub = s /\ d.records = <<n>>})

\* A subscriber has each record once: from the snapshot or from the stream, whichever side of its registration it was
\* stored or released on, and no heartbeat a drop may take back.
EachRecordOnce ==
  \A s \in group.subscribers : ~sub[s].ended /\ sub[s].pc # "failing" =>
    \A n \in 1..Len(store) : OnItsWay(n, s) = IF store[n] \in {"value", "released"} THEN 1 ELSE 0

Written(s) == SelectSeq(out, LAMBDA f : f.sub = s)

\* The client sees the ack, then the snapshot, then the stream, and nothing of either once the subscription has ended.
InOrder ==
  \A s \in Subs : \A i, j \in 1..Len(Written(s)) : i < j =>
    /\ Written(s)[j].kind = "page" => Written(s)[i].kind \in {"ack", "page"}
    /\ Written(s)[j].kind = "push" => Written(s)[i].kind \in {"ack", "page", "push"}

\* A subscriber that has ended is one the group lets go, once its coroutine is through: a registration nothing ends
\* would hold it, and be given every record, for the group's life.
EndedIsLetGo ==
  \A s \in group.subscribers :
    /\ sub[s].ended => sub[s].pc = "subscribed" \/ busy.sub = s
    /\ ~open => sub[s].pc \in {"subscribed", "failing"}

\* No page or push follows an exception under the same request id.
NoPageAfterException ==
  \A i, j \in 1..Len(out) : i < j /\ out[i].kind = "exception" /\ IdOf[out[j].sub] = IdOf[out[i].sub] => out[j].kind \notin {"page", "push"}
=============================================================================
