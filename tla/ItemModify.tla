----------------------------- MODULE ItemModify -----------------------------
(***************************************************************************)
(* One monitored item shared by several listeners (UAMonitoringNodes):     *)
(* what it is asked for is the strictest of what they ask, and a join, a   *)
(* leave or a changed ask that moves it sends the server a modify.  The    *)
(* merge is computed under the mutex by any thread; the modify is posted   *)
(* to the client's strand after the mutex is released, sent from there,    *)
(* and answered later.                                                     *)
(***************************************************************************)
EXTENDS Integers, FiniteSets, Sequences, SequencesExt

CONSTANTS Listeners,
          Asks,         \* the parameters a listener may ask: records [sampling, queue, discard, trigger, deadband, value]
          MaxChanges    \* bound on the modifies

VARIABLES asked,      \* Listeners of the item: what each asks, None when it does not listen
          granted,    \* Granted: the ask of each the server last accepted
          requested,  \* Requested: what the item was last asked for; None once refused
          pending,    \* Pending
          computed,   \* changes computed and not posted, in the order of the mutex
          posted,     \* on the strand, not yet sent
          out,        \* sent, with the server's answer, not yet heard
          server,     \* what the server runs the item at
          overtaken,  \* a change was posted ahead of one computed before it
          changes     \* modifies made

vars == <<asked, granted, requested, pending, computed, posted, out, server, overtaken, changes>>

None == [sampling |-> 0]

MinOf(a, b) == IF a <= b THEN a ELSE b
MaxOf(a, b) == IF a >= b THEN a ELSE b

\* Mutant of Mutual: a deadband of another type keeps its value.
MutualMixed(y, p) ==
  [sampling |-> MinOf(y.sampling, p.sampling),
   queue    |-> MaxOf(y.queue, p.queue),
   discard  |-> y.discard \/ p.discard,
   trigger  |-> MaxOf(y.trigger, p.trigger),
   deadband |-> y.deadband,
   value    |-> MinOf(y.value, p.value)]

\* One pass of merge's loop.
Mutual(y, p) ==
  [sampling |-> MinOf(y.sampling, p.sampling),
   queue    |-> MaxOf(y.queue, p.queue),
   discard  |-> y.discard \/ p.discard,
   trigger  |-> MaxOf(y.trigger, p.trigger),
   deadband |-> IF y.deadband = p.deadband THEN y.deadband ELSE "none",
   value    |-> IF y.deadband = p.deadband THEN MinOf(y.value, p.value) ELSE 0]

Listening == {l \in Listeners : asked[l] # None}

\* merge, over the listeners in the order the map keeps them.
MergeOf(order, asks) == FoldLeft(LAMBDA y, l : Mutual(y, asks[l]), asks[order[1]], Tail(order))
Merge(asks) == MergeOf(SetToSeq({l \in Listeners : asks[l] # None}), asks)

Init ==
  \E l \in Listeners, a \in Asks :
    /\ asked = [x \in Listeners |-> IF x = l THEN a ELSE None]
    /\ granted = asked
    /\ requested = a /\ server = a
    /\ pending = 0 /\ changes = 0
    /\ computed = <<>> /\ posted = <<>> /\ out = <<>>
    /\ overtaken = FALSE

-----------------------------------------------------------------------------
\* Remerge: the item stands, or a change is posted for it.
Remerge(asks, grants) ==
  LET merged == Merge(asks)
      change == [merged |-> merged, asks |-> asks]
  IN  IF requested = merged
      THEN /\ granted' = IF pending = 0 THEN asks ELSE grants
           /\ UNCHANGED <<requested, pending, computed, changes>>
      ELSE /\ requested' = merged /\ pending' = pending + 1 /\ changes' = changes + 1
           /\ computed' = Append(computed, change)
           /\ granted' = grants

\* A listener joins the item, or asks it for something else.
Ask(l, a) ==
  /\ changes < MaxChanges
  /\ asked[l] # a
  /\ asked' = [asked EXCEPT ![l] = a]
  /\ Remerge(asked', granted)
  /\ UNCHANGED <<posted, out, server, overtaken>>

Leave(l) ==
  /\ changes < MaxChanges
  /\ asked[l] # None
  /\ asked' = [asked EXCEPT ![l] = None]
  /\ LET grants == [granted EXCEPT ![l] = None]
     IN  IF Listening = {l}
         THEN granted' = grants /\ UNCHANGED <<requested, pending, computed, changes>>
         ELSE Remerge(asked', grants)
  /\ UNCHANGED <<posted, out, server, overtaken>>

\* Modify, after the mutex: the thread of a later change may be first.
Post(i) ==
  /\ i \in 1..Len(computed)
  /\ posted' = Append(posted, computed[i])
  /\ computed' = RemoveAt(computed, i)
  /\ overtaken' = (overtaken \/ i # 1)
  /\ UNCHANGED <<asked, granted, requested, pending, out, server, changes>>

\* Modifying sends it; the server takes it or stands.
Send(good) ==
  /\ posted # <<>>
  /\ posted' = Tail(posted)
  /\ server' = IF good THEN Head(posted).merged ELSE server
  /\ out' = Append(out, [change |-> Head(posted), good |-> good])
  /\ UNCHANGED <<asked, granted, requested, pending, computed, overtaken, changes>>

\* Mutant of Answer: a refused item counts as asked for.
AnswerRefused ==
  /\ out # <<>>
  /\ out' = Tail(out)
  /\ pending' = pending - 1
  /\ LET asks == Head(out).change.asks
         good == Head(out).good
         same == {l \in Listening : asked[l] = asks[l]}
         back == IF good THEN {} ELSE {l \in same : granted[l] \notin {None, asks[l]}}
     IN  /\ granted' = [l \in Listeners |-> IF good /\ l \in same THEN asks[l] ELSE granted[l]]
         /\ asked' = [l \in Listeners |-> IF l \in back THEN granted[l] ELSE asked[l]]
         /\ UNCHANGED requested
  /\ UNCHANGED <<computed, posted, server, overtaken, changes>>

\* The rest of Modifying: what the answer says of each ask it merged, unless the listener left or asked
\* again since.
Answer ==
  /\ out # <<>>
  /\ out' = Tail(out)
  /\ pending' = pending - 1
  /\ LET asks == Head(out).change.asks
         good == Head(out).good
         same == {l \in Listening : asked[l] = asks[l]}
         back == IF good THEN {} ELSE {l \in same : granted[l] \notin {None, asks[l]}}
     IN  /\ granted' = [l \in Listeners |-> IF good /\ l \in same THEN asks[l] ELSE granted[l]]
         /\ asked' = [l \in Listeners |-> IF l \in back THEN granted[l] ELSE asked[l]]
         /\ requested' = IF good THEN requested ELSE None
  /\ UNCHANGED <<computed, posted, server, overtaken, changes>>

Next ==
  \/ \E l \in Listeners : Leave(l) \/ \E a \in Asks : Ask(l, a)
  \/ \E i \in 1..MaxChanges : Post(i)
  \/ \E good \in BOOLEAN : Send(good)
  \/ Answer

Spec == Init /\ [][Next]_vars

-----------------------------------------------------------------------------
Quiet == computed = <<>> /\ posted = <<>> /\ out = <<>>

\* What the comment on merge promises of the asks, said of them as a set.
Strictest(asks) ==
  LET ps == {asks[l] : l \in {x \in Listeners : asks[x] # None}}
      Of(f) == {p[f] : p \in ps}
  IN  [sampling |-> CHOOSE v \in Of("sampling") : \A w \in Of("sampling") : v <= w,
       queue    |-> CHOOSE v \in Of("queue") : \A w \in Of("queue") : v >= w,
       discard  |-> TRUE \in Of("discard"),
       trigger  |-> CHOOSE v \in Of("trigger") : \A w \in Of("trigger") : v >= w,
       deadband |-> IF Cardinality(Of("deadband")) = 1 THEN CHOOSE d \in Of("deadband") : TRUE ELSE "none",
       value    |-> IF Cardinality(Of("deadband")) = 1 THEN CHOOSE v \in Of("value") : \A w \in Of("value") : v <= w ELSE 0]

TypeOK ==
  /\ asked \in [Listeners -> Asks \cup {None}] /\ granted \in [Listeners -> Asks \cup {None}]
  /\ pending \in 0..MaxChanges /\ changes \in 0..MaxChanges
  /\ overtaken \in BOOLEAN

\* The merge is the strictest of the asks, in whatever order the map of listeners, keyed by
\* their addresses, yields them.
MergeIsStrictest ==
  Listening # {} => \A order \in SetToSeqs(Listening) : MergeOf(order, asked) = Strictest(asked)

\* Once no modify is under way, an item whose last modify the server took runs at the strictest of
\* what its listeners ask now, where the modifies went out in the order they were computed.
ServerRunsTheMerge ==
  Quiet /\ ~overtaken /\ requested # None /\ Listening # {} => server = Strictest(asked) /\ server = requested

\* The same, whichever thread posted first: "More than any one asked, never less".
NeverLess == Quiet /\ requested # None /\ Listening # {} => server = Strictest(asked)

\* "A refused ask still this listener's own is put back to the last the server granted it": once no
\* modify is under way, what a listener asks and was not granted is met by the item all the same.
RefusedIsPutBack ==
  Quiet /\ requested = None =>
    \A l \in Listening : granted[l] # None /\ asked[l] # granted[l] => Mutual(server, asked[l]) = server

=============================================================================
