------------------------- MODULE AsioConnectionProofs ------------------------
(***************************************************************************)
(* Proofs about AsioConnection, for any connections and any bounds.        *)
(*                                                                         *)
(* One token goes round a connection that is not closed: its read, the     *)
(* event the read raised, the callback that event is in, and the ArmRead   *)
(* posted after it.  Round says that there is never a second one, so that  *)
(* Raise finds the slot empty; Kept that a connection the net thread still *)
(* has to come back to has the token, a write or another operation.        *)
(***************************************************************************)
EXTENDS AsioConnection, TLAPS

States == {"Resolving", "Connecting", "Established", "Closing", "Closed"}

Connection ==
  [state : States, ops : SUBSET Ops, tx : Nat, closeRequested : BOOLEAN, writable : BOOLEAN,
   pending : Events, queued : Nat, posts : Seq(Calls), closeCalled : BOOLEAN,
   mapped : BOOLEAN, opening : BOOLEAN, delivering : Events,
   told : Events \cup {"Opening"}, closings : Nat, broke : BOOLEAN, overrun : BOOLEAN]

HasArm(q) == \E i \in DOMAIN q : q[i] = "ArmRead"
OneArm(q) == \A i, j \in DOMAIN q : q[i] = "ArmRead" /\ q[j] = "ArmRead" => i = j

\* One event at most is handed over, and only while nothing else of the round
\* is under way.
Round(r) ==
  /\ ~r.overrun /\ r.queued = (IF r.pending = "None" THEN 0 ELSE 1)
  /\ r.state # "Closed" =>
       /\ "read" \in r.ops => r.pending = "None" /\ r.delivering = "None" /\ ~HasArm(r.posts)
       /\ r.pending # "None" => r.delivering = "None" /\ ~HasArm(r.posts)
       /\ r.delivering # "None" => ~HasArm(r.posts)
       /\ OneArm(r.posts)

\* What a connection's state says of the rest of it.
Stages(r) ==
  /\ "write" \in r.ops => r.tx > 0
  /\ r.state \in {"Resolving", "Connecting"} =>
       /\ r.tx = 0 /\ r.pending = "None" /\ r.delivering = "None" /\ ~HasArm(r.posts)
       /\ "read" \notin r.ops /\ "write" \notin r.ops /\ ~r.closeRequested
  /\ r.state # "Closed" => r.closings = 0 /\ r.pending # "Closing" /\ r.delivering # "Closing"
  /\ r.state = "Closed" =>
       /\ r.ops = {} /\ r.closings \in {0, 1}
       /\ r.pending = (IF r.closings = 0 THEN "Closing" ELSE "None")
  /\ r.state \in {"Closing", "Closed"} /\ r.tx > 0 => r.broke
  /\ ~r.mapped => ~r.opening /\ (r = Fresh \/ r.closings = 1)

Sound(r) == r \in Connection /\ Round(r) /\ Stages(r)

Kept(r) ==
  /\ r.state = "Established" =>
       /\ r.closeRequested => r.tx > 0
       /\ r.tx > 0 => "write" \in r.ops
       /\ ~r.closeRequested => "read" \in r.ops \/ Coming(r)
  /\ r.state = "Closing" => r.ops # {} \/ Coming(r)

IInv ==
  /\ conn \in [Connections -> Connection]
  /\ \A c \in Connections : Sound(conn[c]) /\ Kept(conn[c])
  /\ raising \in SUBSET Connections
  /\ \A c \in raising : conn[c].pending # "None" /\ conn[c].mapped
  /\ manager \in {"STARTED", "STOPPING", "STOPPED"}
  /\ manager = "STOPPED" => \A c \in Connections : ~conn[c].mapped

\* What a handler of the net thread leaves alone.
Same(r, s) ==
  /\ s.told = r.told /\ s.closings = r.closings /\ s.closeCalled = r.closeCalled
  /\ s.mapped = r.mapped
  /\ s.queued > r.queued => r.state # "Closed"

-----------------------------------------------------------------------------
(* The queue of posted calls.                                              *)

LEMMA PostedOther ==
  ASSUME NEW q \in Seq(Calls), NEW x \in Calls, x # "ArmRead"
  PROVE  /\ Append(q, x) \in Seq(Calls)
         /\ HasArm(Append(q, x)) <=> HasArm(q)
         /\ OneArm(q) => OneArm(Append(q, x))
<1>1. /\ Append(q, x) \in Seq(Calls) /\ Len(Append(q, x)) = Len(q) + 1
      /\ \A i \in 1..Len(q) : Append(q, x)[i] = q[i]
      /\ Append(q, x)[Len(q) + 1] = x
  OBVIOUS
<1>2. Len(q) \in Nat /\ DOMAIN q = 1..Len(q) /\ DOMAIN Append(q, x) = 1..(Len(q) + 1)
  OBVIOUS
<1> DEFINE p == Append(q, x)
<1> HIDE DEF p
<1>3. \A i \in DOMAIN p : p[i] = "ArmRead" => i \in DOMAIN q /\ q[i] = "ArmRead"
  BY <1>1, <1>2 DEF p
<1>4. \A i \in DOMAIN q : i \in DOMAIN p /\ p[i] = q[i]
  BY <1>1, <1>2 DEF p
<1>5. HasArm(p) <=> HasArm(q)
  BY <1>3, <1>4, Zenon DEF HasArm
<1>6. OneArm(q) => OneArm(p)
  BY <1>3, Zenon DEF OneArm
<1> QED BY <1>1, <1>5, <1>6 DEF p

LEMMA PostedArm ==
  ASSUME NEW q \in Seq(Calls), ~HasArm(q)
  PROVE  /\ Append(q, "ArmRead") \in Seq(Calls)
         /\ HasArm(Append(q, "ArmRead"))
         /\ OneArm(Append(q, "ArmRead"))
<1> DEFINE p == Append(q, "ArmRead")
<1>1. /\ p \in Seq(Calls) /\ Len(p) = Len(q) + 1
      /\ \A i \in 1..Len(q) : p[i] = q[i]
      /\ p[Len(q) + 1] = "ArmRead"
  BY DEF Calls
<1>2. Len(q) \in Nat /\ DOMAIN q = 1..Len(q) /\ DOMAIN p = 1..(Len(q) + 1)
  OBVIOUS
<1> HIDE DEF p
<1>3. \A i \in DOMAIN p : p[i] = "ArmRead" => i = Len(q) + 1
  BY <1>1, <1>2 DEF HasArm
<1>4. HasArm(p)
  BY <1>1, <1>2 DEF HasArm
<1>5. OneArm(p)
  BY <1>3, Zenon DEF OneArm
<1> QED BY <1>1, <1>4, <1>5 DEF p

LEMMA PostRun ==
  ASSUME NEW q \in Seq(Calls), q # <<>>
  PROVE  /\ Tail(q) \in Seq(Calls) /\ Head(q) \in Calls
         /\ HasArm(Tail(q)) => HasArm(q)
         /\ OneArm(q) => OneArm(Tail(q))
         /\ Head(q) # "ArmRead" /\ HasArm(q) => HasArm(Tail(q))
         /\ Head(q) = "ArmRead" => HasArm(q)
         /\ Head(q) = "ArmRead" /\ OneArm(q) => ~HasArm(Tail(q))
<1> DEFINE p == Tail(q)
<1>1. /\ p \in Seq(Calls) /\ Head(q) \in Calls /\ Head(q) = q[1] /\ Len(q) \in Nat \ {0}
      /\ Len(p) = Len(q) - 1
      /\ \A i \in 1..(Len(q) - 1) : p[i] = q[i + 1]
  OBVIOUS
<1>2. DOMAIN q = 1..Len(q) /\ DOMAIN p = 1..(Len(q) - 1)
  BY <1>1
<1> HIDE DEF p
<1>3. \A i \in DOMAIN p : i + 1 \in DOMAIN q /\ p[i] = q[i + 1] /\ i + 1 # 1
  BY <1>1, <1>2
<1>4. 1 \in DOMAIN q /\ \A i \in DOMAIN q : i = 1 \/ (i - 1 \in DOMAIN p /\ p[i - 1] = q[i])
  BY <1>1, <1>2
<1>5. HasArm(p) => HasArm(q)
  BY <1>3, Zenon DEF HasArm
<1>6. OneArm(q) => OneArm(p)
  <2> SUFFICES ASSUME OneArm(q), NEW i \in DOMAIN p, NEW j \in DOMAIN p,
                      p[i] = "ArmRead", p[j] = "ArmRead"
               PROVE  i = j
    BY DEF OneArm
  <2>1. i + 1 = j + 1
    BY <1>3 DEF OneArm
  <2> QED BY <2>1, <1>2
<1>7. Head(q) # "ArmRead" /\ HasArm(q) => HasArm(p)
  BY <1>1, <1>4 DEF HasArm
<1>8. Head(q) = "ArmRead" => HasArm(q)
  BY <1>1, <1>4 DEF HasArm
<1>9. Head(q) = "ArmRead" /\ OneArm(q) => ~HasArm(p)
  BY <1>1, <1>3, <1>4 DEF HasArm, OneArm
<1> QED BY <1>1, <1>5, <1>6, <1>7, <1>8, <1>9 DEF p

-----------------------------------------------------------------------------
(* What each handler makes of a connection.                                *)

\* s is r with the event raised.
IsRaised(r, s, event) ==
  /\ s \in Connection
  /\ s.pending = event /\ s.queued = r.queued + 1
  /\ r.pending = "None" /\ ~r.overrun => ~s.overrun
  /\ s.state = r.state /\ s.ops = r.ops /\ s.tx = r.tx /\ s.posts = r.posts
  /\ s.closeRequested = r.closeRequested /\ s.closeCalled = r.closeCalled
  /\ s.mapped = r.mapped /\ s.delivering = r.delivering
  /\ s.told = r.told /\ s.closings = r.closings /\ s.broke = r.broke
  /\ s.opening = r.opening

LEMMA Raised ==
  ASSUME NEW r \in Connection, NEW event \in Events, NEW s, s = Raise(r, event)
  PROVE  IsRaised(r, s, event)
<1>1. PICK v \in BOOLEAN : v = (r.overrun \/ r.pending # "None")
  BY Zenon
<1>2. PICK n \in Nat : n = r.queued + 1
  BY DEF Connection
<1> DEFINE u == [r EXCEPT !.pending = event, !.queued = n, !.overrun = v]
<1>3. s = u
  BY <1>1, <1>2 DEF Raise, Connection
<1>4. /\ u \in Connection
      /\ u.pending = event /\ u.queued = n /\ u.overrun = v
      /\ u.state = r.state /\ u.ops = r.ops /\ u.tx = r.tx /\ u.posts = r.posts
      /\ u.closeRequested = r.closeRequested /\ u.closeCalled = r.closeCalled
      /\ u.mapped = r.mapped /\ u.delivering = r.delivering
      /\ u.told = r.told /\ u.closings = r.closings /\ u.broke = r.broke
      /\ u.opening = r.opening
  BY DEF Connection
<1> HIDE DEF u
<1> QED BY <1>1, <1>2, <1>3, <1>4 DEF IsRaised

LEMMA ClosingRaised ==
  ASSUME NEW r, Sound(r), r.state = "Closing"
  PROVE  /\ Sound(MaybeRaiseClosing(r)) /\ Kept(MaybeRaiseClosing(r))
         /\ Same(r, MaybeRaiseClosing(r))
<1> DEFINE s == MaybeRaiseClosing(r)
<1>1. CASE r.ops # {} \/ r.pending # "None"
  <2>1. s = r
    BY <1>1 DEF MaybeRaiseClosing
  <2> QED BY <2>1, <1>1 DEF Kept, Coming, Same, Sound, Round, Connection
<1>2. CASE r.ops = {} /\ r.pending = "None"
  <2> DEFINE t == [r EXCEPT !.state = "Closed"]
  <2>1. s = Raise(t, "Closing")
    BY <1>2 DEF MaybeRaiseClosing
  <2>2. /\ t \in Connection /\ t.state = "Closed" /\ t.ops = r.ops /\ t.tx = r.tx
        /\ t.posts = r.posts /\ t.pending = r.pending /\ t.queued = r.queued
        /\ t.overrun = r.overrun /\ t.closeRequested = r.closeRequested
        /\ t.closeCalled = r.closeCalled /\ t.mapped = r.mapped
        /\ t.delivering = r.delivering /\ t.told = r.told
        /\ t.closings = r.closings /\ t.broke = r.broke /\ t.opening = r.opening
    BY DEF Sound, Connection, States
  <2> HIDE DEF t, s
  <2>3. /\ s \in Connection /\ s.state = "Closed" /\ s.ops = r.ops /\ s.tx = r.tx
        /\ s.posts = r.posts /\ s.pending = "Closing" /\ s.queued = r.queued + 1
        /\ ~s.overrun
        /\ s.closeCalled = r.closeCalled /\ s.mapped = r.mapped
        /\ s.told = r.told
        /\ s.closings = r.closings /\ s.broke = r.broke /\ s.opening = r.opening
    <3>1. "Closing" \in Events /\ ~t.overrun /\ t.pending = "None"
      BY <2>2, <1>2 DEF Events, Sound, Round
    <3>2. /\ s \in Connection
          /\ s.pending = "Closing" /\ s.queued = t.queued + 1
          /\ t.pending = "None" /\ ~t.overrun => ~s.overrun
          /\ s.state = t.state /\ s.ops = t.ops /\ s.tx = t.tx /\ s.posts = t.posts
          /\ s.closeCalled = t.closeCalled
          /\ s.mapped = t.mapped /\ s.delivering = t.delivering
          /\ s.told = t.told /\ s.closings = t.closings /\ s.broke = t.broke
          /\ s.opening = t.opening
      BY <2>1, <2>2, <3>1, Raised DEF IsRaised
    <3> QED BY <2>2, <3>1, <3>2
  <2>4. Round(s)
    BY <2>3, <1>2 DEF Sound, Round
  <2>5. Stages(s)
    BY <2>3, <1>2 DEF Sound, Stages, Fresh
  <2>6. Kept(s) /\ Same(r, s)
    BY <2>3, <1>2 DEF Kept, Same
  <2> QED BY <2>3, <2>4, <2>5, <2>6 DEF Sound, s
<1> QED BY <1>1, <1>2

\* Every way to close: the state becomes Closing, the rest stays, and what is
\* still to be written is left only on a broken connection.
LEMMA Closes ==
  ASSUME NEW r, Sound(r), r.mapped, r.state # "Closed",
         NEW t \in Connection, t.state = "Closing",
         t.ops = r.ops, t.tx = r.tx, t.posts = r.posts, t.pending = r.pending,
         t.queued = r.queued, t.overrun = r.overrun, t.closeCalled = r.closeCalled,
         t.mapped = r.mapped, t.delivering = r.delivering, t.told = r.told,
         t.closings = r.closings, t.tx > 0 => t.broke
  PROVE  /\ Sound(MaybeRaiseClosing(t)) /\ Kept(MaybeRaiseClosing(t))
         /\ Same(r, MaybeRaiseClosing(t))
<1>1. Round(t)
  BY DEF Sound, Round
<1>2. Stages(t)
  BY DEF Sound, Stages
<1>3. Sound(t)
  BY <1>1, <1>2 DEF Sound
<1>4. /\ Sound(MaybeRaiseClosing(t)) /\ Kept(MaybeRaiseClosing(t))
      /\ Same(t, MaybeRaiseClosing(t))
  BY <1>3, ClosingRaised
<1>5. Same(r, MaybeRaiseClosing(t))
  BY <1>4 DEF Same
<1> QED BY <1>4, <1>5

LEMMA FinishCloseKeeps ==
  ASSUME NEW r, Sound(r), r.mapped, r.state # "Closed", r.tx > 0 => r.state = "Closing"
  PROVE  Sound(FinishClose(r)) /\ Kept(FinishClose(r)) /\ Same(r, FinishClose(r))
<1> DEFINE t == [r EXCEPT !.state = "Closing", !.writable = FALSE]
<1>1. FinishClose(r) = MaybeRaiseClosing(t)
  BY DEF FinishClose
<1>2. /\ t \in Connection /\ t.state = "Closing"
      /\ t.ops = r.ops /\ t.tx = r.tx /\ t.posts = r.posts /\ t.pending = r.pending
      /\ t.queued = r.queued /\ t.overrun = r.overrun /\ t.closeCalled = r.closeCalled
      /\ t.mapped = r.mapped /\ t.delivering = r.delivering /\ t.told = r.told
      /\ t.closings = r.closings /\ t.broke = r.broke
  BY DEF Sound, Connection, States
<1> HIDE DEF t
<1>3. t.tx > 0 => t.broke
  BY <1>2 DEF Sound, Stages
<1> QED BY <1>1, <1>2, <1>3, Closes

LEMMA FailKeeps ==
  ASSUME NEW r, Sound(r), r.mapped, r.state # "Closed"
  PROVE  Sound(Fail(r)) /\ Kept(Fail(r)) /\ Same(r, Fail(r))
<1>1. PICK v \in BOOLEAN : v = (r.broke \/ r.state = "Established")
  BY Zenon
<1> DEFINE t == [r EXCEPT !.state = "Closing", !.writable = FALSE, !.broke = v]
<1>2. Fail(r) = MaybeRaiseClosing(t)
  BY <1>1 DEF Fail, Sound, Connection
<1>3. /\ t \in Connection /\ t.state = "Closing"
      /\ t.ops = r.ops /\ t.tx = r.tx /\ t.posts = r.posts /\ t.pending = r.pending
      /\ t.queued = r.queued /\ t.overrun = r.overrun /\ t.closeCalled = r.closeCalled
      /\ t.mapped = r.mapped /\ t.delivering = r.delivering /\ t.told = r.told
      /\ t.closings = r.closings /\ t.broke = v
  BY DEF Sound, Connection, States
<1> HIDE DEF t
<1>4. t.tx > 0 => t.broke
  BY <1>1, <1>3 DEF Sound, Stages, Connection, States
<1> QED BY <1>2, <1>3, <1>4, Closes

LEMMA RequestCloseKeeps ==
  ASSUME NEW r, Sound(r), Kept(r), r.mapped, r.state # "Closed"
  PROVE  Sound(RequestClose(r)) /\ Kept(RequestClose(r)) /\ Same(r, RequestClose(r))
<1>1. CASE r.closeRequested
  BY <1>1 DEF RequestClose, Same, Sound, Connection
<1>2. CASE ~r.closeRequested
  <2> DEFINE s == [r EXCEPT !.closeRequested = TRUE, !.writable = FALSE]
             t == [s EXCEPT !.state = "Closing"]
  <2>1. /\ s \in Connection /\ s.state = r.state /\ s.closeRequested = TRUE
        /\ s.ops = r.ops /\ s.tx = r.tx /\ s.posts = r.posts /\ s.pending = r.pending
        /\ s.queued = r.queued /\ s.overrun = r.overrun /\ s.closeCalled = r.closeCalled
        /\ s.mapped = r.mapped /\ s.delivering = r.delivering /\ s.told = r.told
        /\ s.closings = r.closings /\ s.broke = r.broke
    BY DEF Sound, Connection
  <2>2. r.state \in {"Established", "Closing"} => Sound(s)
    BY <2>1 DEF Sound, Round, Stages
  <2>3. CASE r.state \in {"Resolving", "Connecting"}
    <3>1. RequestClose(r) = MaybeRaiseClosing(t)
      BY <1>2, <2>3 DEF RequestClose
    <3> HIDE DEF s
    <3>2. /\ t \in Connection /\ t.state = "Closing"
          /\ t.ops = s.ops /\ t.tx = s.tx /\ t.posts = s.posts /\ t.pending = s.pending
          /\ t.queued = s.queued /\ t.overrun = s.overrun /\ t.closeCalled = s.closeCalled
          /\ t.mapped = s.mapped /\ t.delivering = s.delivering /\ t.told = s.told
          /\ t.closings = s.closings
      BY <2>1 DEF Connection, States
    <3> HIDE DEF t
    <3>3. ~(t.tx > 0)
      BY <3>2, <2>1, <2>3 DEF Sound, Stages
    <3>4. Sound(MaybeRaiseClosing(t)) /\ Kept(MaybeRaiseClosing(t)) /\ Same(r, MaybeRaiseClosing(t))
      BY <3>2, <3>3, <2>1, Closes
    <3> QED BY <3>1, <3>4
  <2>4. CASE r.state \in {"Established", "Closing"} /\ r.tx = 0
    <3>1. RequestClose(r) = FinishClose(s)
      BY <1>2, <2>4 DEF RequestClose
    <3> HIDE DEF s
    <3>2. s.mapped /\ s.state # "Closed" /\ ~(s.tx > 0)
      BY <2>1, <2>4
    <3>3. Sound(FinishClose(s)) /\ Kept(FinishClose(s)) /\ Same(s, FinishClose(s))
      BY <2>2, <2>4, <3>2, FinishCloseKeeps
    <3> QED BY <3>1, <3>3, <2>1 DEF Same
  <2>5. CASE r.state \in {"Established", "Closing"} /\ r.tx # 0
    <3>1. RequestClose(r) = MaybeRaiseClosing(s)
      BY <1>2, <2>5 DEF RequestClose
    <3> HIDE DEF s
    <3>2. CASE r.state = "Closing"
      <4>1. Sound(MaybeRaiseClosing(s)) /\ Kept(MaybeRaiseClosing(s)) /\ Same(s, MaybeRaiseClosing(s))
        BY <2>1, <2>2, <3>2, ClosingRaised
      <4> QED BY <3>1, <4>1, <2>1 DEF Same
    <3>3. CASE r.state = "Established"
      <4>1. r.tx > 0 /\ "write" \in r.ops
        BY <2>5, <3>3 DEF Kept, Sound, Connection
      <4>2. MaybeRaiseClosing(s) = s
        BY <4>1, <2>1 DEF MaybeRaiseClosing
      <4>3. Kept(s)
        BY <4>1, <2>1, <3>3 DEF Kept
      <4>4. Same(r, s)
        BY <2>1 DEF Same, Sound, Connection
      <4> QED BY <3>1, <3>3, <4>2, <4>3, <4>4, <2>2
    <3> QED BY <2>5, <3>2, <3>3
  <2> QED BY <2>3, <2>4, <2>5 DEF Sound, Connection, States
<1> QED BY <1>1, <1>2

LEMMA StartKeeps ==
  ASSUME NEW r, Sound(r), Kept(r), r.mapped, r.state # "Closed", NEW address \in BOOLEAN
  PROVE  Sound(Start(r, address)) /\ Kept(Start(r, address)) /\ Same(r, Start(r, address))
<1>1. CASE r.state # "Resolving"
  BY <1>1 DEF Start, Same, Sound, Connection
<1>2. CASE r.state = "Resolving"
  <2>1. PICK state \in {"Resolving", "Connecting"}, ops \in SUBSET Ops :
           /\ "read" \notin ops /\ "write" \notin ops
           /\ Start(r, address) = [r EXCEPT !.state = state, !.ops = ops]
    <3>1. [r EXCEPT !.ops = {"resolve"}] = [r EXCEPT !.state = "Resolving", !.ops = {"resolve"}]
      BY <1>2 DEF Sound, Connection
    <3> QED BY <1>2, <3>1 DEF Start, Ops
  <2> DEFINE s == [r EXCEPT !.state = state, !.ops = ops]
  <2>2. /\ s \in Connection /\ s.state = state /\ s.ops = ops
        /\ s.tx = r.tx /\ s.posts = r.posts /\ s.pending = r.pending
        /\ s.queued = r.queued /\ s.overrun = r.overrun /\ s.closeCalled = r.closeCalled
        /\ s.mapped = r.mapped /\ s.delivering = r.delivering /\ s.told = r.told
        /\ s.closings = r.closings /\ s.closeRequested = r.closeRequested
    BY DEF Sound, Connection, States
  <2> HIDE DEF s
  <2>3. Sound(s)
    BY <2>1, <2>2, <1>2 DEF Sound, Round, Stages
  <2>4. Kept(s) /\ Same(r, s)
    BY <2>1, <2>2, <1>2 DEF Kept, Same, Sound, Connection
  <2> QED BY <2>1, <2>3, <2>4 DEF s
<1> QED BY <1>1, <1>2

LEMMA EnqueueKeeps ==
  ASSUME NEW r, Sound(r), Kept(r), r.mapped, r.state # "Closed"
  PROVE  Sound(Enqueue(r)) /\ Kept(Enqueue(r)) /\ Same(r, Enqueue(r))
<1>1. CASE r.state # "Established" \/ r.closeRequested
  BY <1>1 DEF Enqueue, Same, Sound, Connection
<1>2. CASE r.state = "Established" /\ ~r.closeRequested
  <2>1. PICK n \in Nat : n = r.tx + 1
    BY DEF Sound, Connection
  <2>2. PICK ops \in SUBSET Ops : ops = r.ops \cup {"write"}
    BY DEF Sound, Connection, Ops
  <2> DEFINE s == [r EXCEPT !.tx = n, !.ops = ops]
  <2>3. Enqueue(r) = s
    BY <1>2, <2>1, <2>2 DEF Enqueue
  <2>4. /\ s \in Connection /\ s.state = r.state /\ s.ops = ops /\ s.tx = n
        /\ s.posts = r.posts /\ s.pending = r.pending
        /\ s.queued = r.queued /\ s.overrun = r.overrun /\ s.closeCalled = r.closeCalled
        /\ s.mapped = r.mapped /\ s.delivering = r.delivering /\ s.told = r.told
        /\ s.closings = r.closings /\ s.closeRequested = r.closeRequested
    BY DEF Sound, Connection
  <2> HIDE DEF s
  <2>5. s.tx > 0 /\ "write" \in s.ops /\ ("read" \in s.ops <=> "read" \in r.ops)
    BY <2>1, <2>2, <2>4 DEF Sound, Connection
  <2>6. Sound(s)
    BY <2>4, <2>5, <1>2 DEF Sound, Round, Stages
  <2>7. Kept(s) /\ Same(r, s)
    BY <2>4, <2>5, <1>2 DEF Kept, Same, Sound, Connection, Coming
  <2> QED BY <2>3, <2>6, <2>7
<1> QED BY <1>1, <1>2

\* What a connection keeps while its token is with the handler that runs: its
\* writes, but not its read.
Writing(r) ==
  r.state = "Established" => (r.closeRequested => r.tx > 0) /\ (r.tx > 0 => "write" \in r.ops)

\* The token is nowhere else.
Held(r) == r.pending = "None" /\ r.delivering = "None" /\ ~HasArm(r.posts) /\ "read" \notin r.ops

LEMMA ArmReadKeeps ==
  ASSUME NEW r, Sound(r), Writing(r), Held(r), r.mapped, r.state # "Closed"
  PROVE  Sound(ArmRead(r)) /\ Kept(ArmRead(r)) /\ Same(r, ArmRead(r))
<1>1. CASE r.state = "Established" /\ ~r.closeRequested
  <2>1. PICK ops \in SUBSET Ops : ops = r.ops \cup {"read"}
    BY DEF Sound, Connection, Ops
  <2> DEFINE s == [r EXCEPT !.ops = ops]
  <2>2. ArmRead(r) = s
    BY <1>1, <2>1 DEF ArmRead
  <2>3. /\ s \in Connection /\ s.state = r.state /\ s.ops = ops /\ s.tx = r.tx
        /\ s.posts = r.posts /\ s.pending = r.pending
        /\ s.queued = r.queued /\ s.overrun = r.overrun /\ s.closeCalled = r.closeCalled
        /\ s.mapped = r.mapped /\ s.delivering = r.delivering /\ s.told = r.told
        /\ s.closings = r.closings /\ s.closeRequested = r.closeRequested
    BY DEF Sound, Connection
  <2> HIDE DEF s
  <2>4. "read" \in s.ops /\ ("write" \in s.ops <=> "write" \in r.ops)
    BY <2>1, <2>3
  <2>5. Sound(s)
    BY <2>3, <2>4, <1>1 DEF Sound, Round, Stages, Held
  <2>6. Kept(s) /\ Same(r, s)
    BY <2>3, <2>4, <1>1 DEF Kept, Same, Sound, Connection, Writing
  <2> QED BY <2>2, <2>5, <2>6
<1>2. CASE r.state = "Established" /\ r.closeRequested
  <2>1. r.tx > 0 /\ "write" \in r.ops
    BY <1>2 DEF Writing
  <2>2. ArmRead(r) = r
    BY <1>2, <2>1 DEF ArmRead
  <2> QED BY <1>2, <2>1, <2>2 DEF Kept, Same, Sound, Connection
<1>3. CASE r.state # "Established"
  <2>1. ArmRead(r) = FinishClose(r)
    BY <1>3 DEF ArmRead
  <2>2. r.tx > 0 => r.state = "Closing"
    BY <1>3 DEF Sound, Connection, States, Stages
  <2> QED BY <2>1, <2>2, FinishCloseKeeps
<1> QED BY <1>1, <1>2, <1>3

LEMMA ResolvedKeeps ==
  ASSUME NEW r, Sound(r), r.mapped, r.state # "Closed"
  PROVE  Sound(Resolved(r)) /\ Kept(Resolved(r)) /\ Same(r, Resolved(r))
<1>1. CASE r.state # "Resolving"
  BY <1>1, FailKeeps DEF Resolved
<1>2. CASE r.state = "Resolving"
  <2> DEFINE s == [r EXCEPT !.state = "Connecting", !.ops = {"connect"}]
  <2>1. Resolved(r) = s
    BY <1>2 DEF Resolved
  <2>2. /\ s \in Connection /\ s.state = "Connecting" /\ s.ops = {"connect"}
        /\ s.tx = r.tx /\ s.posts = r.posts /\ s.pending = r.pending
        /\ s.queued = r.queued /\ s.overrun = r.overrun /\ s.closeCalled = r.closeCalled
        /\ s.mapped = r.mapped /\ s.delivering = r.delivering /\ s.told = r.told
        /\ s.closings = r.closings /\ s.closeRequested = r.closeRequested
    BY DEF Sound, Connection, States, Ops
  <2> HIDE DEF s
  <2>3. Sound(s)
    BY <2>2, <1>2 DEF Sound, Round, Stages
  <2>4. Kept(s) /\ Same(r, s)
    BY <2>2, <1>2 DEF Kept, Same, Sound, Connection
  <2> QED BY <2>1, <2>3, <2>4
<1> QED BY <1>1, <1>2

\* A handler that has the token may raise an event.
LEMMA RaiseKeeps ==
  ASSUME NEW r, Sound(r), Writing(r), Held(r), r.mapped, r.state = "Established",
         NEW event \in {"Established", "Data"}
  PROVE  /\ Sound(Raise(r, event)) /\ Kept(Raise(r, event)) /\ Same(r, Raise(r, event))
<1> DEFINE s == Raise(r, event)
<1>1. r \in Connection /\ event \in Events /\ r.pending = "None" /\ ~r.overrun
  BY DEF Sound, Events, Held, Round
<1>6. s = Raise(r, event)
  OBVIOUS
<1> HIDE DEF s
<1>7. /\ s \in Connection
      /\ s.pending = event /\ s.queued = r.queued + 1
      /\ r.pending = "None" /\ ~r.overrun => ~s.overrun
      /\ s.state = r.state /\ s.ops = r.ops /\ s.tx = r.tx /\ s.posts = r.posts
      /\ s.closeRequested = r.closeRequested /\ s.closeCalled = r.closeCalled
      /\ s.mapped = r.mapped /\ s.delivering = r.delivering
      /\ s.told = r.told /\ s.closings = r.closings /\ s.broke = r.broke
  <2>1. IsRaised(r, s, event)
    BY <1>1, <1>6, Raised, Zenon
  <2> QED BY <2>1 DEF IsRaised
<1>2. ~s.overrun
  BY <1>1, <1>7
<1>3. Round(s)
  BY <1>2, <1>7 DEF Sound, Round, Held
<1>4. Stages(s)
  BY <1>7 DEF Sound, Stages, Held
<1>5. Kept(s) /\ Same(r, s)
  BY <1>7 DEF Kept, Same, Writing, Coming
<1> QED BY <1>7, <1>3, <1>4, <1>5 DEF Sound, s

LEMMA ConnectedKeeps ==
  ASSUME NEW r, Sound(r), r.mapped, r.state # "Closed"
  PROVE  Sound(Connected(r)) /\ Kept(Connected(r)) /\ Same(r, Connected(r))
<1>1. CASE r.state # "Connecting"
  BY <1>1, FailKeeps DEF Connected
<1>2. CASE r.state = "Connecting"
  <2> DEFINE t == [r EXCEPT !.state = "Established", !.writable = TRUE]
  <2>1. Connected(r) = Raise(t, "Established")
    BY <1>2 DEF Connected
  <2>2. /\ t \in Connection /\ t.state = "Established" /\ t.ops = r.ops
        /\ t.tx = r.tx /\ t.posts = r.posts /\ t.pending = r.pending
        /\ t.queued = r.queued /\ t.overrun = r.overrun /\ t.closeCalled = r.closeCalled
        /\ t.mapped = r.mapped /\ t.delivering = r.delivering /\ t.told = r.told
        /\ t.closings = r.closings /\ t.closeRequested = r.closeRequested
    BY DEF Sound, Connection, States
  <2> HIDE DEF t
  <2>3. Sound(t)
    BY <2>2, <1>2 DEF Sound, Round, Stages
  <2>4. Writing(t) /\ Held(t) /\ Same(r, t)
    BY <2>2, <1>2 DEF Sound, Stages, Writing, Held, Same, Connection
  <2>5. Sound(Raise(t, "Established")) /\ Kept(Raise(t, "Established")) /\ Same(t, Raise(t, "Established"))
    BY <2>2, <2>3, <2>4, RaiseKeeps
  <2> QED BY <2>1, <2>2, <2>5, <1>2 DEF Same
<1> QED BY <1>1, <1>2

LEMMA ReadSomeKeeps ==
  ASSUME NEW r, Sound(r), Writing(r), Held(r), r.mapped, r.state # "Closed"
  PROVE  Sound(ReadSome(r)) /\ Kept(ReadSome(r)) /\ Same(r, ReadSome(r))
<1>1. CASE r.state # "Established"
  BY <1>1, FailKeeps DEF ReadSome
<1>2. CASE r.state = "Established"
  BY <1>2, RaiseKeeps DEF ReadSome
<1> QED BY <1>1, <1>2

LEMMA WroteKeeps ==
  ASSUME NEW r, Sound(r), r.mapped, r.state # "Closed",
         r.state = "Established" /\ ~r.closeRequested => "read" \in r.ops \/ Coming(r)
  PROVE  Sound(Wrote(r)) /\ Kept(Wrote(r)) /\ Same(r, Wrote(r))
<1>1. CASE r.state # "Established"
  BY <1>1, FailKeeps DEF Wrote
<1>2. CASE r.state = "Established" /\ r.tx > 0
  <2>1. PICK ops \in SUBSET Ops : ops = r.ops \cup {"write"}
    BY DEF Sound, Connection, Ops
  <2> DEFINE s == [r EXCEPT !.ops = ops]
  <2>2. Wrote(r) = s
    BY <1>2, <2>1 DEF Wrote
  <2>3. /\ s \in Connection /\ s.state = r.state /\ s.ops = ops /\ s.tx = r.tx
        /\ s.posts = r.posts /\ s.pending = r.pending
        /\ s.queued = r.queued /\ s.overrun = r.overrun /\ s.closeCalled = r.closeCalled
        /\ s.mapped = r.mapped /\ s.delivering = r.delivering /\ s.told = r.told
        /\ s.closings = r.closings /\ s.closeRequested = r.closeRequested
    BY DEF Sound, Connection
  <2> HIDE DEF s
  <2>4. "write" \in s.ops /\ ("read" \in s.ops <=> "read" \in r.ops)
    BY <2>1, <2>3
  <2>5. Sound(s)
    BY <2>3, <2>4, <1>2 DEF Sound, Round, Stages
  <2>6. Kept(s) /\ Same(r, s)
    BY <2>3, <2>4, <1>2 DEF Kept, Same, Sound, Connection, Coming
  <2> QED BY <2>2, <2>5, <2>6
<1>3. CASE r.state = "Established" /\ ~(r.tx > 0) /\ r.closeRequested
  <2>1. Wrote(r) = FinishClose(r)
    BY <1>3 DEF Wrote
  <2> QED BY <2>1, <1>3, FinishCloseKeeps
<1>4. CASE r.state = "Established" /\ ~(r.tx > 0) /\ ~r.closeRequested
  <2>1. Wrote(r) = r
    BY <1>4 DEF Wrote
  <2> QED BY <2>1, <1>4 DEF Kept, Same, Sound, Connection
<1> QED BY <1>1, <1>2, <1>3, <1>4

\* Nothing is left to do to a closed connection.
LEMMA ClosedStays ==
  ASSUME NEW r, Sound(r), r.state = "Closed", NEW address \in BOOLEAN
  PROVE  /\ Start(r, address) = r /\ ArmRead(r) = r /\ Enqueue(r) = r /\ RequestClose(r) = r
         /\ Kept(r) /\ Same(r, r)
<1>1. Start(r, address) = r /\ Enqueue(r) = r /\ RequestClose(r) = r
  BY DEF Start, Enqueue, RequestClose
<1>2. ArmRead(r) = r
  BY DEF ArmRead, FinishClose
<1>3. Kept(r) /\ Same(r, r)
  BY DEF Kept, Same, Sound, Connection
<1> QED BY <1>1, <1>2, <1>3

\* A call of the client is posted: the connection stays sound, and kept.
LEMMA PostKeeps ==
  ASSUME NEW r, Sound(r), Kept(r), NEW call \in Calls, call # "ArmRead",
         NEW s \in Connection, s.posts = Append(r.posts, call), s.mapped,
         s.state = r.state, s.ops = r.ops, s.tx = r.tx, s.closeRequested = r.closeRequested,
         s.pending = r.pending, s.queued = r.queued, s.delivering = r.delivering,
         s.closings = r.closings, s.broke = r.broke, s.overrun = r.overrun
  PROVE  Sound(s) /\ Kept(s)
<1>1. /\ HasArm(s.posts) <=> HasArm(r.posts)
      /\ OneArm(r.posts) => OneArm(s.posts)
  BY PostedOther DEF Sound, Connection
<1>2. Round(s)
  BY <1>1 DEF Sound, Round
<1>3. Stages(s)
  BY <1>1 DEF Sound, Stages
<1>4. Coming(r) <=> Coming(s)
  BY <1>1 DEF Coming, HasArm
<1>5. Kept(s)
  BY <1>4 DEF Kept
<1> QED BY <1>2, <1>3, <1>5 DEF Sound

-----------------------------------------------------------------------------
(* The steps.                                                              *)

LEMMA OneChanges ==
  ASSUME IInv, NEW c \in Connections, NEW s, Sound(s), Kept(s), conn' = [conn EXCEPT ![c] = s]
  PROVE  /\ conn' \in [Connections -> Connection]
         /\ \A d \in Connections : Sound(conn'[d]) /\ Kept(conn'[d])
         /\ conn'[c] = s /\ \A d \in Connections \ {c} : conn'[d] = conn[d]
<1>1. s \in Connection
  BY DEF Sound
<1>2. conn'[c] = s /\ \A d \in Connections \ {c} : conn'[d] = conn[d]
  BY DEF IInv
<1>3. conn' \in [Connections -> Connection]
  BY <1>1 DEF IInv
<1>4. ASSUME NEW d \in Connections PROVE Sound(conn'[d]) /\ Kept(conn'[d])
  <2>1. CASE d = c
    BY <1>2, <2>1, Zenon
  <2>2. CASE d # c
    BY <1>2, <2>2, Zenon DEF IInv
  <2> QED BY <2>1, <2>2
<1> QED BY <1>2, <1>3, <1>4

LEMMA HandlerKeeps ==
  ASSUME IInv, NEW c \in Connections, NEW s, Handler(c, s),
         Sound(s), Kept(s), Same(conn[c], s), conn[c] # Fresh
  PROVE  IInv' /\ TellsNothingAfter
<1>1. /\ conn' \in [Connections -> Connection]
      /\ \A d \in Connections : Sound(conn'[d]) /\ Kept(conn'[d])
      /\ conn'[c] = s /\ \A d \in Connections \ {c} : conn'[d] = conn[d]
  BY OneChanges DEF Handler
<1>2. ASSUME s.queued > conn[c].queued PROVE s.pending # "None" /\ s.mapped
  <2>1. conn[c].state # "Closed"
    BY <1>2 DEF Same
  <2>2. conn[c].mapped
    BY <2>1 DEF IInv, Sound, Stages
  <2>3. s.queued # 0
    BY <1>2 DEF IInv, Sound, Connection
  <2> QED BY <2>2, <2>3 DEF Same, Sound, Round
<1>3. raising' \in SUBSET Connections /\ \A d \in raising' : conn'[d].pending # "None" /\ conn'[d].mapped
  BY <1>1, <1>2 DEF Handler
<1>4. manager' = manager /\ \A d \in Connections : conn'[d].mapped = conn[d].mapped
  BY <1>1 DEF Handler, Same
<1>5. IInv'
  BY <1>1, <1>3, <1>4 DEF IInv
<1>6. TellsNothingAfter
  <2> SUFFICES ASSUME NEW d \in Connections
               PROVE  /\ conn'[d].told = conn[d].told /\ conn'[d].closings = conn[d].closings
    BY Zenon DEF TellsNothingAfter
  <2> QED BY <1>1 DEF Same
<1> QED BY <1>5, <1>6

LEMMA RunPostKeeps ==
  ASSUME IInv, NEW c \in Connections, RunPost(c)
  PROVE  IInv' /\ TellsNothingAfter
<1> DEFINE r == [conn[c] EXCEPT !.posts = Tail(conn[c].posts)]
           call == Head(conn[c].posts)
<1>1. /\ Sound(conn[c]) /\ Kept(conn[c]) /\ conn[c] \in Connection
      /\ conn[c].posts # <<>> /\ conn[c].posts \in Seq(Calls)
  BY DEF IInv, RunPost, Sound, Connection
<1>2. PICK q \in Seq(Calls) : q = Tail(conn[c].posts)
  BY <1>1, PostRun
<1>3. /\ HasArm(q) => HasArm(conn[c].posts)
      /\ OneArm(conn[c].posts) => OneArm(q)
      /\ call # "ArmRead" /\ HasArm(conn[c].posts) => HasArm(q)
      /\ call = "ArmRead" => HasArm(conn[c].posts)
      /\ call = "ArmRead" /\ OneArm(conn[c].posts) => ~HasArm(q)
      /\ call \in Calls
  BY <1>1, <1>2, PostRun
<1>4. conn[c] # Fresh
  BY <1>1 DEF Fresh
<1>5. r = [conn[c] EXCEPT !.posts = q]
  BY <1>2
<1> HIDE DEF r
<1>6. /\ r \in Connection /\ r.posts = q
      /\ r.state = conn[c].state /\ r.ops = conn[c].ops /\ r.tx = conn[c].tx
      /\ r.closeRequested = conn[c].closeRequested /\ r.pending = conn[c].pending
      /\ r.queued = conn[c].queued /\ r.delivering = conn[c].delivering
      /\ r.closings = conn[c].closings /\ r.broke = conn[c].broke
      /\ r.overrun = conn[c].overrun /\ r.mapped = conn[c].mapped /\ r.opening = conn[c].opening
      /\ r.told = conn[c].told /\ r.closeCalled = conn[c].closeCalled
  <2> DEFINE u == [conn[c] EXCEPT !.posts = q]
  <2>1. /\ u \in Connection /\ u.posts = q
        /\ u.state = conn[c].state /\ u.ops = conn[c].ops /\ u.tx = conn[c].tx
        /\ u.closeRequested = conn[c].closeRequested /\ u.pending = conn[c].pending
        /\ u.queued = conn[c].queued /\ u.delivering = conn[c].delivering
        /\ u.closings = conn[c].closings /\ u.broke = conn[c].broke
        /\ u.overrun = conn[c].overrun /\ u.mapped = conn[c].mapped /\ u.opening = conn[c].opening
        /\ u.told = conn[c].told /\ u.closeCalled = conn[c].closeCalled
    BY <1>1 DEF Connection
  <2> QED BY <2>1, <1>5
<1> HIDE DEF call
<1>7. Round(r)
  BY <1>1, <1>3, <1>6 DEF Sound, Round
<1>8. Stages(r)
  BY <1>1, <1>3, <1>4, <1>6 DEF Sound, Stages
<1>9. Sound(r)
  BY <1>6, <1>7, <1>8 DEF Sound
<1>10. ASSUME NEW s, Handler(c, s), Sound(s), Kept(s), Same(r, s)
       PROVE  IInv' /\ TellsNothingAfter
  <2>1. Same(conn[c], s)
    BY <1>6, <1>10 DEF Same
  <2> QED BY <1>4, <1>10, <2>1, HandlerKeeps
<1>11. /\ call = "Start" => \E address \in BOOLEAN : Handler(c, Start(r, address))
       /\ call = "ArmRead" => Handler(c, ArmRead(r))
       /\ call = "Enqueue" => Handler(c, Enqueue(r))
       /\ call = "RequestClose" => Handler(c, RequestClose(r))
  BY DEF RunPost, r, call
<1>12. CASE r.state = "Closed"
  <2>1. Handler(c, r)
    BY <1>3, <1>9, <1>11, <1>12, ClosedStays DEF Calls
  <2>2. Kept(r) /\ Same(r, r)
    BY <1>9, <1>12, ClosedStays
  <2> QED BY <1>9, <1>10, <2>1, <2>2
<1>13. CASE r.state # "Closed" /\ call # "ArmRead"
  <2>1. Coming(conn[c]) => Coming(r)
    BY <1>3, <1>6, <1>13 DEF Coming, HasArm
  <2>2. Kept(r)
    BY <1>1, <1>6, <2>1 DEF Kept
  <2>3. r.mapped
    BY <1>4, <1>6, <1>1, <1>13 DEF Sound, Stages
  <2>4. CASE call = "Start"
    <3>1. PICK address \in BOOLEAN : Handler(c, Start(r, address))
      BY <1>11, <2>4
    <3> QED BY <3>1, <1>9, <1>10, <1>13, <2>2, <2>3, StartKeeps
  <2>5. CASE call = "Enqueue"
    BY <2>5, <1>11, <1>9, <1>10, <1>13, <2>2, <2>3, EnqueueKeeps
  <2>6. CASE call = "RequestClose"
    BY <2>6, <1>11, <1>9, <1>10, <1>13, <2>2, <2>3, RequestCloseKeeps
  <2> QED BY <1>3, <1>13, <2>4, <2>5, <2>6 DEF Calls
<1>14. CASE r.state # "Closed" /\ call = "ArmRead"
  <2>1. Held(r) /\ Writing(r)
    BY <1>1, <1>3, <1>6, <1>14 DEF Held, Writing, Sound, Round, Kept
  <2>2. r.mapped
    BY <1>4, <1>6, <1>1, <1>14 DEF Sound, Stages
  <2> QED BY <1>9, <1>10, <1>11, <1>14, <2>1, <2>2, ArmReadKeeps
<1> QED BY <1>12, <1>13, <1>14

LEMMA CompleteKeeps ==
  ASSUME IInv, NEW c \in Connections, NEW op \in Ops, Complete(c, op)
  PROVE  IInv' /\ TellsNothingAfter
<1> DEFINE r == [conn[c] EXCEPT !.ops = @ \ {op}, !.tx = IF op = "write" THEN @ - 1 ELSE @]
<1>1. /\ Sound(conn[c]) /\ Kept(conn[c]) /\ conn[c] \in Connection /\ op \in conn[c].ops
  BY DEF IInv, Complete, Sound
<1>2. PICK n \in Nat : /\ n = (IF op = "write" THEN conn[c].tx - 1 ELSE conn[c].tx)
                       /\ n > 0 => conn[c].tx > 0
  <2>1. conn[c].tx \in Nat /\ (op = "write" => conn[c].tx > 0)
    BY <1>1 DEF Connection, Sound, Stages
  <2> QED BY <2>1
<1>3. PICK ops \in SUBSET Ops : ops = conn[c].ops \ {op}
  BY <1>1 DEF Connection
<1>4. conn[c] # Fresh /\ conn[c].state # "Closed"
  BY <1>1 DEF Fresh, Sound, Stages
<1>5. r = [conn[c] EXCEPT !.ops = ops, !.tx = n]
  BY <1>2, <1>3
<1> HIDE DEF r
<1>6. /\ r \in Connection /\ r.ops = ops /\ r.tx = n
      /\ r.state = conn[c].state /\ r.posts = conn[c].posts
      /\ r.closeRequested = conn[c].closeRequested /\ r.pending = conn[c].pending
      /\ r.queued = conn[c].queued /\ r.delivering = conn[c].delivering
      /\ r.closings = conn[c].closings /\ r.broke = conn[c].broke
      /\ r.overrun = conn[c].overrun /\ r.mapped = conn[c].mapped /\ r.opening = conn[c].opening
      /\ r.told = conn[c].told /\ r.closeCalled = conn[c].closeCalled
  <2> DEFINE u == [conn[c] EXCEPT !.ops = ops, !.tx = n]
  <2>1. /\ u \in Connection /\ u.ops = ops /\ u.tx = n
        /\ u.state = conn[c].state /\ u.posts = conn[c].posts
        /\ u.closeRequested = conn[c].closeRequested /\ u.pending = conn[c].pending
        /\ u.queued = conn[c].queued /\ u.delivering = conn[c].delivering
        /\ u.closings = conn[c].closings /\ u.broke = conn[c].broke
        /\ u.overrun = conn[c].overrun /\ u.mapped = conn[c].mapped /\ u.opening = conn[c].opening
        /\ u.told = conn[c].told /\ u.closeCalled = conn[c].closeCalled
    BY <1>1 DEF Connection
  <2> QED BY <2>1, <1>5
<1>7. /\ "read" \in r.ops => "read" \in conn[c].ops
      /\ "write" \in r.ops => "write" \in conn[c].ops /\ op # "write"
      /\ op # "write" => r.tx = conn[c].tx /\ ("write" \in conn[c].ops => "write" \in r.ops)
      /\ op = "read" => "read" \notin r.ops
      /\ op # "read" /\ "read" \in conn[c].ops => "read" \in r.ops
      /\ r.tx > 0 => conn[c].tx > 0
  BY <1>2, <1>3, <1>6
<1>8. r.mapped
  BY <1>1, <1>4, <1>6 DEF Sound, Stages
<1>9. Round(r)
  BY <1>1, <1>6, <1>7 DEF Sound, Round
<1>10. Stages(r)
  <2>1. r.tx \in Nat /\ conn[c].tx \in Nat
    BY <1>1, <1>6 DEF Connection
  <2> QED BY <1>1, <1>4, <1>6, <1>7, <1>8, <2>1 DEF Sound, Stages
<1>11. Sound(r) /\ r.state # "Closed"
  BY <1>4, <1>6, <1>9, <1>10 DEF Sound
<1>12. ASSUME NEW s, Handler(c, s), Sound(s), Kept(s), Same(r, s)
       PROVE  IInv' /\ TellsNothingAfter
  <2>1. Same(conn[c], s)
    BY <1>6, <1>12 DEF Same
  <2> QED BY <1>4, <1>12, <2>1, HandlerKeeps
<1>13. \/ Handler(c, Fail(r))
       \/ op = "resolve" /\ Handler(c, Resolved(r))
       \/ op = "connect" /\ Handler(c, Connected(r))
       \/ op = "read" /\ Handler(c, ReadSome(r))
       \/ op = "write" /\ Handler(c, Wrote(r))
  BY Zenon DEF Complete, r
<1>14. CASE Handler(c, Fail(r))
  BY <1>8, <1>11, <1>12, <1>14, FailKeeps
<1>15. CASE op = "resolve" /\ Handler(c, Resolved(r))
  BY <1>8, <1>11, <1>12, <1>15, ResolvedKeeps
<1>16. CASE op = "connect" /\ Handler(c, Connected(r))
  BY <1>8, <1>11, <1>12, <1>16, ConnectedKeeps
<1>17. CASE op = "read" /\ Handler(c, ReadSome(r))
  <2>1. Held(r) /\ Writing(r)
    BY <1>1, <1>4, <1>6, <1>7, <1>17 DEF Held, Writing, Sound, Round, Kept
  <2> QED BY <2>1, <1>8, <1>11, <1>12, <1>17, ReadSomeKeeps
<1>18. CASE op = "write" /\ Handler(c, Wrote(r))
  <2>1. Coming(conn[c]) => Coming(r)
    BY <1>6 DEF Coming
  <2>2. r.state = "Established" /\ ~r.closeRequested => "read" \in r.ops \/ Coming(r)
    BY <1>1, <1>6, <1>7, <1>18, <2>1 DEF Kept
  <2> QED BY <2>2, <1>8, <1>11, <1>12, <1>18, WroteKeeps
<1> QED BY <1>13, <1>14, <1>15, <1>16, <1>17, <1>18

\* A step of the loop's thread on one connection: what else IInv asks.
LEMMA LoopStepKeeps ==
  ASSUME IInv, NEW c \in Connections, NEW s, Sound(s), Kept(s),
         conn' = [conn EXCEPT ![c] = s], raising' = raising,
         c \in raising => s.pending # "None" /\ s.mapped,
         manager' \in {"STARTED", "STOPPING", "STOPPED"},
         manager' = "STOPPED" => ~s.mapped /\ \A d \in Connections \ {c} : ~conn[d].mapped,
         conn[c].closings = 1 => s.told = conn[c].told /\ s.closings = 1,
         conn[c].closeCalled => s.told \in {conn[c].told, "Closing"}
  PROVE  IInv' /\ TellsNothingAfter
<1>1. /\ conn' \in [Connections -> Connection]
      /\ \A d \in Connections : Sound(conn'[d]) /\ Kept(conn'[d])
      /\ conn'[c] = s /\ \A d \in Connections \ {c} : conn'[d] = conn[d]
  BY OneChanges
<1>2. \A d \in raising' : conn'[d].pending # "None" /\ conn'[d].mapped
  BY <1>1 DEF IInv
<1>3. manager' = "STOPPED" => \A d \in Connections : ~conn'[d].mapped
  BY <1>1
<1>4. IInv'
  BY <1>1, <1>2, <1>3 DEF IInv
<1>5. TellsNothingAfter
  <2> SUFFICES ASSUME NEW d \in Connections
               PROVE  /\ conn[d].closings = 1 => conn'[d].told = conn[d].told /\ conn'[d].closings = 1
                      /\ conn[d].closeCalled => conn'[d].told \in {conn[d].told, "Closing"}
    BY Zenon DEF TellsNothingAfter
  <2>1. CASE d = c
    BY <1>1, <2>1
  <2>2. CASE d # c
    BY <1>1, <2>2
  <2> QED BY <2>1, <2>2
<1> QED BY <1>4, <1>5

LEMMA DeliverTakeKeeps ==
  ASSUME IInv, NEW c \in Connections, DeliverTake(c)
  PROVE  IInv' /\ TellsNothingAfter
<1> DEFINE e == conn[c].pending
           u == [conn[c] EXCEPT !.queued = conn[c].queued - 1, !.pending = "None", !.delivering = e]
           v == [u EXCEPT !.mapped = FALSE, !.told = "Closing", !.closings = u.closings + 1]
           w == [u EXCEPT !.told = IF u.closeCalled THEN u.told ELSE e]
           s == IF e = "Closing" THEN v ELSE w
<1>1. /\ Sound(conn[c]) /\ Kept(conn[c]) /\ conn[c] \in Connection /\ conn[c].queued > 0
      /\ conn' = [conn EXCEPT ![c] = s] /\ c \notin raising
      /\ raising' = raising /\ manager' = manager /\ ~conn[c].opening
  BY DEF IInv, DeliverTake, Sound, InOpening
<1>2. conn[c].queued = 1 /\ e # "None" /\ e \in Events
  BY <1>1 DEF Sound, Round, Connection
<1>3. PICK ev \in Events : ev = e
  BY <1>2
<1>4. u = [conn[c] EXCEPT !.queued = 0, !.pending = "None", !.delivering = ev]
  BY <1>2, <1>3
<1>5. /\ u \in Connection /\ u.queued = 0 /\ u.pending = "None" /\ u.delivering = e
      /\ u.ops = conn[c].ops /\ u.tx = conn[c].tx /\ u.posts = conn[c].posts
      /\ u.state = conn[c].state /\ u.closeRequested = conn[c].closeRequested
      /\ u.closings = conn[c].closings /\ u.broke = conn[c].broke
      /\ u.overrun = conn[c].overrun /\ u.mapped = conn[c].mapped /\ u.opening = conn[c].opening
      /\ u.told = conn[c].told /\ u.closeCalled = conn[c].closeCalled
  <2> HIDE DEF u
  <2> DEFINE x == [conn[c] EXCEPT !.queued = 0, !.pending = "None", !.delivering = ev]
  <2>1. /\ x \in Connection /\ x.queued = 0 /\ x.pending = "None" /\ x.delivering = ev
        /\ x.ops = conn[c].ops /\ x.tx = conn[c].tx /\ x.posts = conn[c].posts
        /\ x.state = conn[c].state /\ x.closeRequested = conn[c].closeRequested
        /\ x.closings = conn[c].closings /\ x.broke = conn[c].broke
        /\ x.overrun = conn[c].overrun /\ x.mapped = conn[c].mapped /\ x.opening = conn[c].opening
        /\ x.told = conn[c].told /\ x.closeCalled = conn[c].closeCalled
    BY <1>1 DEF Connection, Events
  <2> QED BY <2>1, <1>3, <1>4
<1> HIDE DEF u
<1>6. CASE e = "Closing"
  <2>1. conn[c].state = "Closed" /\ conn[c].closings = 0
    BY <1>1, <1>2, <1>6 DEF Sound, Stages
  <2>2. v = [u EXCEPT !.mapped = FALSE, !.told = "Closing", !.closings = 1]
    BY <1>5, <2>1
  <2> DEFINE x == [u EXCEPT !.mapped = FALSE, !.told = "Closing", !.closings = 1]
  <2>3. /\ x \in Connection /\ x.mapped = FALSE /\ x.told = "Closing" /\ x.closings = 1
        /\ x.queued = u.queued /\ x.pending = u.pending
        /\ x.ops = u.ops /\ x.tx = u.tx /\ x.state = u.state
        /\ x.broke = u.broke /\ x.overrun = u.overrun /\ x.opening = u.opening
    BY <1>5 DEF Connection, Events
  <2> HIDE DEF x
  <2>4. s = x
    BY <1>6, <2>2 DEF x
  <2> HIDE DEF s
  <2>5. Sound(x) /\ Kept(x)
    BY <1>1, <1>5, <2>1, <2>3 DEF Sound, Round, Stages, Kept
  <2>6. manager' = "STOPPED" => ~x.mapped /\ \A d \in Connections \ {c} : ~conn[d].mapped
    BY <1>1, <2>3 DEF IInv
  <2>7. conn' = [conn EXCEPT ![c] = x] /\ manager' \in {"STARTED", "STOPPING", "STOPPED"}
    BY <1>1, <2>4 DEF IInv
  <2>8. /\ conn[c].closings = 1 => x.told = conn[c].told /\ x.closings = 1
        /\ conn[c].closeCalled => x.told \in {conn[c].told, "Closing"}
    BY <2>1, <2>3
  <2> QED BY <1>1, <2>5, <2>6, <2>7, <2>8, LoopStepKeeps
<1>7. CASE e # "Closing"
  <2>1. conn[c].state \in {"Established", "Closing"} /\ conn[c].closings = 0
    BY <1>1, <1>2, <1>7 DEF Sound, Stages, Connection, States
  <2>2. PICK told \in Events \cup {"Opening"} : told = (IF u.closeCalled THEN u.told ELSE e)
    BY <1>2, <1>5 DEF Connection
  <2> DEFINE x == [u EXCEPT !.told = told]
  <2>3. /\ x \in Connection /\ x.told = told
        /\ x.queued = u.queued /\ x.pending = u.pending /\ x.delivering = u.delivering
        /\ x.ops = u.ops /\ x.tx = u.tx /\ x.state = u.state /\ x.posts = u.posts
        /\ x.broke = u.broke /\ x.overrun = u.overrun /\ x.mapped = u.mapped
        /\ x.closings = u.closings /\ x.closeRequested = u.closeRequested
        /\ x.closeCalled = u.closeCalled
    BY <1>5 DEF Connection
  <2>4. s = x
    BY <1>7, <2>2
  <2> HIDE DEF x, s
  <2>5. conn[c].mapped
    BY <1>1, <1>2, <2>1 DEF Sound, Stages, Fresh
  <2>6. Round(x)
    BY <1>1, <1>2, <1>5, <2>1, <2>3 DEF Sound, Round
  <2>7. Stages(x)
    BY <1>1, <1>2, <1>5, <1>7, <2>1, <2>3, <2>5 DEF Sound, Stages
  <2>8. Coming(x)
    BY <1>2, <1>5, <2>3 DEF Coming
  <2>9. Kept(x)
    BY <1>1, <1>5, <2>3, <2>8 DEF Kept
  <2>10. manager' = "STOPPED" => ~x.mapped /\ \A d \in Connections \ {c} : ~conn[d].mapped
    BY <1>1, <1>5, <2>3 DEF IInv
  <2>11. conn' = [conn EXCEPT ![c] = x] /\ manager' \in {"STARTED", "STOPPING", "STOPPED"}
    BY <1>1, <2>4 DEF IInv
  <2>12. conn[c].closeCalled => x.told \in {conn[c].told, "Closing"}
    BY <1>5, <2>2, <2>3
  <2>13. Sound(x) /\ conn[c].closings # 1
    BY <2>1, <2>3, <2>6, <2>7 DEF Sound
  <2> QED BY <1>1, <2>9, <2>10, <2>11, <2>12, <2>13, LoopStepKeeps
<1> QED BY <1>6, <1>7

\* s is r with its callback done and the calls q posted.
IsReturned(r, s, q) ==
  /\ s \in Connection /\ s.posts = q /\ s.delivering = "None"
  /\ s.queued = r.queued /\ s.pending = r.pending
  /\ s.ops = r.ops /\ s.tx = r.tx
  /\ s.state = r.state /\ s.closeRequested = r.closeRequested
  /\ s.closings = r.closings /\ s.broke = r.broke
  /\ s.overrun = r.overrun /\ s.mapped = r.mapped /\ s.opening = r.opening
  /\ s.told = r.told /\ s.closeCalled = r.closeCalled

LEMMA DeliverEndKeeps ==
  ASSUME IInv, NEW c \in Connections, DeliverEnd(c)
  PROVE  IInv' /\ TellsNothingAfter
<1>1. /\ Sound(conn[c]) /\ Kept(conn[c]) /\ conn[c] \in Connection /\ conn[c].delivering # "None"
      /\ raising' = raising /\ conn[c].posts \in Seq(Calls)
  BY DEF IInv, DeliverEnd, Sound, Connection
<1>2. conn[c] # Fresh
  BY <1>1 DEF Fresh
<1>3. ASSUME NEW q \in Seq(Calls), NEW s,
             s = [conn[c] EXCEPT !.posts = q, !.delivering = "None"]
      PROVE  IsReturned(conn[c], s, q)
  <2> DEFINE x == [conn[c] EXCEPT !.posts = q, !.delivering = "None"]
  <2>1. /\ x \in Connection /\ x.posts = q /\ x.delivering = "None"
        /\ x.queued = conn[c].queued /\ x.pending = conn[c].pending
        /\ x.ops = conn[c].ops /\ x.tx = conn[c].tx
        /\ x.state = conn[c].state /\ x.closeRequested = conn[c].closeRequested
        /\ x.closings = conn[c].closings /\ x.broke = conn[c].broke
        /\ x.overrun = conn[c].overrun /\ x.mapped = conn[c].mapped /\ x.opening = conn[c].opening
        /\ x.told = conn[c].told /\ x.closeCalled = conn[c].closeCalled
    BY <1>1 DEF Connection, Events
  <2> HIDE DEF x
  <2>2. s = x
    BY <1>3 DEF x
  <2> QED BY <2>1, <2>2 DEF IsReturned
<1>4. CASE conn[c].delivering = "Closing"
  <2> DEFINE s == [conn[c] EXCEPT !.posts = conn[c].posts, !.delivering = "None"]
  <2>1. conn' = [conn EXCEPT ![c] = s] /\ manager' = CheckStopped(manager, conn)
    <3>1. s = [conn[c] EXCEPT !.delivering = "None"]
      BY <1>1 DEF Connection
    <3> QED BY <1>4, <3>1 DEF DeliverEnd
  <2>2. s = [conn[c] EXCEPT !.posts = conn[c].posts, !.delivering = "None"]
    OBVIOUS
  <2> HIDE DEF s
  <2>3. /\ s \in Connection /\ s.delivering = "None"
        /\ s.queued = conn[c].queued /\ s.pending = conn[c].pending
        /\ s.ops = conn[c].ops /\ s.tx = conn[c].tx
        /\ s.state = conn[c].state
        /\ s.closings = conn[c].closings /\ s.broke = conn[c].broke
        /\ s.overrun = conn[c].overrun /\ s.mapped = conn[c].mapped /\ s.opening = conn[c].opening
        /\ s.told = conn[c].told
    <3>1. IsReturned(conn[c], s, conn[c].posts)
      BY <1>1, <1>3, <2>2, Zenon
    <3> QED BY <3>1 DEF IsReturned
  <2>4. conn[c].state = "Closed"
    BY <1>1, <1>4 DEF Sound, Stages
  <2>5. Sound(s) /\ Kept(s)
    BY <1>1, <1>2, <2>3, <2>4 DEF Sound, Round, Stages, Kept
  <2>6. /\ manager' \in {"STARTED", "STOPPING", "STOPPED"}
        /\ manager' = "STOPPED" => ~s.mapped /\ \A d \in Connections \ {c} : ~conn[d].mapped
    BY <2>1, <2>3 DEF IInv, CheckStopped
  <2>7. c \in raising => s.pending # "None" /\ s.mapped
    BY <2>3 DEF IInv
  <2> QED BY <1>1, <2>1, <2>3, <2>5, <2>6, <2>7, LoopStepKeeps
<1>5. CASE conn[c].delivering # "Closing"
  <2> DEFINE q == Append(conn[c].posts, "ArmRead")
             s == [conn[c] EXCEPT !.posts = q, !.delivering = "None"]
  <2>1. conn' = [conn EXCEPT ![c] = s] /\ manager' = manager
    BY <1>5 DEF DeliverEnd, Post
  <2>2. s = [conn[c] EXCEPT !.posts = q, !.delivering = "None"] /\ q \in Seq(Calls)
    BY <1>1 DEF Calls
  <2> HIDE DEF s
  <2>3. /\ s \in Connection /\ s.posts = q /\ s.delivering = "None"
        /\ s.queued = conn[c].queued /\ s.pending = conn[c].pending
        /\ s.ops = conn[c].ops /\ s.tx = conn[c].tx
        /\ s.state = conn[c].state /\ s.closeRequested = conn[c].closeRequested
        /\ s.closings = conn[c].closings /\ s.broke = conn[c].broke
        /\ s.overrun = conn[c].overrun /\ s.mapped = conn[c].mapped /\ s.opening = conn[c].opening
        /\ s.told = conn[c].told /\ s.closeCalled = conn[c].closeCalled
    <3>1. IsReturned(conn[c], s, q)
      BY <1>3, <2>2, Zenon
    <3> QED BY <3>1 DEF IsReturned
  <2>4. conn[c].state # "Closed" => HasArm(q) /\ OneArm(q)
    BY <1>1, PostedArm DEF Sound, Round
  <2> HIDE DEF q
  <2>5. Round(s)
    BY <1>1, <2>3, <2>4 DEF Sound, Round
  <2>6. Stages(s)
    BY <1>1, <1>2, <2>3 DEF Sound, Stages
  <2>7. Kept(s)
    BY <1>1, <2>3, <2>4 DEF Kept, Coming, HasArm
  <2>8. /\ manager' \in {"STARTED", "STOPPING", "STOPPED"}
        /\ manager' = "STOPPED" => ~s.mapped /\ \A d \in Connections \ {c} : ~conn[d].mapped
    BY <2>1, <2>3 DEF IInv
  <2>9. c \in raising => s.pending # "None" /\ s.mapped
    BY <2>3 DEF IInv
  <2>10. Sound(s)
    BY <2>3, <2>5, <2>6 DEF Sound
  <2> QED BY <1>1, <2>1, <2>3, <2>7, <2>8, <2>9, <2>10, LoopStepKeeps
<1> QED BY <1>4, <1>5

\* s is r with a call of the client posted.
IsPosted(r, s, call) ==
  /\ s \in Connection /\ s.posts = Append(r.posts, call)
  /\ s.state = r.state /\ s.ops = r.ops /\ s.tx = r.tx
  /\ s.closeRequested = r.closeRequested /\ s.pending = r.pending
  /\ s.queued = r.queued /\ s.delivering = r.delivering
  /\ s.closings = r.closings /\ s.broke = r.broke
  /\ s.overrun = r.overrun /\ s.mapped = r.mapped /\ s.told = r.told

LEMMA Posted ==
  ASSUME NEW r \in Connection, NEW call \in Calls
  PROVE  /\ IsPosted(r, Post(r, call), call)
         /\ IsPosted(r, [Post(r, call) EXCEPT !.opening = FALSE], call)
         /\ IsPosted(r, [Post(r, call) EXCEPT !.closeCalled = TRUE], call)
<1>1. PICK q \in Seq(Calls) : q = Append(r.posts, call)
  <2>1. r.posts \in Seq(Calls)
    BY DEF Connection
  <2>2. Append(r.posts, call) \in Seq(Calls)
    BY <2>1
  <2> QED BY <2>2, Zenon
<1> DEFINE u == [r EXCEPT !.posts = q]
<1>2. Post(r, call) = u
  BY <1>1 DEF Post
<1>3. /\ u \in Connection /\ u.posts = q
      /\ u.state = r.state /\ u.ops = r.ops /\ u.tx = r.tx
      /\ u.closeRequested = r.closeRequested /\ u.pending = r.pending
      /\ u.queued = r.queued /\ u.delivering = r.delivering
      /\ u.closings = r.closings /\ u.broke = r.broke
      /\ u.overrun = r.overrun /\ u.mapped = r.mapped /\ u.told = r.told
  BY DEF Connection
<1> HIDE DEF u
<1>4. IsPosted(r, u, call)
  BY <1>1, <1>3 DEF IsPosted
<1> DEFINE v == [u EXCEPT !.opening = FALSE]
           w == [u EXCEPT !.closeCalled = TRUE]
<1>5. /\ v \in Connection /\ v.posts = u.posts
      /\ v.state = u.state /\ v.ops = u.ops /\ v.tx = u.tx
      /\ v.closeRequested = u.closeRequested /\ v.pending = u.pending
      /\ v.queued = u.queued /\ v.delivering = u.delivering
      /\ v.closings = u.closings /\ v.broke = u.broke
      /\ v.overrun = u.overrun /\ v.mapped = u.mapped /\ v.told = u.told
  BY <1>3 DEF Connection
<1>6. /\ w \in Connection /\ w.posts = u.posts
      /\ w.state = u.state /\ w.ops = u.ops /\ w.tx = u.tx
      /\ w.closeRequested = u.closeRequested /\ w.pending = u.pending
      /\ w.queued = u.queued /\ w.delivering = u.delivering
      /\ w.closings = u.closings /\ w.broke = u.broke
      /\ w.overrun = u.overrun /\ w.mapped = u.mapped /\ w.told = u.told
  BY <1>3 DEF Connection
<1> HIDE DEF v, w
<1>7. IsPosted(r, v, call) /\ IsPosted(r, w, call)
  BY <1>1, <1>3, <1>5, <1>6 DEF IsPosted
<1> QED BY <1>2, <1>4, <1>7 DEF v, w

LEMMA IsPostedKeeps ==
  ASSUME NEW r, Sound(r), Kept(r), NEW call \in Calls, call # "ArmRead",
         NEW s, IsPosted(r, s, call), r.mapped
  PROVE  Sound(s) /\ Kept(s) /\ s.mapped
<1>1. s \in Connection /\ s.mapped
  BY DEF IsPosted
<1> QED BY <1>1, PostKeeps DEF IsPosted

LEMMA ClientPostKeeps ==
  ASSUME IInv, NEW c \in Connections, NEW call \in Calls, call # "ArmRead", conn[c].mapped,
         NEW s, IsPosted(conn[c], s, call), conn' = [conn EXCEPT ![c] = s],
         UNCHANGED <<manager, raising>>
  PROVE  IInv' /\ TellsNothingAfter
<1>1. Sound(s) /\ Kept(s) /\ s.mapped
  BY IsPostedKeeps DEF IInv
<1>2. s.pending = conn[c].pending /\ s.told = conn[c].told /\ s.closings = conn[c].closings
  BY DEF IsPosted
<1>3. /\ manager' \in {"STARTED", "STOPPING", "STOPPED"} /\ manager' # "STOPPED"
      /\ raising' = raising /\ (c \in raising => s.pending # "None" /\ s.mapped)
  BY <1>1, <1>2 DEF IInv
<1> QED BY <1>1, <1>2, <1>3, LoopStepKeeps

LEMMA FreshTyped == Fresh \in Connection
  BY DEF Fresh, Connection, States, Ops, Events, Calls

LEMMA OpenConnectionKeeps ==
  ASSUME IInv, NEW c \in Connections, OpenConnection(c)
  PROVE  IInv' /\ TellsNothingAfter
<1> DEFINE s == [Fresh EXCEPT !.mapped = TRUE, !.opening = TRUE, !.told = "Opening"]
<1>1. conn[c] = Fresh /\ conn' = [conn EXCEPT ![c] = s]
  BY DEF OpenConnection
<1>2. /\ s \in Connection /\ s.mapped = TRUE /\ s.state = "Resolving" /\ s.ops = {} /\ s.tx = 0
      /\ s.closeRequested = FALSE /\ s.pending = "None" /\ s.queued = 0 /\ s.posts = <<>>
      /\ s.delivering = "None" /\ s.closings = 0 /\ s.broke = FALSE /\ s.overrun = FALSE
  <2>1. s \in Connection /\ s.mapped = TRUE
    BY FreshTyped DEF Connection
  <2>2. /\ s.state = Fresh.state /\ s.ops = Fresh.ops /\ s.tx = Fresh.tx
        /\ s.closeRequested = Fresh.closeRequested /\ s.pending = Fresh.pending
        /\ s.queued = Fresh.queued /\ s.posts = Fresh.posts
        /\ s.delivering = Fresh.delivering /\ s.closings = Fresh.closings
        /\ s.broke = Fresh.broke /\ s.overrun = Fresh.overrun
    BY FreshTyped DEF Connection
  <2> HIDE DEF s
  <2> QED BY <2>1, <2>2 DEF Fresh
<1> HIDE DEF s
<1>3. ~HasArm(s.posts) /\ OneArm(s.posts)
  BY <1>2 DEF HasArm, OneArm
<1>4. Sound(s) /\ Kept(s)
  BY <1>2, <1>3 DEF Sound, Round, Stages, Kept
<1>5. conn[c].pending = "None" /\ conn[c].closings # 1 /\ ~conn[c].closeCalled
  BY <1>1 DEF Fresh
<1>6. /\ manager' \in {"STARTED", "STOPPING", "STOPPED"} /\ manager' # "STOPPED"
      /\ raising' = raising /\ c \notin raising
  BY <1>5 DEF IInv, OpenConnection
<1> QED BY <1>1, <1>4, <1>5, <1>6, LoopStepKeeps

LEMMA StopKeeps ==
  ASSUME IInv, Stop
  PROVE  IInv' /\ TellsNothingAfter
<1> DEFINE w(c) == [Post(conn[c], "RequestClose") EXCEPT !.closeCalled = TRUE]
<1>1. /\ conn' = [c \in Connections |-> IF conn[c].mapped THEN w(c) ELSE conn[c]]
      /\ manager' = CheckStopped("STOPPING", conn) /\ raising' = raising
  BY DEF Stop
<1>2. ASSUME NEW c \in Connections
      PROVE  /\ Sound(conn'[c]) /\ Kept(conn'[c]) /\ conn'[c].mapped = conn[c].mapped
             /\ conn'[c].pending = conn[c].pending /\ conn'[c].told = conn[c].told
             /\ conn'[c].closings = conn[c].closings
  <2>1. CASE conn[c].mapped
    <3>1. conn'[c] = w(c)
      BY <1>1, <2>1
    <3>2. conn[c] \in Connection /\ "RequestClose" \in Calls
      BY DEF IInv, Calls
    <3>3. IsPosted(conn[c], w(c), "RequestClose")
      BY <3>2, Posted
    <3> HIDE DEF w
    <3>4. Sound(w(c)) /\ Kept(w(c))
      BY <2>1, <3>2, <3>3, IsPostedKeeps DEF IInv
    <3> QED BY <3>1, <3>3, <3>4 DEF IsPosted
  <2>2. CASE ~conn[c].mapped
    <3>1. conn'[c] = conn[c]
      BY <1>1, <2>2
    <3> QED BY <3>1 DEF IInv
  <2> QED BY <2>1, <2>2
<1>3. conn' \in [Connections -> Connection]
  <2>1. \A c \in Connections : conn'[c] \in Connection
    BY <1>2 DEF Sound
  <2> HIDE DEF w
  <2>2. DOMAIN conn' = Connections /\ conn' = [c \in DOMAIN conn' |-> conn'[c]]
    BY <1>1
  <2> QED BY <2>1, <2>2
<1>4. /\ manager' \in {"STARTED", "STOPPING", "STOPPED"}
      /\ manager' = "STOPPED" => \A c \in Connections : ~conn'[c].mapped
  BY <1>1, <1>2 DEF CheckStopped
<1>5. raising' \in SUBSET Connections /\ \A c \in raising' : conn'[c].pending # "None" /\ conn'[c].mapped
  BY <1>1, <1>2 DEF IInv
<1>6. IInv'
  BY <1>2, <1>3, <1>4, <1>5 DEF IInv
<1>7. TellsNothingAfter
  BY <1>2 DEF TellsNothingAfter
<1> QED BY <1>6, <1>7

LEMMA InitOK == Init => IInv
<1> SUFFICES ASSUME Init PROVE IInv
  OBVIOUS
<1>1. conn \in [Connections -> Connection] /\ \A c \in Connections : conn[c] = Fresh
  BY FreshTyped DEF Init
<1>2. ~HasArm(Fresh.posts) /\ OneArm(Fresh.posts)
  BY DEF Fresh, HasArm, OneArm
<1>3. Round(Fresh)
  BY <1>2 DEF Fresh, Round
<1>4. Stages(Fresh)
  BY <1>2 DEF Fresh, Stages
<1>5. Kept(Fresh)
  BY DEF Fresh, Kept
<1>6. Sound(Fresh) /\ Kept(Fresh)
  BY <1>3, <1>4, <1>5, FreshTyped DEF Sound
<1> QED BY <1>1, <1>6 DEF Init, IInv

LEMMA StepOK == IInv /\ [Next]_vars => IInv' /\ (TellsNothingAfter \/ UNCHANGED vars)
<1> SUFFICES ASSUME IInv, [Next]_vars PROVE IInv' /\ (TellsNothingAfter \/ UNCHANGED vars)
  OBVIOUS
<1>1. CASE RaiseEnd
  <2>1. conn' = conn /\ manager' = manager /\ raising' = {}
    BY <1>1 DEF RaiseEnd
  <2>2. IInv'
    BY <2>1 DEF IInv
  <2>3. TellsNothingAfter
    BY <2>1 DEF TellsNothingAfter
  <2> QED BY <2>2, <2>3
<1>2. CASE Stop
  BY <1>2, StopKeeps
<1>3. ASSUME NEW c \in Connections, Net(c)
      PROVE  IInv' /\ TellsNothingAfter
  <2>1. CASE RunPost(c)
    BY <2>1, RunPostKeeps
  <2>2. CASE \E op \in Ops : Complete(c, op)
    BY <2>2, CompleteKeeps
  <2> QED BY <1>3, <2>1, <2>2 DEF Net
<1>4. ASSUME NEW c \in Connections, Loop(c)
      PROVE  IInv' /\ TellsNothingAfter
  <2>1. CASE DeliverTake(c)
    BY <2>1, DeliverTakeKeeps
  <2>2. CASE DeliverEnd(c)
    BY <2>2, DeliverEndKeeps
  <2>3. CASE Opened(c)
    <3>1. conn[c] \in Connection /\ "Start" \in Calls /\ "Start" # "ArmRead"
      BY DEF IInv, Calls
    <3>2. conn[c].mapped
      BY <2>3 DEF Opened, IInv, Sound, Stages
    <3>3. IsPosted(conn[c], [Post(conn[c], "Start") EXCEPT !.opening = FALSE], "Start")
      BY <3>1, Posted
    <3> QED BY <2>3, <3>1, <3>2, <3>3, ClientPostKeeps DEF Opened
  <2> QED BY <1>4, <2>1, <2>2, <2>3 DEF Loop
<1>5. ASSUME NEW c \in Connections, Client(c)
      PROVE  IInv' /\ TellsNothingAfter
  <2>0. conn[c] \in Connection /\ {"Enqueue", "RequestClose"} \subseteq Calls
    BY DEF IInv, Calls
  <2>1. CASE OpenConnection(c)
    BY <2>1, OpenConnectionKeeps
  <2>2. CASE SendWithConnection(c)
    <3>1. IsPosted(conn[c], Post(conn[c], "Enqueue"), "Enqueue")
      BY <2>0, Posted
    <3> QED BY <2>0, <2>2, <3>1, ClientPostKeeps DEF SendWithConnection
  <2>3. CASE CloseConnection(c)
    <3>1. IsPosted(conn[c], [Post(conn[c], "RequestClose") EXCEPT !.closeCalled = TRUE], "RequestClose")
      BY <2>0, Posted
    <3> QED BY <2>0, <2>3, <3>1, ClientPostKeeps DEF CloseConnection
  <2> QED BY <1>5, <2>1, <2>2, <2>3 DEF Client
<1>6. CASE UNCHANGED vars
  BY <1>6 DEF vars, IInv
<1> QED BY <1>1, <1>2, <1>3, <1>4, <1>5, <1>6 DEF Next

THEOREM Inductive == Spec => []IInv
  BY InitOK, StepOK, PTL DEF Spec

\* One slot hands a connection's events to the loop (Connection::Raise): whatever
\* the net thread, the loop and the client do, in any order, it never raises an
\* event over one that the loop has not taken.
THEOREM OneSlotIsEnough == Spec => []OneEventAtATime
<1>1. IInv => OneEventAtATime
  BY DEF IInv, Sound, Round, OneEventAtATime
<1> QED BY Inductive, <1>1, PTL

\* No connection is forgotten: as long as it is not closed there is an operation,
\* an event or a posted ArmRead that brings the net thread back to it, and a
\* closed one has raised its CLOSING.
THEOREM NoneIsForgotten == Spec => []NeverForgotten
<1>1. IInv => NeverForgotten
  <2> SUFFICES ASSUME IInv, NEW c \in Connections
               PROVE  LET r == conn[c] IN
                      /\ r.state = "Established" /\ ~r.closeRequested => "read" \in r.ops \/ Coming(r)
                      /\ r.state = "Established" /\ r.closeRequested => "write" \in r.ops \/ Coming(r)
                      /\ r.state = "Closing" => r.ops # {} \/ Coming(r)
                      /\ r.state = "Closed" => r.pending = "Closing" \/ r.closings = 1
                      /\ r.tx > 0 /\ r.state = "Established" => "write" \in r.ops
    BY DEF NeverForgotten
  <2>1. Sound(conn[c]) /\ Kept(conn[c])
    BY DEF IInv
  <2> QED BY <2>1 DEF Sound, Stages, Kept
<1> QED BY Inductive, <1>1, PTL

\* CLOSING is raised behind the last operation in flight, and with buffers still
\* to be written only on a connection that broke.
THEOREM ClosedIsDone == Spec => [](ClosedIsQuiet /\ QueuedGoesOut)
<1>1. IInv => ClosedIsQuiet /\ QueuedGoesOut
  BY DEF IInv, Sound, Stages, ClosedIsQuiet, QueuedGoesOut
<1> QED BY Inductive, <1>1, PTL

\* The manager is not STOPPED, and the loop not freed, under a handler that is
\* still inside Raise.
THEOREM StoppedAfterRaise == Spec => []LoopOutlivesRaise
<1>1. IInv => LoopOutlivesRaise
  BY DEF IInv, LoopOutlivesRaise
<1> QED BY Inductive, <1>1, PTL

\* CLOSING is the last the client is told of a connection, it is told once, and
\* after closeConnection or the stop nothing else is told.
THEOREM NothingAfterClosing == Spec => ClosingIsTheLastWord
<1>1. IInv /\ [Next]_vars => [TellsNothingAfter]_vars
  BY StepOK
<1> QED BY Inductive, <1>1, PTL DEF Spec, ClosingIsTheLastWord
=============================================================================
