------------------------------ MODULE Historian ------------------------------
(***************************************************************************)
(* Which group owns the files of a name (src/libs/historian/src/           *)
(* Historian.cpp): threads add and remove groups, a group is built outside *)
(* the historian's lock while its name is held, a removed one goes on      *)
(* writing what it buffered, and its name is free once it has ended.       *)
(***************************************************************************)
EXTENDS Naturals, FiniteSets, FiniteSetTheorems, TLAPS

CONSTANTS
    Names,      \* the names, each the stem of a group's files
    Threads,    \* the host's threads that add and remove groups
    Groups      \* bound: the Group objects that may be made

VARIABLES
    groups,     \* Historian::_groups: the groups of each name, {} for none
    adding,     \* Historian::_adding
    removed,    \* Historian::_removed
    group,      \* group[g]: the state of a Group object
    call        \* call[t]: the call a thread is in

vars == <<groups, adding, removed, group, call>>

None == "none"

\* at: not made, being built, or built.  buffer: whether it holds records, or
\* files it has yet to make archives of.
NewGroup(n, at) ==
    [name |-> n, at |-> at, buffer |-> FALSE, flushing |-> FALSE,
     closed |-> FALSE, ended |-> FALSE]

NoCall == [op |-> None, of |-> None]

Init ==
    /\ groups = [n \in Names |-> {}]
    /\ adding = {}
    /\ removed = {}
    /\ group = [g \in Groups |-> NewGroup(None, "unmade")]
    /\ call = [t \in Threads |-> NoCall]

Written(g) == group[g].closed /\ ~group[g].buffer

\* As if a group could end with its flush still out.
EndsWritten(g) == Written(g)

\* Whether EndIfWritten ends the group.
Ends(g) == Written(g) /\ ~group[g].flushing

\* The removed groups that a walk of them with EndIfWritten leaves, and the
\* groups as it leaves them.
StillRemoved == {g \in removed : ~Ends(g)}
Walked ==
    [g \in Groups |-> IF g \in removed /\ Ends(g)
                      THEN [group[g] EXCEPT !.ended = TRUE] ELSE group[g]]

\* Whether AddGroup throws for the name, before it looks at those removed.
Taken(n) == groups[n] # {} \/ n \in adding

(***************************************************************************)
(* AddGroup: the checks under the lock, the group built without it, and    *)
(* the lock again.                                                         *)
(***************************************************************************)
AddGroup(t, n) ==
    /\ call[t] = NoCall
    /\ ~Taken(n)
    /\ removed' = StillRemoved
    /\ \/ /\ \E g \in StillRemoved : group[g].name = n
          /\ group' = Walked
          /\ UNCHANGED <<adding, call>>
       \/ /\ \A g \in StillRemoved : group[g].name # n
          /\ adding' = adding \cup {n}
          /\ \E g \in Groups :
               /\ group[g].at = "unmade"
               /\ group' = [Walked EXCEPT ![g] = NewGroup(n, "building")]
               /\ call' = [call EXCEPT ![t] = [op |-> "add", of |-> g]]
    /\ UNCHANGED groups

\* As if the name were held for good.
ReleasedNever(n) == adding

Released(n) == adding \ {n}

\* The files are read, and the group starts, or their read throws.
Built(t) ==
    LET g == call[t].of
        n == group[g].name
    IN  /\ call[t].op = "add"
        /\ adding' = Released(n)
        /\ \/ /\ groups' = [groups EXCEPT ![n] = {g}]
              /\ group' = [group EXCEPT ![g].at = "built"]
           \/ /\ group' = [group EXCEPT ![g].at = "gone"]
              /\ UNCHANGED groups
        /\ call' = [call EXCEPT ![t] = NoCall]
        /\ UNCHANGED removed

(***************************************************************************)
(* RemoveGroup: the group moves to the removed ones under the lock, and is *)
(* closed without it.                                                      *)
(***************************************************************************)
RemoveGroup(t, n) ==
    /\ call[t] = NoCall
    /\ \E g \in groups[n] :
         /\ removed' = StillRemoved \cup {g}
         /\ call' = [call EXCEPT ![t] = [op |-> "close", of |-> g]]
    /\ groups' = [groups EXCEPT ![n] = {}]
    /\ group' = Walked
    /\ UNCHANGED adding

\* Close records each member's removal, if it has members.
Close(t) ==
    /\ call[t].op = "close"
    /\ \E members \in BOOLEAN :
         group' = [group EXCEPT ![call[t].of].closed = TRUE,
                                ![call[t].of].buffer = @ \/ members]
    /\ call' = [call EXCEPT ![t] = NoCall]
    /\ UNCHANGED <<groups, adding, removed>>

(***************************************************************************)
(* The group meanwhile: it stores values until it is closed, and flushes   *)
(* until it has ended.                                                     *)
(***************************************************************************)
Store(g) ==
    /\ group[g].at = "built" /\ ~group[g].closed /\ ~group[g].buffer
    /\ group' = [group EXCEPT ![g].buffer = TRUE]
    /\ UNCHANGED <<groups, adding, removed, call>>

Request(g) ==
    /\ group[g].at = "built" /\ ~group[g].flushing
    /\ ~group[g].ended /\ ~Written(g)
    /\ group' = [group EXCEPT ![g].flushing = TRUE]
    /\ UNCHANGED <<groups, adding, removed, call>>

\* A pass writes all it holds, or gives it back.
Pass(g) ==
    /\ group[g].flushing
    /\ \E left \in {FALSE, group[g].buffer} :
         group' = [group EXCEPT ![g].buffer = left]
    /\ UNCHANGED <<groups, adding, removed, call>>

FlushEnds(g) ==
    /\ group[g].flushing
    /\ group' = [group EXCEPT ![g].flushing = FALSE]
    /\ UNCHANGED <<groups, adding, removed, call>>

Next ==
    \/ \E t \in Threads :
         \/ \E n \in Names : AddGroup(t, n) \/ RemoveGroup(t, n)
         \/ Built(t) \/ Close(t)
    \/ \E g \in Groups : Store(g) \/ Request(g) \/ Pass(g) \/ FlushEnds(g)

Spec == Init /\ [][Next]_vars

(***************************************************************************)
(* Properties.                                                             *)
(***************************************************************************)
\* The groups that read or write files, or may yet.
Uses(g) ==
    \/ group[g].at = "building"
    \/ group[g].at = "built" /\ (~group[g].ended \/ group[g].flushing)

\* The historian's maps agree with the groups: a name it lists is the group's,
\* a name held is one being built, and a group that may still write is listed
\* or among those removed, so that a stop finds it.
TypeOK ==
    /\ \A n \in Names : Cardinality(groups[n]) <= 1
    /\ \A n \in Names : \A g \in groups[n] :
         group[g].name = n /\ group[g].at = "built" /\ g \notin removed
    /\ adding = {group[g].name : g \in {h \in Groups : group[h].at = "building"}}
    /\ \A g \in Groups : group[g].at = "built" /\ ~group[g].ended =>
         g \in removed \cup groups[group[g].name]

\* A name's files have one owner: while a group may still write them, a flush
\* of its removal included, no other group reads them to start, or writes
\* them, whichever threads add and remove the name meanwhile.
OneOwner ==
    \A g, h \in Groups :
        Uses(g) /\ Uses(h) /\ group[g].name = group[h].name => g = h

(***************************************************************************)
(* Proofs, for any names, threads and groups.                              *)
(*                                                                         *)
(* OneOwner speaks of the groups that use files; it is not inductive, since *)
(* what keeps a name's second owner away is the historian's maps, not the  *)
(* groups.  A group is known when it is being built, listed or among the   *)
(* removed ones.  The invariant is that the known groups have names of     *)
(* their own (Unique) and that a group that may use files is known (Known, *)
(* Ended).                                                                 *)
(***************************************************************************)
GroupState ==
    [name : Names \cup {None}, at : {"unmade", "building", "built", "gone"},
     buffer : BOOLEAN, flushing : BOOLEAN, closed : BOOLEAN, ended : BOOLEAN]

Typed ==
    /\ groups \in [Names -> SUBSET Groups]
    /\ adding \subseteq Names
    /\ removed \subseteq Groups
    /\ group \in [Groups -> GroupState]
    /\ call \in [Threads -> [op : {None, "add", "close"}, of : Groups \cup {None}]]

Building(g) == group[g].at = "building"
Listed(g) == \E n \in Names : g \in groups[n]
Known(g) == Building(g) \/ Listed(g) \/ g \in removed

\* What the maps say of a group.
Maps ==
    /\ \A n \in Names : \A g \in groups[n] :
         group[g].name = n /\ group[g].at = "built" /\ ~group[g].ended /\ g \notin removed
    /\ \A g \in removed : group[g].at = "built" /\ ~group[g].ended
    /\ \A n \in Names : n \in adding <=> \E g \in Groups : Building(g) /\ group[g].name = n
    /\ \A g \in Groups : Building(g) \/ group[g].at = "built" => group[g].name \in Names
    /\ \A g \in Groups : Building(g) => ~group[g].ended

\* A thread that adds builds a group no other does.
Calls ==
    /\ \A t \in Threads : call[t].op = "add" => call[t].of \in Groups /\ Building(call[t].of)
    /\ \A t \in Threads : call[t].op = "close" => call[t].of \in Groups
    /\ \A t, u \in Threads : call[t].op = "add" /\ call[u].op = "add" /\ call[t].of = call[u].of => t = u

Unique == \A g, h \in Groups : Known(g) /\ Known(h) /\ group[g].name = group[h].name => g = h

\* A built group that has not ended is known, and one that has writes no more.
Ended ==
    \A g \in Groups : group[g].at = "built" =>
        (group[g].ended => ~group[g].flushing) /\ (~group[g].ended => Known(g))

IInv == Typed /\ Maps /\ Calls /\ Unique /\ Ended

-----------------------------------------------------------------------------
LEMMA NewTyped ==
    ASSUME NEW n \in Names \cup {None}, NEW at \in {"unmade", "building", "built", "gone"}
    PROVE  /\ NewGroup(n, at) \in GroupState
           /\ NewGroup(n, at).name = n /\ NewGroup(n, at).at = at
           /\ ~NewGroup(n, at).ended /\ ~NewGroup(n, at).flushing
    BY DEF NewGroup, GroupState

LEMMA InitIInv ==
    ASSUME Init
    PROVE  IInv
<1>1. \A g \in Groups : group[g] = NewGroup(None, "unmade") /\ group[g].at = "unmade" /\ group[g] \in GroupState
    BY NewTyped DEF Init
<1>2. call \in [Threads -> [op : {None, "add", "close"}, of : Groups \cup {None}]] /\ \A t \in Threads : call[t].op = None
    BY DEF Init, NoCall
<1>3. groups = [n \in Names |-> {}] /\ adding = {} /\ removed = {} /\ group = [g \in Groups |-> NewGroup(None, "unmade")]
    BY DEF Init
<1>4. Typed
    BY <1>1, <1>2, <1>3 DEF Typed
<1>5. \A g \in Groups : ~Known(g) /\ ~Building(g) /\ group[g].at # "built"
    BY <1>1, <1>3 DEF Known, Building, Listed
<1>6. Maps
    BY <1>3, <1>5 DEF Maps
<1>7. Calls
    BY <1>2 DEF Calls, None
<1> QED BY <1>4, <1>5, <1>6, <1>7 DEF IInv, Unique, Ended

\* What a walk of the removed groups with EndIfWritten does.
LEMMA Walk ==
    ASSUME Typed, Maps
    PROVE  /\ Walked \in [Groups -> GroupState]
           /\ StillRemoved \subseteq removed
           /\ \A g \in Groups :
                /\ Walked[g].name = group[g].name /\ Walked[g].at = group[g].at /\ Walked[g].flushing = group[g].flushing
                /\ Walked[g].ended <=> (group[g].ended \/ (g \in removed /\ g \notin StillRemoved))
                /\ g \in removed /\ g \notin StillRemoved => ~group[g].flushing
<1>1. ASSUME NEW g \in Groups
      PROVE  /\ Walked[g] \in GroupState
             /\ Walked[g].name = group[g].name /\ Walked[g].at = group[g].at /\ Walked[g].flushing = group[g].flushing
             /\ Walked[g].ended <=> (group[g].ended \/ (g \in removed /\ g \notin StillRemoved))
             /\ g \in removed /\ g \notin StillRemoved => ~group[g].flushing
    <2>1. group[g] \in GroupState
        BY DEF Typed
    <2>2. CASE g \in removed /\ Ends(g)
        <3>1. Walked[g] = [group[g] EXCEPT !.ended = TRUE]
            BY <2>2 DEF Walked
        <3>2. ~group[g].flushing /\ g \notin StillRemoved
            BY <2>2 DEF Ends, StillRemoved
        <3>3. Walked[g] \in GroupState /\ Walked[g].ended /\ Walked[g].name = group[g].name
              /\ Walked[g].at = group[g].at /\ Walked[g].flushing = group[g].flushing
            BY <2>1, <3>1 DEF GroupState
        <3> QED BY <2>2, <3>2, <3>3
    <2>3. CASE ~(g \in removed /\ Ends(g))
        <3>1. Walked[g] = group[g]
            BY <2>3 DEF Walked
        <3> QED BY <2>1, <2>3, <3>1, Zenon DEF StillRemoved
    <2> QED BY <2>2, <2>3
<1>2. Walked = [g \in Groups |-> Walked[g]]
    BY DEF Walked
<1>3. Walked \in [Groups -> GroupState]
    BY <1>1, <1>2
<1> QED BY <1>1, <1>3 DEF StillRemoved

\* AddGroup, of a name whose removed group still writes: nothing but the walk.
LEMMA AddRefused ==
    ASSUME IInv, removed' = StillRemoved, group' = Walked, UNCHANGED <<groups, adding, call>>
    PROVE  IInv'
<1> USE DEF IInv
<1>1. /\ group' \in [Groups -> GroupState] /\ removed' \subseteq removed
      /\ \A g \in Groups :
           /\ group'[g].name = group[g].name /\ group'[g].at = group[g].at /\ group'[g].flushing = group[g].flushing
           /\ group'[g].ended <=> (group[g].ended \/ (g \in removed /\ g \notin removed'))
           /\ g \in removed /\ g \notin removed' => ~group[g].flushing
    BY Walk
<1>2. Typed'
    BY <1>1 DEF Typed
<1>3. \A g \in Groups : (Building(g)' <=> Building(g)) /\ (Listed(g)' <=> Listed(g))
    BY <1>1 DEF Building, Listed
<1>4. \A g \in Groups : Known(g)' <=> Known(g) /\ ~(g \in removed /\ g \notin removed')
    BY <1>1, <1>3 DEF Known, Maps, Typed, Building, Listed
<1>5. Maps'
    <2>1. \A m \in Names : \A g \in groups'[m] :
            group'[g].name = m /\ group'[g].at = "built" /\ ~group'[g].ended /\ g \notin removed'
        BY <1>1 DEF Maps, Typed
    <2>2. \A g \in removed' : group'[g].at = "built" /\ ~group'[g].ended
        BY <1>1 DEF Maps, Typed
    <2>3. \A g \in Groups : Building(g)' => ~group'[g].ended
        BY <1>1, <1>3 DEF Maps, Building
    <2> QED BY <2>1, <2>2, <2>3, <1>1, <1>3 DEF Maps
<1>6. Calls'
    BY <1>3 DEF Calls
<1>7. Unique'
    BY <1>1, <1>4 DEF Unique
<1>8. Ended'
    BY <1>1, <1>4 DEF Ended
<1> QED BY <1>2, <1>5, <1>6, <1>7, <1>8

\* AddGroup, of a free name: the group is built and its name held.
LEMMA AddStarts ==
    ASSUME IInv, NEW t \in Threads, NEW n \in Names, NEW g \in Groups,
           call[t] = NoCall, ~Taken(n), removed' = StillRemoved,
           \A h \in StillRemoved : group[h].name # n,
           adding' = adding \cup {n}, group[g].at = "unmade",
           group' = [Walked EXCEPT ![g] = NewGroup(n, "building")],
           call' = [call EXCEPT ![t] = [op |-> "add", of |-> g]], UNCHANGED groups
    PROVE  IInv'
<1> USE DEF IInv
<1>1. /\ Walked \in [Groups -> GroupState] /\ removed' \subseteq removed
      /\ \A h \in Groups :
           /\ Walked[h].name = group[h].name /\ Walked[h].at = group[h].at /\ Walked[h].flushing = group[h].flushing
           /\ Walked[h].ended <=> (group[h].ended \/ (h \in removed /\ h \notin removed'))
           /\ h \in removed /\ h \notin removed' => ~group[h].flushing
    BY Walk
<1>2. /\ group'[g] = NewGroup(n, "building") /\ group' \in [Groups -> GroupState]
      /\ \A h \in Groups : h # g => group'[h] = Walked[h]
    BY <1>1, NewTyped
<1>3. group'[g].name = n /\ group'[g].at = "building" /\ ~group'[g].ended /\ ~group'[g].flushing
    BY <1>2, NewTyped
<1>4. call' \in [Threads -> [op : {None, "add", "close"}, of : Groups \cup {None}]]
      /\ call'[t].op = "add" /\ call'[t].of = g /\ \A u \in Threads : u # t => call'[u] = call[u]
    BY DEF Typed
<1>5. Typed'
    BY <1>1, <1>2, <1>4 DEF Typed
<1>6. \A h \in Groups : h # g => (Building(h)' <=> Building(h)) /\ (Listed(h)' <=> Listed(h))
    BY <1>1, <1>2 DEF Building, Listed
<1>7. ~Building(g) /\ ~Known(g) /\ ~Listed(g) /\ g \notin removed /\ Building(g)'
    BY <1>3 DEF Building, Known, Listed, Maps
<1>8. \A h \in Groups : h # g => (Known(h)' <=> Known(h) /\ ~(h \in removed /\ h \notin removed'))
    BY <1>1, <1>6 DEF Known, Maps, Typed, Building, Listed
<1>9. \A h \in Groups : Known(h) /\ ~(h \in removed /\ h \notin removed') => group[h].name # n
    <2>1. \A h \in Groups : Building(h) => group[h].name # n
        BY DEF Taken, Maps
    <2>2. \A h \in Groups : Listed(h) => group[h].name # n
        BY DEF Taken, Maps, Listed
    <2> QED BY <2>1, <2>2 DEF Known
<1>10. Maps'
    <2>1. \A m \in Names : \A h \in groups[m] : h # g /\ h \in Groups
        BY <1>7 DEF Listed, Typed
    <2>2. \A m \in Names : \A h \in groups'[m] :
            group'[h].name = m /\ group'[h].at = "built" /\ ~group'[h].ended /\ h \notin removed'
        BY <2>1, <1>1, <1>2 DEF Maps
    <2>3. \A h \in removed' : group'[h].at = "built" /\ ~group'[h].ended
        BY <1>1, <1>2, <1>7 DEF Maps, Typed
    <2>4. \A m \in Names : m \in adding' <=> \E h \in Groups : Building(h)' /\ group'[h].name = m
        BY <1>1, <1>2, <1>3, <1>6, <1>7 DEF Maps
    <2>5. \A h \in Groups : Building(h)' \/ group'[h].at = "built" => group'[h].name \in Names
        BY <1>1, <1>2, <1>3, <1>6 DEF Maps
    <2>6. \A h \in Groups : Building(h)' => ~group'[h].ended
        BY <1>1, <1>2, <1>3, <1>6 DEF Maps, Building
    <2> QED BY <2>2, <2>3, <2>4, <2>5, <2>6 DEF Maps
<1>11. Calls'
    BY <1>4, <1>6, <1>7 DEF Calls
<1>12. Unique'
    BY <1>1, <1>2, <1>3, <1>8, <1>9 DEF Unique
<1>13. Ended'
    BY <1>1, <1>2, <1>3, <1>8 DEF Ended
<1> QED BY <1>5, <1>10, <1>11, <1>12, <1>13

LEMMA AddKeeps ==
    ASSUME IInv, NEW t \in Threads, NEW n \in Names, AddGroup(t, n)
    PROVE  IInv'
<1>1. CASE group' = Walked /\ UNCHANGED <<adding, call>>
    BY <1>1, AddRefused DEF AddGroup
<1>2. CASE ~(group' = Walked /\ UNCHANGED <<adding, call>>)
    <2>1. /\ call[t] = NoCall /\ ~Taken(n) /\ removed' = StillRemoved /\ UNCHANGED groups
          /\ \A h \in StillRemoved : group[h].name # n
          /\ adding' = adding \cup {n}
          /\ \E g \in Groups :
               /\ group[g].at = "unmade"
               /\ group' = [Walked EXCEPT ![g] = NewGroup(n, "building")]
               /\ call' = [call EXCEPT ![t] = [op |-> "add", of |-> g]]
        BY <1>2, Zenon DEF AddGroup
    <2> QED BY <2>1, AddStarts
<1> QED BY <1>1, <1>2

LEMMA BuiltKeeps ==
    ASSUME IInv, NEW t \in Threads, Built(t)
    PROVE  IInv'
<1> USE DEF IInv
<1>a. call[t].of \in Groups /\ Building(call[t].of) /\ group[call[t].of].name \in Names /\ call[t].op = "add"
    BY DEF Built, Calls, Maps
<1>b. PICK g \in Groups, n \in Names : g = call[t].of /\ n = group[g].name
    BY <1>a
<1>1. g \in Groups /\ Building(g) /\ n \in Names /\ call[t].op = "add" /\ group[g].name = n /\ call[t].of = g
    BY <1>a, <1>b
<1>2. /\ adding' = adding \ {n} /\ removed' = removed /\ call' = [call EXCEPT ![t] = NoCall]
      /\ \/ groups' = [groups EXCEPT ![n] = {g}] /\ group' = [group EXCEPT ![g].at = "built"]
         \/ groups' = groups /\ group' = [group EXCEPT ![g].at = "gone"]
    BY <1>b DEF Built, Released
<1>3. ~Listed(g) /\ g \notin removed /\ ~group[g].ended
    BY <1>1 DEF Building, Listed, Maps
<1>4. /\ group' \in [Groups -> GroupState]
      /\ \A h \in Groups : h # g => group'[h] = group[h]
      /\ group'[g].name = n /\ group'[g].at \in {"built", "gone"}
      /\ group'[g].ended = group[g].ended /\ group'[g].flushing = group[g].flushing
    <2>1. PICK at \in {"built", "gone"} : group' = [group EXCEPT ![g].at = at]
        BY <1>2
    <2>2. group[g] \in GroupState
        BY <1>1 DEF Typed
    <2>3. /\ group'[g] = [group[g] EXCEPT !.at = at] /\ \A h \in Groups : h # g => group'[h] = group[h]
          /\ group' = [h \in Groups |-> group'[h]]
        BY <2>1, <1>1 DEF Typed
    <2>4. /\ group'[g] \in GroupState /\ group'[g].name = n /\ group'[g].at = at
          /\ group'[g].ended = group[g].ended /\ group'[g].flushing = group[g].flushing
        BY <2>2, <2>3, <1>1 DEF GroupState
    <2> QED BY <2>3, <2>4, <1>1 DEF Typed
<1>5. call' \in [Threads -> [op : {None, "add", "close"}, of : Groups \cup {None}]]
      /\ call'[t].op = None /\ \A u \in Threads : u # t => call'[u] = call[u]
    BY <1>2 DEF Typed, NoCall
<1>6. Typed'
    BY <1>1, <1>2, <1>4, <1>5 DEF Typed
<1>7. \A h \in Groups : h # g /\ group[h].name = n => ~Known(h)
    BY <1>1 DEF Unique, Known
<1>8. groups[n] = {}
    BY <1>1, <1>3, <1>7 DEF Known, Listed, Maps, Typed
<1>9. \A h \in Groups : h # g => (Building(h)' <=> Building(h)) /\ (Listed(h)' <=> Listed(h)) /\ (Known(h)' <=> Known(h))
    <2>1. \A h \in Groups : h # g => (Listed(h)' <=> Listed(h))
        <3>1. groups'[n] \subseteq {g} /\ \A m \in Names : m # n => groups'[m] = groups[m]
            BY <1>1, <1>2, <1>8 DEF Typed
        <3> QED BY <3>1, <1>8 DEF Listed
    <2>2. \A h \in Groups : h # g => (Building(h)' <=> Building(h))
        BY <1>4 DEF Building
    <2> QED BY <2>1, <2>2, <1>2 DEF Known
<1>10. /\ ~Building(g)' /\ (Known(g)' <=> Listed(g)')
       /\ Listed(g)' <=> group'[g].at = "built"
    <2>1. ~Building(g)' /\ g \notin removed'
        BY <1>2, <1>3, <1>4 DEF Building
    <2>2. CASE groups' = [groups EXCEPT ![n] = {g}] /\ group' = [group EXCEPT ![g].at = "built"]
        <3>1. g \in groups'[n] /\ group'[g].at = "built"
            BY <2>2, <1>1 DEF Typed, GroupState
        <3> QED BY <2>1, <3>1, <1>1 DEF Known, Listed
    <2>3. CASE groups' = groups /\ group' = [group EXCEPT ![g].at = "gone"]
        <3>1. group'[g].at = "gone"
            BY <2>3, <1>1 DEF Typed, GroupState
        <3>2. ~Listed(g)'
            BY <2>3, <1>3 DEF Listed
        <3> QED BY <2>1, <3>1, <3>2 DEF Known
    <2> QED BY <2>2, <2>3, <1>2
<1>11. Maps'
    <2>1. ASSUME NEW m \in Names, NEW h \in groups'[m]
          PROVE  group'[h].name = m /\ group'[h].at = "built" /\ ~group'[h].ended /\ h \notin removed'
        <3>1. CASE h = g
            <4>1. Listed(g)' /\ m = n
                BY <3>1, <2>1, <1>1, <1>2, <1>3 DEF Listed, Typed
            <4> QED BY <3>1, <4>1, <1>2, <1>3, <1>4, <1>10
        <3>2. CASE h # g
            <4>1. h \in groups[m] /\ h \in Groups
                BY <3>2, <2>1, <1>1, <1>2 DEF Typed
            <4> QED BY <4>1, <3>2, <1>2, <1>4 DEF Maps
        <3> QED BY <3>1, <3>2
    <2>2. \A h \in removed' : group'[h].at = "built" /\ ~group'[h].ended
        BY <1>2, <1>3, <1>4 DEF Maps, Typed
    <2>3. \A m \in Names : m \in adding' <=> \E h \in Groups : Building(h)' /\ group'[h].name = m
        <3>1. \A h \in Groups : Building(h)' <=> Building(h) /\ h # g
            BY <1>9, <1>10
        <3>2. \A h \in Groups : Building(h) /\ group[h].name = n => h = g
            BY <1>7 DEF Known
        <3> QED BY <3>1, <3>2, <1>1, <1>2, <1>4 DEF Maps
    <2>4. \A h \in Groups : Building(h)' \/ group'[h].at = "built" => group'[h].name \in Names
        BY <1>1, <1>4, <1>9 DEF Maps
    <2>5. \A h \in Groups : Building(h)' => ~group'[h].ended
        BY <1>4, <1>9, <1>10 DEF Maps
    <2> QED BY <2>1, <2>2, <2>3, <2>4, <2>5 DEF Maps
<1>12. Calls'
    BY <1>1, <1>5, <1>9 DEF Calls, None
<1>13. Unique'
    BY <1>4, <1>7, <1>9 DEF Unique
<1>14. Ended'
    BY <1>3, <1>4, <1>9, <1>10 DEF Ended
<1> QED BY <1>6, <1>11, <1>12, <1>13, <1>14

LEMMA RemoveKeeps ==
    ASSUME IInv, NEW t \in Threads, NEW n \in Names, RemoveGroup(t, n)
    PROVE  IInv'
<1> USE DEF IInv
<1>1. PICK g \in groups[n] : removed' = StillRemoved \cup {g} /\ call' = [call EXCEPT ![t] = [op |-> "close", of |-> g]]
    BY DEF RemoveGroup
<1>2. groups' = [groups EXCEPT ![n] = {}] /\ group' = Walked /\ adding' = adding /\ call[t] = NoCall
    BY DEF RemoveGroup
<1>3. g \in Groups /\ Listed(g) /\ g \notin removed /\ group[g].name = n /\ group[g].at = "built" /\ ~group[g].ended
    BY DEF Maps, Typed, Listed
<1>4. /\ group' \in [Groups -> GroupState] /\ StillRemoved \subseteq removed
      /\ \A h \in Groups :
           /\ group'[h].name = group[h].name /\ group'[h].at = group[h].at /\ group'[h].flushing = group[h].flushing
           /\ group'[h].ended <=> (group[h].ended \/ (h \in removed /\ h \notin StillRemoved))
           /\ h \in removed /\ h \notin StillRemoved => ~group[h].flushing
    BY <1>2, Walk
<1>5. call' \in [Threads -> [op : {None, "add", "close"}, of : Groups \cup {None}]]
      /\ call'[t].op = "close" /\ call'[t].of = g /\ \A u \in Threads : u # t => call'[u] = call[u]
    BY <1>1, <1>3 DEF Typed
<1>6. Typed'
    BY <1>1, <1>2, <1>3, <1>4, <1>5 DEF Typed
<1>7. \A h \in Groups : Building(h)' <=> Building(h)
    BY <1>4 DEF Building
<1>8. groups[n] = {g}
    BY <1>3 DEF Maps, Unique, Known, Listed, Typed
<1>9. \A h \in Groups : Listed(h)' <=> Listed(h) /\ h # g
    <2>1. \A m \in Names : groups'[m] = IF m = n THEN {} ELSE groups[m]
        BY <1>2 DEF Typed
    <2>2. \A m \in Names : g \in groups[m] => m = n
        BY <1>3 DEF Maps
    <2> QED BY <2>1, <2>2, <1>8 DEF Listed
<1>10. \A h \in Groups : Known(h)' <=> Known(h) /\ ~(h \in removed /\ h \notin StillRemoved)
    <2>1. \A h \in removed : ~Listed(h) /\ ~Building(h)
        BY DEF Maps, Listed, Building
    <2> QED BY <2>1, <1>1, <1>3, <1>4, <1>7, <1>9 DEF Known
<1>11. Maps'
    <2>1. \A m \in Names : \A h \in groups'[m] : h \in groups[m] /\ h # g /\ h \in Groups
        BY <1>2, <1>3, <1>8 DEF Maps, Typed
    <2>2. \A m \in Names : \A h \in groups'[m] :
            group'[h].name = m /\ group'[h].at = "built" /\ ~group'[h].ended /\ h \notin removed'
        BY <2>1, <1>1, <1>4 DEF Maps
    <2>3. \A h \in removed' : group'[h].at = "built" /\ ~group'[h].ended
        BY <1>1, <1>3, <1>4 DEF Maps, Typed
    <2>4. \A h \in Groups : Building(h)' => ~group'[h].ended
        BY <1>4, <1>7 DEF Maps, Building
    <2> QED BY <2>2, <2>3, <2>4, <1>2, <1>4, <1>7 DEF Maps
<1>12. Calls'
    BY <1>3, <1>5, <1>7 DEF Calls
<1>13. Unique'
    BY <1>4, <1>10 DEF Unique
<1>14. Ended'
    BY <1>4, <1>10 DEF Ended
<1> QED BY <1>6, <1>11, <1>12, <1>13, <1>14

\* A step of a group's own: it takes no name, and a group that has ended
\* flushes no more.
LEMMA GroupKeeps ==
    ASSUME IInv, UNCHANGED <<groups, adding, removed>>, group' \in [Groups -> GroupState],
           call' = call \/ \E t \in Threads : call[t].op = "close" /\ call' = [call EXCEPT ![t] = NoCall],
           \A g \in Groups :
             /\ group'[g].name = group[g].name /\ group'[g].at = group[g].at /\ group'[g].ended = group[g].ended
             /\ group[g].ended => (group'[g].flushing => group[g].flushing)
    PROVE  IInv'
<1> USE DEF IInv
<1>1. \A g \in Groups : (Building(g)' <=> Building(g)) /\ (Listed(g)' <=> Listed(g)) /\ (Known(g)' <=> Known(g))
    BY DEF Building, Listed, Known
<1>2. Typed' /\ Calls'
    <2>1. CASE call' = call
        BY <2>1, <1>1 DEF Typed, Calls
    <2>2. CASE \E t \in Threads : call[t].op = "close" /\ call' = [call EXCEPT ![t] = NoCall]
        <3>1. PICK t \in Threads : call[t].op = "close" /\ call' = [call EXCEPT ![t] = NoCall]
            BY <2>2
        <3>2. call' \in [Threads -> [op : {None, "add", "close"}, of : Groups \cup {None}]]
              /\ call'[t].op = None /\ \A u \in Threads : u # t => call'[u] = call[u]
            BY <3>1 DEF Typed, NoCall
        <3> QED BY <3>2, <1>1 DEF Typed, Calls, None
    <2> QED BY <2>1, <2>2
<1>3. Maps'
    BY <1>1 DEF Maps, Typed
<1>4. Unique' /\ Ended'
    BY <1>1 DEF Unique, Ended
<1> QED BY <1>2, <1>3, <1>4

LEMMA NextIInv ==
    ASSUME IInv, [Next]_vars
    PROVE  IInv'
<1> USE DEF IInv
<1>1. CASE \E t \in Threads, n \in Names : AddGroup(t, n)
    BY <1>1, AddKeeps
<1>2. CASE \E t \in Threads, n \in Names : RemoveGroup(t, n)
    BY <1>2, RemoveKeeps
<1>3. CASE \E t \in Threads : Built(t)
    BY <1>3, BuiltKeeps
<1>4. ASSUME NEW t \in Threads, Close(t)
      PROVE  IInv'
    <2>a. call[t].of \in Groups
        BY <1>4 DEF Close, Calls
    <2>b. PICK g \in Groups : g = call[t].of
        BY <2>a
    <2>1. PICK members \in BOOLEAN : group' = [group EXCEPT ![g].closed = TRUE, ![g].buffer = @ \/ members]
        BY <1>4, <2>b, Zenon DEF Close
    <2>2. g \in Groups /\ call[t].op = "close" /\ call' = [call EXCEPT ![t] = NoCall] /\ UNCHANGED <<groups, adding, removed>>
        BY <1>4, <2>b DEF Close, Calls
    <2>c. PICK b \in BOOLEAN : b = (group[g].buffer \/ members)
        OBVIOUS
    <2>d. group[g] \in GroupState
        BY DEF Typed
    <2>e. /\ group'[g] = [group[g] EXCEPT !.closed = TRUE, !.buffer = b]
          /\ \A h \in Groups : h # g => group'[h] = group[h]
          /\ group' = [h \in Groups |-> group'[h]]
        BY <2>1, <2>c, <2>d DEF Typed, GroupState
    <2>f. /\ group'[g] \in GroupState /\ group'[g].name = group[g].name /\ group'[g].at = group[g].at
          /\ group'[g].ended = group[g].ended /\ group'[g].flushing = group[g].flushing
        BY <2>d, <2>e DEF GroupState
    <2>3. group' \in [Groups -> GroupState] /\ \A h \in Groups :
            /\ group'[h].name = group[h].name /\ group'[h].at = group[h].at /\ group'[h].ended = group[h].ended
            /\ group'[h].flushing = group[h].flushing
        BY <2>e, <2>f DEF Typed
    <2> QED BY <2>2, <2>3, GroupKeeps
<1>5. ASSUME NEW g \in Groups, Store(g) \/ Request(g) \/ Pass(g) \/ FlushEnds(g)
      PROVE  IInv'
    <2>1. UNCHANGED <<groups, adding, removed, call>>
        BY <1>5 DEF Store, Request, Pass, FlushEnds
    <2>2. group[g] \in GroupState
        BY DEF Typed
    <2>3. \E b, f \in BOOLEAN :
            /\ group' = [group EXCEPT ![g] = [group[g] EXCEPT !.buffer = b, !.flushing = f]]
            /\ group[g].ended => (f => group[g].flushing)
        <3>1. CASE Store(g)
            <4>1. group' = [group EXCEPT ![g] = [group[g] EXCEPT !.buffer = TRUE, !.flushing = group[g].flushing]]
                BY <3>1, <2>2 DEF Store, GroupState, Typed
            <4>2. group[g].flushing \in BOOLEAN
                BY <2>2 DEF GroupState
            <4> QED BY <4>1, <4>2
        <3>2. CASE Request(g)
            <4>1. group' = [group EXCEPT ![g] = [group[g] EXCEPT !.buffer = group[g].buffer, !.flushing = TRUE]]
                BY <3>2, <2>2 DEF Request, GroupState, Typed
            <4>2. group[g].buffer \in BOOLEAN /\ ~group[g].ended
                BY <3>2, <2>2 DEF GroupState, Request
            <4> QED BY <4>1, <4>2
        <3>3. CASE Pass(g)
            <4>1. PICK left \in {FALSE, group[g].buffer} : group' = [group EXCEPT ![g].buffer = left]
                BY <3>3 DEF Pass
            <4>2. group' = [group EXCEPT ![g] = [group[g] EXCEPT !.buffer = left, !.flushing = group[g].flushing]]
                BY <4>1, <2>2 DEF GroupState, Typed
            <4>3. left \in BOOLEAN /\ group[g].flushing \in BOOLEAN
                BY <2>2 DEF GroupState
            <4> QED BY <4>2, <4>3
        <3>4. CASE FlushEnds(g)
            <4>1. group' = [group EXCEPT ![g] = [group[g] EXCEPT !.buffer = group[g].buffer, !.flushing = FALSE]]
                BY <3>4, <2>2 DEF FlushEnds, GroupState, Typed
            <4>2. group[g].buffer \in BOOLEAN
                BY <2>2 DEF GroupState
            <4> QED BY <4>1, <4>2
        <3> QED BY <1>5, <3>1, <3>2, <3>3, <3>4
    <2>a. PICK b \in BOOLEAN, f \in BOOLEAN :
            /\ group' = [group EXCEPT ![g] = [group[g] EXCEPT !.buffer = b, !.flushing = f]]
            /\ group[g].ended => (f => group[g].flushing)
        BY <2>3
    <2>b. /\ group'[g] = [group[g] EXCEPT !.buffer = b, !.flushing = f]
          /\ \A h \in Groups : h # g => group'[h] = group[h]
          /\ group' = [h \in Groups |-> group'[h]]
        BY <2>a DEF Typed
    <2>c. /\ group'[g] \in GroupState /\ group'[g].name = group[g].name /\ group'[g].at = group[g].at
          /\ group'[g].ended = group[g].ended /\ group'[g].flushing = f
        BY <2>2, <2>b DEF GroupState
    <2>4. group' \in [Groups -> GroupState] /\ \A h \in Groups :
            /\ group'[h].name = group[h].name /\ group'[h].at = group[h].at /\ group'[h].ended = group[h].ended
            /\ group[h].ended => (group'[h].flushing => group[h].flushing)
        BY <2>a, <2>b, <2>c DEF Typed
    <2> QED BY <2>1, <2>4, GroupKeeps
<1>6. CASE UNCHANGED vars
    <2>1. UNCHANGED <<groups, adding, removed, call, group>>
        BY <1>6 DEF vars
    <2> QED BY <2>1, GroupKeeps DEF Typed
<1> QED BY <1>1, <1>2, <1>3, <1>4, <1>5, <1>6 DEF Next

LEMMA Invariance == Spec => []IInv
<1>1. Init => IInv
    BY InitIInv
<1>2. IInv /\ [Next]_vars => IInv'
    BY NextIInv
<1> QED BY <1>1, <1>2, PTL DEF Spec

-----------------------------------------------------------------------------
\* The historian's maps agree with the groups, whichever threads add and remove
\* at once: no name lists two groups, a name is held exactly while its group is
\* built, and a group that may still write is one a stop finds.
THEOREM MapsAgree == Spec => []TypeOK
<1>1. IInv => TypeOK
    <2> SUFFICES ASSUME IInv PROVE TypeOK
        OBVIOUS
    <2> USE DEF IInv
    <2>1. ASSUME NEW n \in Names
          PROVE  Cardinality(groups[n]) <= 1
        <3>1. CASE groups[n] = {}
            BY <3>1, FS_EmptySet
        <3>2. CASE groups[n] # {}
            <4>1. PICK g \in groups[n] : TRUE
                BY <3>2
            <4>2. groups[n] = {g}
                BY <4>1 DEF Maps, Unique, Known, Listed, Typed
            <4> QED BY <4>2, FS_Singleton
        <3> QED BY <3>1, <3>2
    <2>2. adding = {group[g].name : g \in {h \in Groups : group[h].at = "building"}}
        BY DEF Maps, Typed, Building
    <2>3. ASSUME NEW g \in Groups, group[g].at = "built", ~group[g].ended
          PROVE  g \in removed \cup groups[group[g].name]
        <3>1. Listed(g) \/ g \in removed
            BY <2>3 DEF Ended, Known, Building
        <3> QED BY <3>1 DEF Listed, Maps
    <2>4. \A n \in Names : \A g \in groups[n] : group[g].name = n /\ group[g].at = "built" /\ g \notin removed
        BY DEF Maps
    <2> QED BY <2>1, <2>2, <2>3, <2>4 DEF TypeOK
<1> QED BY <1>1, Invariance, PTL

\* The files of a name have one owner: AddGroup throws, or waits out a removed
\* group's last flush, before another group reads them.
THEOREM FilesHaveOneOwner == Spec => []OneOwner
<1>1. IInv => OneOwner
    BY DEF IInv, OneOwner, Uses, Ended, Known, Building, Unique
<1> QED BY <1>1, Invariance, PTL
=============================================================================
