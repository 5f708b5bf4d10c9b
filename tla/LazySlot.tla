------------------------------ MODULE LazySlot ------------------------------
(***************************************************************************)
(* What the gateway reads of a server once and keeps (LazySlot.h): the     *)
(* first caller launches the fetch, later ones park on it, and its end     *)
(* answers them.  Two owners: a "cache" (LazyCache.h: enumerations, method *)
(* arguments, base types), which forgets a failure that is not the         *)
(* server's word, and the name "index" (NodeIndex.cpp), which keeps any    *)
(* failure for a time and can be refreshed.                                *)
(* A step is one hold of the owner's mutex, or one resume outside it.      *)
(***************************************************************************)
EXTENDS Naturals, TLAPS

CONSTANTS Callers,
          Owner,      \* "cache" or "index"
          MaxFetches  \* bound: fetches launched

VARIABLES slot,    \* _state, _value and _error (the fetch they are of), _waiters
          fetches, \* fetches launched so far; the last is in flight while slot is Fetching
          outcome, \* how each fetch ended
          held,    \* _failedHold has not passed since the failure
          call,    \* where each caller is, and what it asked
          resumes  \* answers on their way: Finish's Resumes, and those Start posted

vars == <<slot, fetches, outcome, held, call, resumes>>

Idle == [pc |-> "idle", refresh |-> FALSE, since |-> 0]

Init ==
  /\ slot = [state |-> "Empty", of |-> 0, waiters |-> {}]
  /\ fetches = 0
  /\ outcome = [n \in 1..MaxFetches |-> "none"]
  /\ held = FALSE
  /\ call = [c \in Callers |-> Idle]
  /\ resumes = {}

-----------------------------------------------------------------------------
(* How a fetch ends: "value", "lost" (session or transport, or an id the   *)
(* server does not have), "refused" (the server's answer).                 *)

\* EnumTypeCache::Fetch: the definition, else one of two properties.
EnumOutcome(a) ==
  CASE a.read = "lost" \/ a.class = "none" -> "lost"
    [] a.class # "DataType" \/ a.definition = "structure" -> "refused"
    [] a.definition = "enum" -> "value"
    [] a.property = "lost" -> "lost"
    [] a.property \in {"missing", "wrong type"} -> "refused"
    [] OTHER -> "value"

EnumAnswers == [read : {"ok", "lost"}, class : {"none", "DataType", "Method"},
                definition : {"enum", "structure", "none"},
                property : {"ok", "lost", "missing", "wrong type"}]

\* MethodArgumentCache::Fetch: an argument whose base type is lost fails the
\* whole, one whose base type is refused goes untyped.
MethodOutcome(a) ==
  CASE a.read = "lost" \/ a.class = "none" -> "lost"
    [] a.class # "Method" -> "refused"
    [] a.property = "lost" -> "lost"
    [] a.property = "wrong type" -> "refused"
    [] a.base = "lost" -> "lost"
    [] OTHER -> "value"

MethodAnswers == [read : {"ok", "lost"}, class : {"none", "DataType", "Method"},
                  property : {"ok", "lost", "missing", "wrong type"},
                  base : {"ok", "lost", "refused"}]

CrawlOutcomes == {"value", "lost", "refused"}

Outcomes ==
  IF Owner = "index" THEN CrawlOutcomes
  ELSE {EnumOutcome(a) : a \in EnumAnswers} \cup {MethodOutcome(a) : a \in MethodAnswers}

-----------------------------------------------------------------------------
\* await_ready: a Ready slot answers on the spot, but for a refresh.
AwaitReady(c, refresh) ==
  /\ call[c].pc = "idle"
  /\ refresh => Owner = "index"
  /\ \/ slot.state = "Ready" /\ ~refresh /\ UNCHANGED call
     \/ /\ slot.state # "Ready" \/ refresh
        /\ call' = [call EXCEPT ![c] = [pc |-> "suspending", refresh |-> refresh, since |-> 0]]
  /\ UNCHANGED <<slot, fetches, outcome, held, resumes>>

Refetch(refresh) == Owner = "index" /\ (refresh \/ (slot.state = "Failed" /\ ~held))

\* Mutant of Launches: a refresh launches a second crawl beside the one in flight.
LaunchesTwice(refresh) == slot.state = "Empty" \/ Refetch(refresh)

Launches(refresh) == slot.state = "Empty" \/ (Refetch(refresh) /\ slot.state # "Fetching")

\* LazySlot::Start under the owner's lock, for waiters (none, or one).
Start(waiters, refresh) ==
  /\ IF Launches(refresh)
     THEN fetches < MaxFetches /\ fetches' = fetches + 1
     ELSE UNCHANGED fetches
  /\ IF Launches(refresh) \/ slot.state = "Fetching"
     THEN /\ slot' = [slot EXCEPT !.state = "Fetching", !.waiters = @ \cup waiters]
          /\ UNCHANGED resumes
     ELSE /\ resumes' = resumes \cup {[to |-> c, of |-> slot.of, kind |-> slot.state] : c \in waiters}
          /\ UNCHANGED slot
  /\ UNCHANGED <<outcome, held>>

\* StartLocked of a caller that found no value.
Suspend(c) ==
  /\ call[c].pc = "suspending"
  /\ Start({c}, call[c].refresh)
  /\ call' = [call EXCEPT ![c].pc = "parked",
                          ![c].since = IF slot.state = "Fetching" \/ Launches(call[c].refresh)
                                       THEN fetches' ELSE slot.of]

\* NodeIndex::Start: a crawl is started, and not waited for.
Kick(refresh) ==
  /\ Owner = "index"
  /\ Start({}, refresh)
  /\ UNCHANGED call

\* Mutant of Forget: a lost session stays in the slot.
ForgetNothing(how) == FALSE

\* Does the failure empty the slot?  The index keeps any.
Forget(how) == Owner = "cache" /\ how = "lost"

\* Mutant of Finish: the waiters stay parked on the slot as well.
FinishKeeps(how) ==
  /\ slot.state = "Fetching"
  /\ slot' = [slot EXCEPT !.state = IF how = "value" THEN "Ready" ELSE IF Forget(how) THEN "Empty" ELSE "Failed",
                          !.of = fetches]
  /\ outcome' = [outcome EXCEPT ![fetches] = how]
  /\ held' = (how # "value")
  /\ resumes' = resumes \cup {[to |-> c, of |-> fetches, kind |-> IF how = "value" THEN "Ready" ELSE "Failed"]
                              : c \in slot.waiters}
  /\ UNCHANGED <<fetches, call>>

\* Mutant of Finish: the answers are those of the fetch before.
FinishStale(how) ==
  /\ slot.state = "Fetching"
  /\ slot' = [state |-> IF how = "value" THEN "Ready" ELSE IF Forget(how) THEN "Empty" ELSE "Failed",
              of |-> fetches, waiters |-> {}]
  /\ outcome' = [outcome EXCEPT ![fetches] = how]
  /\ held' = (how # "value")
  /\ resumes' = resumes \cup {[to |-> c, of |-> IF slot.of > 0 THEN slot.of ELSE fetches,
                               kind |-> IF how = "value" THEN "Ready" ELSE "Failed"] : c \in slot.waiters}
  /\ UNCHANGED <<fetches, call>>

\* The fetch ends: LazySlot::Finish under the owner's lock.
Finish(how) ==
  /\ slot.state = "Fetching"
  /\ slot' = [state |-> IF how = "value" THEN "Ready" ELSE IF Forget(how) THEN "Empty" ELSE "Failed",
              of |-> fetches, waiters |-> {}]
  /\ outcome' = [outcome EXCEPT ![fetches] = how]
  /\ held' = (how # "value")
  /\ resumes' = resumes \cup {[to |-> c, of |-> fetches, kind |-> IF how = "value" THEN "Ready" ELSE "Failed"]
                              : c \in slot.waiters}
  /\ UNCHANGED <<fetches, call>>

\* Resumes::Run or the posted answer, one caller at a time.  It may call again.
Answer(r) ==
  /\ r \in resumes
  /\ resumes' = resumes \ {r}
  /\ call' = [call EXCEPT ![r.to] = Idle]
  /\ UNCHANGED <<slot, fetches, outcome, held>>

HoldPasses ==
  /\ Owner = "index" /\ held
  /\ held' = FALSE
  /\ UNCHANGED <<slot, fetches, outcome, call, resumes>>

Next ==
  \/ \E c \in Callers : Suspend(c) \/ \E refresh \in BOOLEAN : AwaitReady(c, refresh)
  \/ \E refresh \in BOOLEAN : Kick(refresh)
  \/ \E how \in Outcomes : Finish(how)
  \/ \E r \in resumes : Answer(r)
  \/ HoldPasses

\* A fetch ends, and what is posted runs.
Fairness ==
  /\ WF_vars(\E how \in Outcomes : Finish(how))
  /\ \A c \in Callers : WF_vars(\E r \in resumes : r.to = c /\ Answer(r))

Spec == Init /\ [][Next]_vars
FairSpec == Spec /\ Fairness

-----------------------------------------------------------------------------
Answers == [to : Callers, of : 1..MaxFetches, kind : {"Ready", "Failed"}]

TypeOK ==
  /\ slot \in [state : {"Empty", "Fetching", "Ready", "Failed"}, of : 0..MaxFetches,
               waiters : SUBSET Callers]
  /\ fetches \in 0..MaxFetches
  /\ outcome \in [1..MaxFetches -> {"none"} \cup CrawlOutcomes]
  /\ held \in BOOLEAN
  /\ call \in [Callers -> [pc : {"idle", "suspending", "parked"}, refresh : BOOLEAN, since : 0..MaxFetches]]
  /\ resumes \in SUBSET Answers

\* A caller that waits is in one place and once: parked on the fetch in flight, or
\* with one answer on its way.  A caller that does not wait is in none, so no
\* awaiter that is gone is resumed.
EachAnsweredOnce ==
  \A c \in Callers :
    LET mine == {r \in resumes : r.to = c}
    IN  IF call[c].pc # "parked" THEN c \notin slot.waiters /\ mine = {}
        ELSE IF c \in slot.waiters THEN slot.state = "Fetching" /\ mine = {}
        ELSE \E r \in mine : mine = {r}

\* One fetch is in flight while the slot is Fetching, the last launched, and none
\* otherwise: no caller starts a second crawl beside the first.
OneFetch ==
  \A n \in 1..fetches : outcome[n] = "none" <=> (n = fetches /\ slot.state = "Fetching")

\* An answer is of a fetch no older than the one the caller was promised, which
\* for a refresh is the one in flight or a new one; and it tells how that ended.
AnswersAreTrue ==
  \A r \in resumes :
    /\ r.of >= call[r.to].since
    /\ (r.kind = "Ready") <=> (outcome[r.of] = "value")

\* A cache keeps no failure but the server's own word, so a mistyped id or a lost
\* session does not poison it.
LostIsNotPinned == Owner = "cache" /\ slot.state = "Failed" => outcome[slot.of] = "refused"

\* Every caller that waits is answered.
IsParked(c) == call[c].pc = "parked"
IsAnswered(c) == call[c].pc = "idle"
Answered == \A c \in Callers : IsParked(c) ~> IsAnswered(c)

(***************************************************************************)
(* Proofs, for any callers, either owner and any number of fetches.        *)
(*                                                                         *)
(* EachAnsweredOnce and OneFetch hold together with what the slot says of  *)
(* the fetch its answer is of (Slot), and with the promise each parked     *)
(* caller was made being one the fetch in flight can keep (Promised).      *)
(***************************************************************************)
\* The slot's answer is how the last fetch ended, and the fetches to come have
\* not.
Slot ==
  /\ slot.state = "Fetching" => fetches >= 1
  /\ slot.state \in {"Ready", "Failed"} => slot.of >= 1
  /\ slot.state = "Ready" => outcome[slot.of] = "value"
  /\ slot.state = "Failed" => outcome[slot.of] \in {"lost", "refused"}
  /\ \A n \in 1..MaxFetches : n > fetches => outcome[n] = "none"
  /\ \A r \in resumes : outcome[r.of] # "none"
  /\ slot.of <= fetches

\* A parked caller was promised a fetch that was launched.
Promised == \A c \in Callers : call[c].since <= fetches

IInv ==
  /\ TypeOK /\ Slot /\ Promised
  /\ EachAnsweredOnce /\ OneFetch /\ AnswersAreTrue /\ LostIsNotPinned

-----------------------------------------------------------------------------
\* What EnumTypeCache and MethodArgumentCache make of a server's answers.
LEMMA OutcomesAre == Outcomes \subseteq CrawlOutcomes
<1>1. \A a \in EnumAnswers : EnumOutcome(a) \in CrawlOutcomes
  BY DEF EnumAnswers, EnumOutcome, CrawlOutcomes
<1>2. \A a \in MethodAnswers : MethodOutcome(a) \in CrawlOutcomes
  BY DEF MethodAnswers, MethodOutcome, CrawlOutcomes
<1> QED BY <1>1, <1>2 DEF Outcomes

LEMMA InitIInv ==
  ASSUME MaxFetches \in Nat, Init
  PROVE  IInv
<1>1. /\ slot = [state |-> "Empty", of |-> 0, waiters |-> {}] /\ fetches = 0 /\ held = FALSE /\ resumes = {}
      /\ outcome = [n \in 1..MaxFetches |-> "none"] /\ call = [c \in Callers |-> Idle]
  BY DEF Init
<1>2. call \in [Callers -> [pc : {"idle", "suspending", "parked"}, refresh : BOOLEAN, since : 0..MaxFetches]]
      /\ \A c \in Callers : call[c].pc = "idle" /\ call[c].since = 0
  BY <1>1 DEF Idle
<1>3. TypeOK
  <2>1. held \in BOOLEAN
    BY <1>1
  <2>2. outcome \in [1..MaxFetches -> {"none"} \cup CrawlOutcomes]
    BY <1>1
  <2>3. slot \in [state : {"Empty", "Fetching", "Ready", "Failed"}, of : 0..MaxFetches, waiters : SUBSET Callers]
    BY <1>1
  <2>4. fetches \in 0..MaxFetches /\ resumes \in SUBSET Answers
    BY <1>1
  <2> QED BY <2>1, <2>2, <2>3, <2>4, <1>2 DEF TypeOK
<1>4. Slot /\ Promised /\ OneFetch /\ AnswersAreTrue /\ LostIsNotPinned
  BY <1>1, <1>2 DEF Slot, Promised, OneFetch, AnswersAreTrue, LostIsNotPinned
<1>5. EachAnsweredOnce
  BY <1>1, <1>2 DEF EachAnsweredOnce
<1> QED BY <1>3, <1>4, <1>5 DEF IInv

LEMMA AwaitReadyKeeps ==
  ASSUME MaxFetches \in Nat, IInv, NEW c \in Callers, NEW refresh \in BOOLEAN, AwaitReady(c, refresh)
  PROVE  IInv'
<1> USE DEF IInv
<1>1. UNCHANGED <<slot, fetches, outcome, held, resumes>> /\ call[c].pc = "idle"
  BY DEF AwaitReady
<1>2. CASE UNCHANGED call
  BY <1>1, <1>2 DEF TypeOK, Slot, Promised, EachAnsweredOnce, OneFetch, AnswersAreTrue, LostIsNotPinned
<1>3. CASE call' = [call EXCEPT ![c] = [pc |-> "suspending", refresh |-> refresh, since |-> 0]]
  <2>1. /\ call' \in [Callers -> [pc : {"idle", "suspending", "parked"}, refresh : BOOLEAN, since : 0..MaxFetches]]
        /\ call'[c].pc = "suspending" /\ call'[c].since = 0 /\ \A d \in Callers : d # c => call'[d] = call[d]
    BY <1>3 DEF TypeOK
  <2>2. TypeOK'
    BY <2>1, <1>1 DEF TypeOK
  <2>3. Slot' /\ OneFetch' /\ LostIsNotPinned'
    BY <1>1 DEF Slot, OneFetch, LostIsNotPinned
  <2>4. Promised'
    BY <2>1, <1>1 DEF Promised, TypeOK
  <2>5. \A r \in resumes : r.to # c
    BY <1>1 DEF EachAnsweredOnce
  <2>6. AnswersAreTrue'
    BY <2>1, <2>5, <1>1 DEF AnswersAreTrue, TypeOK, Answers
  <2>7. EachAnsweredOnce'
    BY <2>1, <1>1 DEF EachAnsweredOnce
  <2> QED BY <2>2, <2>3, <2>4, <2>6, <2>7
<1> QED BY <1>2, <1>3 DEF AwaitReady

\* What Start does to the slot, for a caller or none.
LEMMA StartKeeps ==
  ASSUME MaxFetches \in Nat, IInv, NEW waiters \in SUBSET Callers, NEW refresh \in BOOLEAN, Start(waiters, refresh)
  PROVE  /\ fetches' \in 0..MaxFetches /\ fetches <= fetches' /\ outcome' = outcome /\ held' = held
         /\ \/ /\ slot'.state = "Fetching" /\ slot'.of = slot.of /\ slot'.waiters = slot.waiters \cup waiters
               /\ resumes' = resumes /\ fetches' >= 1
               /\ slot' \in [state : {"Empty", "Fetching", "Ready", "Failed"}, of : 0..MaxFetches, waiters : SUBSET Callers]
               /\ Launches(refresh) \/ slot.state = "Fetching"
            \/ /\ slot' = slot /\ fetches' = fetches /\ slot.state \in {"Ready", "Failed"}
               /\ resumes' = resumes \cup {[to |-> c, of |-> slot.of, kind |-> slot.state] : c \in waiters}
               /\ ~Launches(refresh)
         /\ OneFetch'
         /\ \A n \in 1..MaxFetches : n > fetches' => outcome'[n] = "none"
<1> USE DEF IInv
<1>1. outcome' = outcome /\ held' = held
  BY DEF Start
<1>2. /\ fetches \in 0..MaxFetches /\ slot.of \in 0..MaxFetches /\ slot.waiters \subseteq Callers
      /\ slot.state \in {"Empty", "Fetching", "Ready", "Failed"}
  BY DEF TypeOK
<1>3. CASE Launches(refresh)
  <2>1. /\ fetches < MaxFetches /\ fetches' = fetches + 1 /\ resumes' = resumes
        /\ slot' = [slot EXCEPT !.state = "Fetching", !.waiters = @ \cup waiters]
    BY <1>3 DEF Start
  <2>2. /\ slot'.state = "Fetching" /\ slot'.of = slot.of /\ slot'.waiters = slot.waiters \cup waiters
        /\ slot' \in [state : {"Empty", "Fetching", "Ready", "Failed"}, of : 0..MaxFetches, waiters : SUBSET Callers]
    BY <2>1, <1>2 DEF TypeOK
  <2>3. slot.state # "Fetching"
    BY <1>3 DEF Launches
  <2>4. OneFetch'
    BY <2>1, <2>2, <2>3, <1>1, <1>2 DEF OneFetch, Slot
  <2> QED BY <2>1, <2>2, <2>4, <1>1, <1>2, <1>3 DEF Slot
<1>4. CASE ~Launches(refresh) /\ slot.state = "Fetching"
  <2>1. /\ fetches' = fetches /\ resumes' = resumes
        /\ slot' = [slot EXCEPT !.state = "Fetching", !.waiters = @ \cup waiters]
    BY <1>4 DEF Start
  <2>2. /\ slot'.state = "Fetching" /\ slot'.of = slot.of /\ slot'.waiters = slot.waiters \cup waiters
        /\ slot' \in [state : {"Empty", "Fetching", "Ready", "Failed"}, of : 0..MaxFetches, waiters : SUBSET Callers]
    BY <2>1, <1>2 DEF TypeOK
  <2>3. OneFetch'
    BY <2>1, <2>2, <1>1, <1>4 DEF OneFetch
  <2> QED BY <2>1, <2>2, <2>3, <1>1, <1>2, <1>4 DEF Slot
<1>5. CASE ~Launches(refresh) /\ slot.state # "Fetching"
  <2>1. /\ fetches' = fetches /\ slot' = slot
        /\ resumes' = resumes \cup {[to |-> c, of |-> slot.of, kind |-> slot.state] : c \in waiters}
    BY <1>5 DEF Start
  <2>2. slot.state \in {"Ready", "Failed"}
    BY <1>2, <1>5 DEF Launches
  <2>3. OneFetch'
    BY <2>1, <1>1 DEF OneFetch
  <2> QED BY <2>1, <2>2, <2>3, <1>1, <1>2, <1>5 DEF Slot
<1> QED BY <1>3, <1>4, <1>5

LEMMA SuspendKeeps ==
  ASSUME MaxFetches \in Nat, IInv, NEW c \in Callers, Suspend(c)
  PROVE  IInv'
<1> USE DEF IInv
<1>a. call[c].refresh \in BOOLEAN /\ {c} \in SUBSET Callers /\ Start({c}, call[c].refresh) /\ call[c].pc = "suspending"
  BY DEF TypeOK, Suspend
<1>b. PICK refresh \in BOOLEAN : refresh = call[c].refresh
  BY <1>a
<1>1. /\ fetches' \in 0..MaxFetches /\ fetches <= fetches' /\ outcome' = outcome /\ held' = held
      /\ \/ /\ slot'.state = "Fetching" /\ slot'.of = slot.of /\ slot'.waiters = slot.waiters \cup {c}
            /\ resumes' = resumes /\ fetches' >= 1
            /\ slot' \in [state : {"Empty", "Fetching", "Ready", "Failed"}, of : 0..MaxFetches, waiters : SUBSET Callers]
            /\ Launches(refresh) \/ slot.state = "Fetching"
         \/ /\ slot' = slot /\ fetches' = fetches /\ slot.state \in {"Ready", "Failed"}
            /\ resumes' = resumes \cup {[to |-> d, of |-> slot.of, kind |-> slot.state] : d \in {c}}
            /\ ~Launches(refresh)
      /\ OneFetch'
      /\ \A n \in 1..MaxFetches : n > fetches' => outcome'[n] = "none"
  BY <1>a, <1>b, StartKeeps
<1>2. fetches \in 0..MaxFetches /\ slot.of \in 0..MaxFetches /\ slot.of <= fetches
  BY DEF TypeOK, Slot
<1>3. PICK s \in 0..MaxFetches : s = IF slot.state = "Fetching" \/ Launches(refresh) THEN fetches' ELSE slot.of
  BY <1>1, <1>2
<1>4. call' = [call EXCEPT ![c].pc = "parked", ![c].since = s]
  BY <1>b, <1>3 DEF Suspend
<1>5. /\ call' \in [Callers -> [pc : {"idle", "suspending", "parked"}, refresh : BOOLEAN, since : 0..MaxFetches]]
      /\ call'[c].pc = "parked" /\ call'[c].since = s /\ \A d \in Callers : d # c => call'[d] = call[d]
  BY <1>4 DEF TypeOK
<1>6. c \notin slot.waiters /\ \A r \in resumes : r.to # c
  BY <1>a DEF EachAnsweredOnce
<1>7. Promised'
  <2>1. s <= fetches' /\ fetches' \in Nat /\ fetches \in Nat /\ fetches <= fetches'
    BY <1>1, <1>2, <1>3
  <2>2. \A d \in Callers : call[d].since \in Nat /\ call[d].since <= fetches
    BY DEF Promised, TypeOK
  <2> QED BY <2>1, <2>2, <1>5 DEF Promised
<1>8. CASE slot'.state = "Fetching" /\ slot'.waiters = slot.waiters \cup {c} /\ resumes' = resumes /\ slot'.of = slot.of
           /\ fetches' >= 1
           /\ slot' \in [state : {"Empty", "Fetching", "Ready", "Failed"}, of : 0..MaxFetches, waiters : SUBSET Callers]
  <2>1. TypeOK'
    BY <1>1, <1>5, <1>8 DEF TypeOK
  <2>2. Slot'
    BY <1>1, <1>2, <1>8 DEF Slot
  <2>3. AnswersAreTrue'
    BY <1>1, <1>5, <1>6, <1>8 DEF AnswersAreTrue, TypeOK, Answers
  <2>4. LostIsNotPinned'
    BY <1>8 DEF LostIsNotPinned
  <2>5. EachAnsweredOnce'
    BY <1>5, <1>6, <1>8 DEF EachAnsweredOnce
  <2> QED BY <2>1, <2>2, <2>3, <2>4, <2>5, <1>1, <1>7
<1>9. CASE slot' = slot /\ fetches' = fetches /\ slot.state \in {"Ready", "Failed"} /\ ~Launches(refresh)
           /\ resumes' = resumes \cup {[to |-> d, of |-> slot.of, kind |-> slot.state] : d \in {c}}
  <2> DEFINE a == [to |-> c, of |-> slot.of, kind |-> slot.state]
  <2>1. resumes' = resumes \cup {a}
    BY <1>9
  <2>2. a \in Answers /\ a.to = c /\ a.of = slot.of /\ a.kind = slot.state
    BY <1>9, <1>2 DEF Answers, Slot
  <2>3. s = slot.of
    BY <1>3, <1>9
  <2>4. PICK b \in Answers : resumes' = resumes \cup {b} /\ b.to = c /\ b.of = s /\ b.kind = slot.state
    BY <2>1, <2>2, <2>3
  <2>5. TypeOK'
    BY <2>4, <1>1, <1>5, <1>9 DEF TypeOK
  <2>6. outcome[s] # "none" /\ (b.kind = "Ready" <=> outcome[s] = "value")
    BY <2>3, <2>4, <1>9 DEF Slot
  <2>7. Slot'
    BY <2>4, <2>6, <1>1, <1>9 DEF Slot
  <2>8. AnswersAreTrue'
    BY <2>4, <2>6, <1>1, <1>5, <1>6, <1>3 DEF AnswersAreTrue, TypeOK, Answers
  <2>9. LostIsNotPinned'
    BY <1>1, <1>9 DEF LostIsNotPinned
  <2>10. EachAnsweredOnce'
    BY <2>4, <1>5, <1>6, <1>9 DEF EachAnsweredOnce
  <2> QED BY <2>5, <2>7, <2>8, <2>9, <2>10, <1>1, <1>7
<1> QED BY <1>1, <1>8, <1>9

LEMMA KickKeeps ==
  ASSUME MaxFetches \in Nat, IInv, NEW refresh \in BOOLEAN, Kick(refresh)
  PROVE  IInv'
<1> USE DEF IInv
<1>a. {} \in SUBSET Callers /\ Start({}, refresh) /\ call' = call
  BY DEF Kick
<1>1. /\ fetches' \in 0..MaxFetches /\ fetches <= fetches' /\ outcome' = outcome /\ held' = held
      /\ \/ /\ slot'.state = "Fetching" /\ slot'.of = slot.of /\ slot'.waiters = slot.waiters \cup {}
            /\ resumes' = resumes /\ fetches' >= 1
            /\ slot' \in [state : {"Empty", "Fetching", "Ready", "Failed"}, of : 0..MaxFetches, waiters : SUBSET Callers]
            /\ Launches(refresh) \/ slot.state = "Fetching"
         \/ /\ slot' = slot /\ fetches' = fetches /\ slot.state \in {"Ready", "Failed"}
            /\ resumes' = resumes \cup {[to |-> d, of |-> slot.of, kind |-> slot.state] : d \in {}}
            /\ ~Launches(refresh)
      /\ OneFetch'
      /\ \A n \in 1..MaxFetches : n > fetches' => outcome'[n] = "none"
  BY <1>a, StartKeeps
<1>2. /\ resumes' = resumes /\ slot'.of = slot.of /\ slot'.waiters = slot.waiters
      /\ slot' \in [state : {"Empty", "Fetching", "Ready", "Failed"}, of : 0..MaxFetches, waiters : SUBSET Callers]
      /\ (slot'.state = "Fetching" /\ fetches' >= 1) \/ slot' = slot
  BY <1>1 DEF TypeOK
<1>3. TypeOK' /\ Slot' /\ Promised'
  BY <1>a, <1>1, <1>2 DEF TypeOK, Slot, Promised
<1>4. AnswersAreTrue' /\ LostIsNotPinned'
  BY <1>a, <1>1, <1>2 DEF AnswersAreTrue, LostIsNotPinned
<1>5. EachAnsweredOnce'
  BY <1>a, <1>2 DEF EachAnsweredOnce
<1> QED BY <1>1, <1>3, <1>4, <1>5

LEMMA FetchEndKeeps ==
  ASSUME MaxFetches \in Nat, IInv, NEW how \in Outcomes, Finish(how)
  PROVE  IInv'
<1> USE DEF IInv
<1>1. how \in CrawlOutcomes
  BY OutcomesAre
<1> DEFINE state == IF how = "value" THEN "Ready" ELSE IF Forget(how) THEN "Empty" ELSE "Failed"
           kind == IF how = "value" THEN "Ready" ELSE "Failed"
<1>2. /\ slot.state = "Fetching" /\ slot' = [state |-> state, of |-> fetches, waiters |-> {}]
      /\ outcome' = [outcome EXCEPT ![fetches] = how] /\ held' = (how # "value")
      /\ resumes' = resumes \cup {[to |-> c, of |-> fetches, kind |-> kind] : c \in slot.waiters}
      /\ UNCHANGED <<fetches, call>>
  BY DEF Finish
<1>3. fetches \in 1..MaxFetches
  BY <1>2 DEF TypeOK, Slot
<1>4. /\ slot'.state = state /\ slot'.of = fetches /\ slot'.waiters = {}
      /\ slot' \in [state : {"Empty", "Fetching", "Ready", "Failed"}, of : 0..MaxFetches, waiters : SUBSET Callers]
  BY <1>2, <1>3
<1>5. /\ outcome' \in [1..MaxFetches -> {"none"} \cup CrawlOutcomes] /\ outcome'[fetches] = how
      /\ \A n \in 1..MaxFetches : n # fetches => outcome'[n] = outcome[n]
  BY <1>1, <1>2, <1>3 DEF TypeOK
<1>6. \A r \in resumes' : \/ r \in resumes
                          \/ r \in Answers /\ r.to \in slot.waiters /\ r.of = fetches /\ r.kind = kind
  BY <1>2, <1>3 DEF TypeOK, Answers
<1>7. TypeOK'
  BY <1>2, <1>3, <1>4, <1>5, <1>6 DEF TypeOK
<1>8. outcome[fetches] = "none"
  BY <1>2, <1>3 DEF OneFetch
<1>9. \A r \in resumes : r.of # fetches /\ r.of \in 1..MaxFetches
  BY <1>8 DEF Slot, TypeOK, Answers
<1>10. how # "none"
  BY <1>1 DEF CrawlOutcomes
<1>11. Slot'
  <2>1. \A r \in resumes' : outcome'[r.of] # "none"
    BY <1>5, <1>6, <1>9, <1>10 DEF Slot
  <2>2. \A n \in 1..MaxFetches : n > fetches' => outcome'[n] = "none"
    BY <1>2, <1>3, <1>5 DEF Slot
  <2> QED BY <2>1, <2>2, <1>1, <1>2, <1>3, <1>4, <1>5 DEF Slot, CrawlOutcomes
<1>12. Promised'
  BY <1>2 DEF Promised
<1>13. OneFetch'
  BY <1>2, <1>3, <1>4, <1>5, <1>10 DEF OneFetch
<1>14. AnswersAreTrue'
  <2>1. \A r \in resumes : r.of >= call[r.to].since /\ (r.kind = "Ready" <=> outcome'[r.of] = "value")
    BY <1>5, <1>9 DEF AnswersAreTrue
  <2>2. \A c \in Callers : fetches >= call[c].since
    BY <1>3 DEF Promised, TypeOK
  <2> QED BY <2>1, <2>2, <1>2, <1>5, <1>6 DEF AnswersAreTrue, Answers
<1>15. LostIsNotPinned'
  BY <1>1, <1>4, <1>5 DEF LostIsNotPinned, Forget, CrawlOutcomes
<1>16. EachAnsweredOnce'
  <2> SUFFICES ASSUME NEW c \in Callers
               PROVE  LET mine == {r \in resumes' : r.to = c}
                      IN  IF call[c].pc # "parked" THEN c \notin slot'.waiters /\ mine = {}
                          ELSE IF c \in slot'.waiters THEN slot'.state = "Fetching" /\ mine = {}
                          ELSE \E r \in mine : mine = {r}
    BY <1>2 DEF EachAnsweredOnce
  <2> DEFINE mine == {r \in resumes' : r.to = c}
             was == {r \in resumes : r.to = c}
             a == [to |-> c, of |-> fetches, kind |-> kind]
  <2>1. CASE c \in slot.waiters
    <3>1. call[c].pc = "parked" /\ was = {}
      BY <2>1 DEF EachAnsweredOnce
    <3>2. mine = {a}
      BY <2>1, <3>1, <1>2
    <3> QED BY <3>1, <3>2, <1>4
  <2>2. CASE c \notin slot.waiters
    <3>1. mine = was
      BY <2>2, <1>2
    <3> QED BY <2>2, <3>1, <1>4 DEF EachAnsweredOnce
  <2> QED BY <2>1, <2>2
<1> QED BY <1>7, <1>11, <1>12, <1>13, <1>14, <1>15, <1>16

LEMMA AnswerKeeps ==
  ASSUME MaxFetches \in Nat, IInv, NEW r \in resumes, Answer(r)
  PROVE  IInv'
<1> USE DEF IInv
<1>1. resumes' = resumes \ {r} /\ call' = [call EXCEPT ![r.to] = Idle] /\ UNCHANGED <<slot, fetches, outcome, held>>
  BY DEF Answer
<1>2. r.to \in Callers
  BY DEF TypeOK, Answers
<1>3. PICK c \in Callers : c = r.to
  BY <1>2
<1>4. /\ call' \in [Callers -> [pc : {"idle", "suspending", "parked"}, refresh : BOOLEAN, since : 0..MaxFetches]]
      /\ call'[c].pc = "idle" /\ call'[c].since = 0 /\ \A d \in Callers : d # c => call'[d] = call[d]
  BY <1>1, <1>3 DEF TypeOK, Idle
<1>5. c \notin slot.waiters /\ \A x \in resumes : x.to = c => x = r
  BY <1>3 DEF EachAnsweredOnce
<1>6. TypeOK' /\ Slot' /\ Promised' /\ OneFetch' /\ LostIsNotPinned'
  BY <1>1, <1>4 DEF TypeOK, Slot, Promised, OneFetch, LostIsNotPinned
<1>7. AnswersAreTrue'
  BY <1>1, <1>4, <1>5 DEF AnswersAreTrue, TypeOK, Answers
<1>8. EachAnsweredOnce'
  <2> SUFFICES ASSUME NEW d \in Callers
               PROVE  LET mine == {x \in resumes' : x.to = d}
                      IN  IF call'[d].pc # "parked" THEN d \notin slot.waiters /\ mine = {}
                          ELSE IF d \in slot.waiters THEN slot.state = "Fetching" /\ mine = {}
                          ELSE \E x \in mine : mine = {x}
    BY <1>1 DEF EachAnsweredOnce
  <2>1. CASE d = c
    BY <2>1, <1>1, <1>4, <1>5
  <2>2. CASE d # c
    <3>1. {x \in resumes' : x.to = d} = {x \in resumes : x.to = d} /\ call'[d] = call[d]
      BY <2>2, <1>1, <1>3, <1>4
    <3> QED BY <3>1 DEF EachAnsweredOnce
  <2> QED BY <2>1, <2>2
<1> QED BY <1>6, <1>7, <1>8

LEMMA NextIInv ==
  ASSUME MaxFetches \in Nat, IInv, [Next]_vars
  PROVE  IInv'
<1>1. CASE \E c \in Callers : Suspend(c)
  BY <1>1, SuspendKeeps
<1>2. CASE \E c \in Callers, refresh \in BOOLEAN : AwaitReady(c, refresh)
  BY <1>2, AwaitReadyKeeps
<1>3. CASE \E refresh \in BOOLEAN : Kick(refresh)
  BY <1>3, KickKeeps
<1>4. CASE \E how \in Outcomes : Finish(how)
  BY <1>4, FetchEndKeeps
<1>5. CASE \E r \in resumes : Answer(r)
  BY <1>5, AnswerKeeps
<1>6. CASE HoldPasses \/ UNCHANGED vars
  <2>1. UNCHANGED <<slot, fetches, outcome, call, resumes>> /\ held' \in {held, FALSE}
    BY <1>6 DEF HoldPasses, vars
  <2>2. held' \in BOOLEAN
    BY <2>1 DEF IInv, TypeOK
  <2> QED BY <2>1, <2>2
          DEF IInv, TypeOK, Slot, Promised, EachAnsweredOnce, OneFetch, AnswersAreTrue, LostIsNotPinned
<1> QED BY <1>1, <1>2, <1>3, <1>4, <1>5, <1>6 DEF Next

LEMMA Invariance ==
  ASSUME MaxFetches \in Nat
  PROVE  Spec => []IInv
<1>1. Init => IInv
  BY InitIInv
<1>2. IInv /\ [Next]_vars => IInv'
  BY NextIInv
<1> QED BY <1>1, <1>2, PTL DEF Spec

-----------------------------------------------------------------------------
\* LazySlot::Start and Finish resume every caller once, whatever fetches fail,
\* are refreshed or held meanwhile: no awaiter is parked twice or forgotten.
THEOREM EachCallerOnce ==
  ASSUME MaxFetches \in Nat
  PROVE  Spec => []EachAnsweredOnce
<1>1. IInv => EachAnsweredOnce
  BY DEF IInv
<1> QED BY <1>1, Invariance, PTL

\* Start launches no fetch beside one in flight, for a refresh neither.
THEOREM OneFetchInFlight ==
  ASSUME MaxFetches \in Nat
  PROVE  Spec => []OneFetch
<1>1. IInv => OneFetch
  BY DEF IInv
<1> QED BY <1>1, Invariance, PTL

\* Finish answers a caller with how a fetch ended that is no older than the one
\* it was promised, and a cache keeps no failure but the server's own word.
THEOREM AnswersAreOfThePromise ==
  ASSUME MaxFetches \in Nat
  PROVE  Spec => [](AnswersAreTrue /\ LostIsNotPinned)
<1>1. IInv => AnswersAreTrue /\ LostIsNotPinned
  BY DEF IInv
<1> QED BY <1>1, Invariance, PTL
=============================================================================
