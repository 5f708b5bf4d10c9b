---------------------------- MODULE BrowserRest ----------------------------
(***************************************************************************)
(* The web client's REST calls (proto-service.ts) over the user it keeps   *)
(* (auth-store.ts): a page's first GETs queue behind one read of           *)
(* serverSettings, a 401 is answered by one silent Google renewal that the *)
(* calls share, and what cannot be renewed goes on anonymously (a GET) or  *)
(* fails (a POST).  A step is one event of the browser.                    *)
(***************************************************************************)
EXTENDS Integers, Sequences, SequencesExt

CONSTANTS Gets, Posts,
          MaxSessions, \* bound: sessions the server opens
          MaxSignIns,  \* bound: sign-ins by password
          MaxPrompts   \* bound: silent renewals

VARIABLES store,    \* AuthStore's user: who, and the session ("google" also keeps its jwt)
          sessions, \* the server's: whose, and whether it still has it
          call,     \* each request: where it is, the authorization it carries, and whether it may renew
          login,    \* loginWait: what its leader awaits, its authorization, #loginCallbacks and the one served
          renewal,  \* #renewal: "none", "prompt", "login", and who awaits it
          resumes,  \* awaits of a settled renewal still to run
          called,   \* lastRestCall is set
          sentAs,   \* whom each request was sent as, each time
          signIns, prompts,
          moved     \* requests that were out when another step changed the user, or went out with the
                    \* session that the answer to an earlier user's request had stored

vars == <<store, sessions, call, login, renewal, resumes, called, sentAs, signIns, prompts, moved>>

Requests == Gets \cup Posts
None == 0
Bearer == -1
Nobody == [user |-> "none", session |-> None]
Idle == [pc |-> "idle", auth |-> None, renew |-> FALSE]
NoLogin == [at |-> "none", auth |-> None, queue |-> << >>, next |-> 0]
NoRenewal == [at |-> "none", waiters |-> << >>]

Init ==
  /\ store \in {Nobody, [user |-> "google", session |-> 1], [user |-> "password", session |-> 1]}
  /\ sessions = IF store = Nobody THEN << >> ELSE << [user |-> store.user, live |-> TRUE] >>
  /\ call = [r \in Requests |-> Idle]
  /\ login = NoLogin /\ renewal = NoRenewal /\ resumes = << >> /\ called = FALSE
  /\ sentAs = [r \in Requests |-> << >>]
  /\ signIns = 0 /\ prompts = 0 /\ moved = {}

-----------------------------------------------------------------------------
\* User.authorization, isLoggedIn; AuthStore.logout and reset.
Authorization(s) == IF s.session # None THEN s.session ELSE IF s.user = "google" THEN Bearer ELSE None
IsLoggedIn(s) == s.user # "none"
Reset(s) == IF s.user = "google" THEN [s EXCEPT !.session = None] ELSE Nobody

\* Whom the server takes a request for.
UserOf(open, auth) == IF auth = None THEN "none" ELSE IF auth = Bearer THEN "google" ELSE open[auth].user

\* The request goes out with auth; none is left of the call but its answer.
Sends(c, r, auth, renew) == [c EXCEPT ![r] = [pc |-> "sent", auth |-> auth, renew |-> renew]]
Sent(open, r, auth) == [sentAs EXCEPT ![r] = Append(@, UserOf(open, auth))]
Over(c, r, how) == [c EXCEPT ![r].pc = how]

\* A request that is served for loginWait: its end lets the next one go, or rejects them all.
Served(r) == login.at = "gets" /\ login.queue[login.next] = r

ServesNext(c, r) ==
  IF ~Served(r) THEN call' = c /\ UNCHANGED <<login, sentAs>>
  ELSE IF login.next = Len(login.queue) THEN call' = c /\ login' = NoLogin /\ UNCHANGED sentAs
  ELSE LET q == login.queue[login.next + 1] IN
       /\ call' = Sends(c, q, Authorization(store'), TRUE)
       /\ login' = [login EXCEPT !.next = @ + 1]
       /\ sentAs' = Sent(sessions', q, Authorization(store'))

RejectsAllKept(c, r) == call' = Over(c, r, "failed") /\ UNCHANGED <<login, sentAs>>
RejectsAll(c, r) ==
  /\ call' = IF Served(r) THEN [q \in Requests |-> IF q = r \/ c[q].pc = "waiting" THEN [c[q] EXCEPT !.pc = "failed"] ELSE c[q]]
             ELSE Over(c, r, "failed")
  /\ login' = IF Served(r) THEN NoLogin ELSE login
  /\ UNCHANGED sentAs

\* Another step changed the user under a request that is out.
Moves(r) == IF store'.user # store.user THEN {q \in Requests \ {r} : call[q].pc \in {"sent", "renewing"}} ELSE {}

-----------------------------------------------------------------------------
\* get: with a user whose last call is recent it is sent at once, else it waits in loginWait, whose first caller reads
\* serverSettings.
Get(r, isActive) ==
  /\ r \in Gets /\ call[r].pc = "idle" /\ resumes = << >>
  /\ isActive => called
  /\ IF Authorization(store) # None /\ isActive
     THEN /\ call' = Sends(call, r, Authorization(store), TRUE) /\ sentAs' = Sent(sessions, r, Authorization(store))
          /\ UNCHANGED login
     ELSE /\ call' = Over(call, r, "waiting") /\ UNCHANGED sentAs
          /\ login' = IF login.queue # << >> THEN [login EXCEPT !.queue = Append(@, r)]
                      ELSE [at |-> "settings", auth |-> Authorization(store), queue |-> <<r>>, next |-> 0]
  /\ UNCHANGED <<store, sessions, renewal, resumes, called, signIns, prompts, moved>>

\* loginWait: serverSettings says whether the session it carried is a signed-in one; a dead one is reset.
Settings(ok) ==
  /\ login.at = "settings" /\ resumes = << >>
  /\ LET active == login.auth > 0 /\ sessions[login.auth].live /\ sessions[login.auth].user # "none"
         first == Head(login.queue) IN
     IF ok
     THEN /\ store' = IF ~active /\ IsLoggedIn(store) THEN Reset(store) ELSE store
          /\ call' = Sends(call, first, Authorization(store'), TRUE) /\ sentAs' = Sent(sessions, first, Authorization(store'))
          /\ login' = [login EXCEPT !.at = "gets", !.next = 1]
     ELSE /\ call' = [r \in Requests |-> IF call[r].pc = "waiting" THEN [call[r] EXCEPT !.pc = "failed"] ELSE call[r]]
          /\ login' = NoLogin /\ UNCHANGED <<store, sentAs>>
  /\ moved' = moved \cup Moves("none")
  /\ UNCHANGED <<sessions, renewal, resumes, called, signIns, prompts>>

\* postRaw: sent with the user's authorization.
Post(r) ==
  /\ r \in Posts /\ call[r].pc = "idle" /\ resumes = << >>
  /\ call' = Sends(call, r, Authorization(store), TRUE) /\ sentAs' = Sent(sessions, r, Authorization(store))
  /\ called' = (called \/ Authorization(store) # None)
  /\ moved' = moved \cup {q \in {r} : UserOf(sessions, Authorization(store)) # store.user}
  /\ UNCHANGED <<store, sessions, login, renewal, resumes, signIns, prompts>>

\* An answer. Without a session the server opens one, whose id the browser keeps (authGet, postRaw); a POST that
\* carries a bearer does not look.
Opens(r) == call[r].auth = None \/ (call[r].auth = Bearer /\ r \in Gets)

Answered(r) ==
  /\ call[r].pc = "sent" /\ resumes = << >>
  /\ call[r].auth > 0 => sessions[call[r].auth].live
  /\ IF Opens(r)
     THEN /\ Len(sessions) < MaxSessions
          /\ sessions' = Append(sessions, [user |-> UserOf(sessions, call[r].auth), live |-> TRUE])
          /\ store' = [store EXCEPT !.session = Len(sessions) + 1]
     ELSE UNCHANGED <<sessions, store>>
  /\ ServesNext(Over(call, r, "done"), r)
  /\ called' = TRUE
  /\ UNCHANGED <<renewal, resumes, signIns, prompts, moved>>

\* An error that is no 401, or a 401 of a request with no credential.
Failed(r) ==
  /\ call[r].pc = "sent" /\ resumes = << >>
  /\ RejectsAll(call, r)
  /\ UNCHANGED <<store, sessions, renewal, resumes, called, signIns, prompts, moved>>

\* What a 401 comes to without a renewed session (handle401, #post401): the user is logged out, and a GET or an
\* anonymous POST is sent again without one.
RerunsAnybody(r) == r \in Gets \/ call[r].renew
Reruns(r) == r \in Gets \/ (~IsLoggedIn(store) /\ call[r].renew)

GivesUp(r) ==
  /\ store' = Nobody
  /\ IF Reruns(r)
     THEN /\ call' = Sends(call, r, None, r \in Gets) /\ sentAs' = Sent(sessions, r, None)
          /\ UNCHANGED login
     ELSE RejectsAll(call, r)
  /\ moved' = moved \cup Moves(r)

\* A 401 of a request that carried a credential: a dead session, or a jwt past its time.
Unauthorized(r) ==
  /\ call[r].pc = "sent" /\ call[r].auth # None /\ resumes = << >>
  /\ call[r].auth > 0 => ~sessions[call[r].auth].live
  /\ IF call[r].renew /\ store.user = "google"
     THEN /\ renewal.at = "none" => prompts < MaxPrompts
          /\ prompts' = IF renewal.at = "none" THEN prompts + 1 ELSE prompts
          /\ renewal' = [at |-> IF renewal.at = "none" THEN "prompt" ELSE renewal.at, waiters |-> Append(renewal.waiters, r)]
          /\ call' = Over(call, r, "renewing")
          /\ UNCHANGED <<store, login, sentAs, moved>>
     ELSE GivesUp(r) /\ UNCHANGED <<renewal, prompts>>
  /\ UNCHANGED <<sessions, resumes, called, signIns>>

\* renewGoogleSessionOnce: the prompt's credential is kept, then exchanged for a session.
SettlesOne(result) == resumes' = << [r |-> Head(renewal.waiters), result |-> result] >> /\ renewal' = NoRenewal
Settles(result) ==
  /\ resumes' = [i \in DOMAIN renewal.waiters |-> [r |-> renewal.waiters[i], result |-> result]]
  /\ renewal' = NoRenewal

Prompted(credential) ==
  /\ renewal.at = "prompt" /\ resumes = << >>
  /\ IF credential
     THEN /\ store' = [store EXCEPT !.user = "google"] /\ renewal' = [renewal EXCEPT !.at = "login"]
          /\ moved' = moved \cup Moves("none")
          /\ UNCHANGED resumes
     ELSE Settles(None) /\ UNCHANGED <<store, moved>>
  /\ UNCHANGED <<sessions, call, login, called, sentAs, signIns, prompts>>

LoggedIn(ok) ==
  /\ renewal.at = "login" /\ resumes = << >>
  /\ IF ok
     THEN /\ Len(sessions) < MaxSessions
          /\ sessions' = Append(sessions, [user |-> "google", live |-> TRUE])
          /\ store' = [store EXCEPT !.session = Len(sessions) + 1]
          /\ Settles(Len(sessions) + 1)
     ELSE Settles(None) /\ UNCHANGED <<sessions, store>>
  /\ UNCHANGED <<call, login, called, sentAs, signIns, prompts, moved>>

\* A request whose renewal settled: sent once more with the session (a POST with the one stored now), or given up.
RetriesRenewing(r, auth) == Sends(call, r, auth, TRUE)
Retries(r, auth) == Sends(call, r, auth, FALSE)

Resume ==
  /\ resumes # << >>
  /\ LET r == Head(resumes).r
         auth == IF r \in Gets THEN Head(resumes).result ELSE Authorization(store) IN
     /\ resumes' = Tail(resumes)
     /\ IF Head(resumes).result # None
        THEN /\ call' = Retries(r, auth) /\ sentAs' = Sent(sessions, r, auth)
             /\ UNCHANGED <<store, login, moved>>
        ELSE GivesUp(r)
  /\ UNCHANGED <<sessions, renewal, called, signIns, prompts>>

-----------------------------------------------------------------------------
\* The user signs in by password, or out; another window's user arrives the same way.
SignIn ==
  /\ signIns < MaxSignIns /\ Len(sessions) < MaxSessions /\ resumes = << >>
  /\ signIns' = signIns + 1
  /\ \/ /\ store' = [user |-> "password", session |-> Len(sessions) + 1]
        /\ sessions' = Append(sessions, [user |-> "password", live |-> TRUE])
     \/ store' = Nobody /\ UNCHANGED sessions
  /\ moved' = moved \cup Moves("none")
  /\ UNCHANGED <<call, login, renewal, resumes, called, sentAs, prompts>>

\* The server forgets a session (a restart, its timeout, another client address).
Lapse(n) ==
  /\ sessions[n].live
  /\ sessions' = [sessions EXCEPT ![n].live = FALSE]
  /\ UNCHANGED <<store, call, login, renewal, resumes, called, sentAs, signIns, prompts, moved>>

Next ==
  \/ \E r \in Requests : Post(r) \/ Answered(r) \/ Failed(r) \/ Unauthorized(r) \/ \E isActive \in BOOLEAN : Get(r, isActive)
  \/ \E ok \in BOOLEAN : Settings(ok) \/ Prompted(ok) \/ LoggedIn(ok)
  \/ Resume \/ SignIn
  \/ \E n \in DOMAIN sessions : Lapse(n)

Spec == Init /\ [][Next]_vars

-----------------------------------------------------------------------------
Users == {"none", "google", "password"}
Auths == -1..MaxSessions

TypeOK ==
  /\ store \in [user : Users, session : 0..MaxSessions]
  /\ sessions \in Seq([user : Users, live : BOOLEAN]) /\ Len(sessions) <= MaxSessions
  /\ call \in [Requests -> [pc : {"idle", "waiting", "sent", "renewing", "done", "failed"}, auth : Auths, renew : BOOLEAN]]
  /\ login \in [at : {"none", "settings", "gets"}, auth : Auths, queue : Seq(Gets), next : 0..Len(login.queue)]
  /\ renewal \in [at : {"none", "prompt", "login"}, waiters : Seq(Requests)]
  /\ resumes \in Seq([r : Requests, result : Auths])
  /\ called \in BOOLEAN /\ signIns \in 0..MaxSignIns /\ prompts \in 0..MaxPrompts
  /\ moved \subseteq Requests
  /\ sentAs \in [Requests -> Seq(Users)]

\* Every call that has not ended awaits something that comes: loginWait has a leader while a caller is queued, and
\* serves each of its callers in turn; a renewal is out while one waits for it.
EachAwaitsSomething ==
  /\ \A r \in Requests : call[r].pc = "waiting" => \E i \in DOMAIN login.queue : i > login.next /\ login.queue[i] = r
  /\ login.queue # << >> => login.at # "none"
  /\ login.at = "gets" => call[login.queue[login.next]].pc \in {"sent", "renewing"}
  /\ \A r \in Requests : call[r].pc = "renewing" =>
       (r \in Range(renewal.waiters) /\ renewal.at # "none") \/ \E i \in DOMAIN resumes : resumes[i].r = r

\* handle401: "an anonymous 401 must throw, or this recurses forever" and "not loop into another prompt": a request is
\* sent at most three times, its last without a credential or for good.
FewRetries == \A r \in Requests : Len(sentAs[r]) <= (IF r \in Gets THEN 3 ELSE 2)

\* #post401: "the mutation is never re-run as somebody else", as long as nothing else changes the user
\* while it is out and the session it carried was that user's.
KeepsItsUser == \A r \in Posts \ moved : \A i \in DOMAIN sentAs[r] : sentAs[r][i] = sentAs[r][1]

\* The same whatever the other calls do: the first of two POSTs whose renewal fails signs the user out, and the second
\* takes itself for an anonymous one and is sent again without a user.
AlwaysKeepsItsUser == \A r \in Posts : \A i \in DOMAIN sentAs[r] : sentAs[r][i] = sentAs[r][1]
=============================================================================
