----------------------------- MODULE WebClient -----------------------------
(***************************************************************************)
(* The browser's half of authentication: utils/api.ts, which every page    *)
(* calls the API through, _app.tsx, which shows a protected page only      *)
(* after the session was restored, the account pages, and the routes that  *)
(* set and clear the refresh cookie.                                       *)
(*                                                                         *)
(* A tab keeps its access token in memory; the cookie is one for all tabs. *)
(* The code between two awaits is one step.  A request may be lost, be     *)
(* served late, or have its answer lost; a client that has stopped waiting *)
(* does not stop the server.  The headers of an answer come before its     *)
(* body, and only until they have come does a timer run.                   *)
(***************************************************************************)
EXTENDS Sequences, Naturals

CONSTANTS
    Tabs,
    Calls,         \* calls to the API, refreshes aside: a call is made once
    NoOne,
    MaxSessions    \* bound: session rows

\* A call is not the page it is made from.
ASSUME StartersAssumption == NoOne \notin Tabs \cup Calls /\ Tabs \cap Calls = {}

VARIABLES
    tabs,        \* the tabs: the page and what it shows, isAuth, the access token
    refresh,     \* refresh[o]: the refresh that o, a call or the page of a tab, has started
    calls,       \* calls[c]: call c to the API
    cookie,      \* the session whose refresh token is in the browser's cookie, 0 for none
    sessions,    \* the RefreshSession rows
    strays       \* the sessions of refreshes that no tab waits for and the server may serve

vars == <<tabs, refresh, calls, cookie, sessions, strays>>

\* "work" is any page and "data" any endpoint that needs an access token.
publicPaths == {"login"}

Pages == publicPaths \cup {"work"}

Endpoints == {"login", "data"}

canAttemptRefresh(endpoint) == endpoint = "data"

Starters == Tabs \cup Calls

\* token: there is an accessToken.  refreshPromise: who started the refresh that is under way.
TabStates ==
    [page : Pages, isAuth : {"unknown", "yes", "no"}, token : BOOLEAN, refreshPromise : Starters \cup {NoOne}]

\* live: not ROTATED yet.  by: the tab that has, or waits for, the answer of the refresh that rotated it.
\* A session that ends in another way shows here as a refused refresh.
Sessions == [live : BOOLEAN, by : {{}} \cup {{t} : t \in Tabs}]

Live == {s \in DOMAIN sessions : sessions[s].live}

\* session: the one whose token was sent.  next: the one it was rotated to.  body: the new token is being read.
Refreshes == [step : {"none", "sent", "rotated", "conflict", "missing", "refused", "body", "pause"},
              session : Nat, next : Nat, retried : BOOLEAN]

\* awaits: who started the refresh the call waits for.  adrift: its page has given up a request that the
\* server may still serve.  applied: how often the server has done what the call asks.
CallStates ==
    [step : {"idle", "sent", "answered", "reading", "waiting", "ok", "failed", "expired"}, endpoint : Endpoints,
     tab : Tabs, token : BOOLEAN, again : BOOLEAN, awaits : Starters \cup {NoOne}, status : {"none", "ok", "401"},
     session : Nat, adrift : BOOLEAN, applied : Nat]

Opened == [live |-> TRUE, by |-> {}]

NoRefresh == [step |-> "none", session |-> 0, next |-> 0, retried |-> FALSE]

Loaded(page) == [page |-> page, isAuth |-> IF page \in publicPaths THEN "no" ELSE "unknown",
                 token |-> FALSE, refreshPromise |-> NoOne]

NoCallYet == [step |-> "idle", endpoint |-> "data", tab |-> CHOOSE t \in Tabs : TRUE, token |-> FALSE,
              again |-> FALSE, awaits |-> NoOne, status |-> "none", session |-> 0, adrift |-> FALSE,
              applied |-> 0]

Init ==
    /\ tabs = [t \in Tabs |-> Loaded("login")]
    /\ refresh = [o \in Starters |-> NoRefresh]
    /\ calls = [c \in Calls |-> NoCallYet]
    /\ \/ cookie = 0 /\ sessions = <<>>
       \/ cookie = 1 /\ sessions = <<Opened>>
    /\ strays = {}

----------------------------------------------------------------------------
(* The refresh endpoint                                                    *)

\* How the endpoint answers the token of session s, 0 for none.
Outcome(s) ==
    CASE s = 0             -> "missing"
      [] s \in Live        -> "rotated"
      [] OTHER             -> "conflict"

\* The rows when the token of session s was answered for the tabs in by.
AfterRefresh(s, by) ==
    IF Outcome(s) = "rotated" THEN Append([sessions EXCEPT ![s] = [live |-> FALSE, by |-> by]], Opened) ELSE sessions

\* The tab a refresh was started in.
TabOf(o) == IF o \in Tabs THEN o ELSE calls[o].tab

ServeRefresh(o) ==
    LET s == refresh[o].session
    IN  /\ refresh[o].step = "sent"
        /\ Outcome(s) = "rotated" => Len(sessions) < MaxSessions
        /\ refresh' = [refresh EXCEPT ![o].step = Outcome(s),
                                      ![o].next = IF Outcome(s) = "rotated" THEN Len(sessions) + 1 ELSE 0]
        /\ sessions' = AfterRefresh(s, {TabOf(o)})
        /\ UNCHANGED <<tabs, calls, cookie, strays>>

\* The session has expired or was revoked, the token came back long after it was rotated, authLimiter
\* refuses, or the server or what stands before it fails.
RefuseRefresh(o) ==
    /\ refresh[o].step = "sent"
    /\ refresh' = [refresh EXCEPT ![o].step = "refused"]
    /\ UNCHANGED <<tabs, calls, cookie, sessions, strays>>

ServeStray(s) ==
    /\ Outcome(s) = "rotated" => Len(sessions) < MaxSessions
    /\ strays' = strays \ {s}
    /\ sessions' = AfterRefresh(s, {})
    /\ UNCHANGED <<tabs, refresh, calls, cookie>>

----------------------------------------------------------------------------
(* The other endpoints                                                     *)

\* What the server may answer: an access token may have expired, a password be wrong.  An answer of any
\* other kind ends a call as no answer does.
Answers(call) == IF call.endpoint = "data" /\ ~call.token THEN {"401"} ELSE {"ok", "401"}

\* A call that is over; what its request asked for is forgotten unless the server may still serve it.
Over(call, step) == [NoCallYet EXCEPT !.step = step, !.applied = call.applied]

Dropped(call) ==
    IF call.step = "sent" THEN [call EXCEPT !.step = "failed", !.adrift = TRUE, !.again = FALSE]
    ELSE Over(call, "failed")

\* A request that nobody waits for any more is served like any other.
ServeCall(c) ==
    \E status \in Answers(calls[c]) :
        /\ calls[c].step = "sent" \/ calls[c].adrift
        /\ calls[c].endpoint = "login" => Len(sessions) < MaxSessions
        /\ LET served == [calls[c] EXCEPT !.applied = IF status = "ok" THEN @ + 1 ELSE @]
           IN  calls' = [calls EXCEPT ![c] =
                            IF calls[c].adrift THEN Over(served, "failed")
                            ELSE [served EXCEPT !.step = "answered", !.status = status,
                                                !.session = IF @ = 0 /\ calls[c].endpoint = "login"
                                                            THEN Len(sessions) + 1 ELSE 0]]
        /\ sessions' = IF status = "ok" /\ calls[c].endpoint = "login"
                       THEN Append(sessions, Opened) ELSE sessions
        /\ UNCHANGED <<tabs, refresh, cookie, strays>>

----------------------------------------------------------------------------
(* performRefresh and refreshTokens                                        *)

\* What if every caller refreshed for itself?
BugStartsRefresh(t) == TRUE

StartsRefresh(t) == tabs[t].refreshPromise = NoOne

\* The refresh that o, in tab t, awaits: a new one, or the one under way.
refreshTokens(t, o) == IF StartsRefresh(t) THEN o ELSE tabs[t].refreshPromise

SentRefresh(retried) == [step |-> "sent", session |-> cookie, next |-> 0, retried |-> retried]

AfterRefreshTokens(t, o) ==
    IF StartsRefresh(t) THEN [refresh EXCEPT ![o] = SentRefresh(FALSE)] ELSE refresh

IsOpen(call) == call.step \in {"sent", "answered", "reading", "waiting"}

\* refreshTokens resolves to TRUE: waiting calls are sent again, a waiting page is shown.
Refreshed(o) ==
    LET t == TabOf(o)
    IN  /\ tabs' = [tabs EXCEPT ![t].token = TRUE, ![t].refreshPromise = NoOne,
                                ![t].isAuth = IF @ = "unknown" THEN "yes" ELSE @]
        /\ calls' = [c \in Calls |->
                        IF calls[c].step = "waiting" /\ calls[c].awaits = o
                        THEN [calls[c] EXCEPT !.step = "sent", !.token = TRUE, !.again = TRUE, !.awaits = NoOne,
                                              !.status = "none"]
                        ELSE calls[c]]
        /\ refresh' = [refresh EXCEPT ![o] = NoRefresh]

\* refreshTokens resolves to FALSE: a waiting call sends the whole tab to the login page, a waiting page
\* only itself.
NotRefreshed(o) ==
    LET t == TabOf(o)
        waiting == {c \in Calls : calls[c].step = "waiting" /\ calls[c].awaits = o}
    IN  /\ tabs' = [tabs EXCEPT ![t] =
                       IF waiting # {} \/ @.isAuth = "unknown" THEN Loaded("login")
                       ELSE [@ EXCEPT !.token = FALSE, !.refreshPromise = NoOne]]
        /\ calls' = [c \in Calls |->
                        IF c \in waiting THEN Over(calls[c], "expired")
                        ELSE IF waiting # {} /\ calls[c].tab = t /\ IsOpen(calls[c]) THEN Dropped(calls[c])
                        ELSE calls[c]]
        /\ refresh' = [refresh EXCEPT ![o] = NoRefresh]

\* What if a refused refresh was tried again as often as it was refused?
BugTriesAgain(o) == refresh[o].step = "conflict"

\* Another tab was a moment faster: the browser is given time to store its cookie.
TriesAgain(o) == refresh[o].step = "conflict" /\ ~refresh[o].retried

\* The headers: the status decides, the cookie is stored, and the token of a new session is still to be read.
RefreshArrives(o) ==
    /\ cookie' = CASE refresh[o].step = "rotated" -> refresh[o].next
                   [] refresh[o].step = "missing" -> 0
                   [] OTHER                       -> cookie
    /\ \/ refresh[o].step = "rotated" /\ refresh' = [refresh EXCEPT ![o].step = "body"] /\ UNCHANGED <<tabs, calls>>
       \/ TriesAgain(o) /\ refresh' = [refresh EXCEPT ![o].step = "pause"] /\ UNCHANGED <<tabs, calls>>
       \/ refresh[o].step \in {"conflict", "missing", "refused"} /\ ~TriesAgain(o) /\ NotRefreshed(o)
    /\ UNCHANGED <<sessions, strays>>

\* The body of a refresh, which may break off or not be what it should.
ReadToken(o) ==
    /\ refresh[o].step = "body"
    /\ Refreshed(o) \/ NotRefreshed(o)
    /\ UNCHANGED <<cookie, sessions, strays>>

RetryRefresh(o) ==
    /\ refresh[o].step = "pause"
    /\ refresh' = [refresh EXCEPT ![o] = SentRefresh(TRUE)]
    /\ UNCHANGED <<tabs, calls, cookie, sessions, strays>>

\* Nobody waits for the refreshes of starters any more.
GivenUp(starters) ==
    /\ strays' = strays \cup ({refresh[o].session : o \in {p \in starters : refresh[p].step = "sent"}} \ {0})
    /\ sessions' = [n \in DOMAIN sessions |->
                       IF \E o \in starters : refresh[o].step = "rotated" /\ refresh[o].session = n
                       THEN [sessions[n] EXCEPT !.by = {}] ELSE sessions[n]]

\* Fifteen seconds are over before the headers, or the network fails.
RefreshTimesOut(o) ==
    /\ refresh[o].step \in {"sent", "rotated", "conflict", "missing", "refused"}
    /\ NotRefreshed(o) /\ GivenUp({o})
    /\ UNCHANGED <<cookie>>

----------------------------------------------------------------------------
(* request                                                                 *)

Sends(c, endpoint, t) ==
    calls' = [calls EXCEPT ![c].step = "sent", ![c].endpoint = endpoint, ![c].tab = t, ![c].token = tabs[t].token]

\* In-app navigation keeps the token; a protected page asks restoreSession first.
Visited(t, page) ==
    [Loaded(page) EXCEPT !.token = tabs[t].token, !.refreshPromise = tabs[t].refreshPromise,
                         !.isAuth = IF page \notin publicPaths /\ tabs[t].token THEN "yes" ELSE @]

\* onSubmit of the login page goes on, whether the page is still shown or not.
LoginSucceeds(t) == [tabs EXCEPT ![t] = [Visited(t, "work") EXCEPT !.token = TRUE, !.isAuth = "yes"]]

\* A refused token is refreshed, and the call sent again, once.
Unauthorized(c) ==
    LET t == calls[c].tab
        awaited == refreshTokens(t, c)
    IN  /\ calls[c].status = "401" /\ canAttemptRefresh(calls[c].endpoint) /\ ~calls[c].again
        /\ calls' = [calls EXCEPT ![c].step = "waiting", ![c].awaits = awaited]
        /\ tabs' = [tabs EXCEPT ![t].refreshPromise = awaited]
        /\ refresh' = AfterRefreshTokens(t, c)
        /\ UNCHANGED cookie

\* Whatever else the status is, the body is read.  The headers of a login bring the cookie.
Answered(c) ==
    /\ ~(calls[c].status = "401" /\ canAttemptRefresh(calls[c].endpoint) /\ ~calls[c].again)
    /\ calls' = [calls EXCEPT ![c].step = "reading", ![c].session = 0]
    /\ cookie' = IF calls[c].endpoint = "login" /\ calls[c].status = "ok" THEN calls[c].session ELSE cookie
    /\ UNCHANGED <<tabs, refresh>>

\* The headers of an answer.
CallArrives(c) ==
    /\ calls[c].step = "answered"
    /\ Unauthorized(c) \/ Answered(c)
    /\ UNCHANGED <<sessions, strays>>

\* parseResponse: the body, which may break off.
ReadBody(c) ==
    /\ calls[c].step = "reading"
    /\ \/ /\ calls[c].status = "ok" /\ calls' = [calls EXCEPT ![c] = Over(@, "ok")]
          /\ tabs' = IF calls[c].endpoint = "login" THEN LoginSucceeds(calls[c].tab) ELSE tabs
       \/ calls' = [calls EXCEPT ![c] = Over(@, "failed")] /\ UNCHANGED tabs
    /\ UNCHANGED <<refresh, cookie, sessions, strays>>

\* What if a call that got no answer was sent once more?
BugCallTimesOut(c) ==
    /\ calls[c].step \in {"sent", "answered"}
    /\ IF calls[c].again
       THEN calls' = [calls EXCEPT ![c] = Dropped(@)]
       ELSE calls' = [calls EXCEPT ![c].step = "sent", ![c].again = TRUE]
    /\ UNCHANGED <<tabs, refresh, cookie, sessions, strays>>

\* REQUEST_TIMEOUT or NETWORK_ERROR, while the headers are awaited.
CallTimesOut(c) ==
    /\ calls[c].step \in {"sent", "answered"}
    /\ calls' = [calls EXCEPT ![c] = Dropped(@)]
    /\ UNCHANGED <<tabs, refresh, cookie, sessions, strays>>

----------------------------------------------------------------------------
(* The pages                                                               *)

\* A call of a page that needs a session.
Fetch(t, c) ==
    /\ tabs[t].page = "work" /\ tabs[t].isAuth = "yes" /\ calls[c].step = "idle"
    /\ Sends(c, "data", t)
    /\ UNCHANGED <<tabs, refresh, cookie, sessions, strays>>

\* The button is disabled while a login is under way.
Login(t, c) ==
    /\ tabs[t].page = "login" /\ calls[c].step = "idle"
    /\ ~\E other \in Calls : IsOpen(calls[other]) /\ calls[other].tab = t /\ calls[other].endpoint = "login"
    /\ Sends(c, "login", t)
    /\ UNCHANGED <<tabs, refresh, cookie, sessions, strays>>

\* restoreSession, when the page of tab t has changed to what entered says.
Restores(t, entered) ==
    IF entered.isAuth # "unknown" THEN tabs' = [tabs EXCEPT ![t] = entered] /\ UNCHANGED refresh
    ELSE /\ tabs' = [tabs EXCEPT ![t] = [entered EXCEPT !.refreshPromise = refreshTokens(t, t)]]
         /\ refresh' = AfterRefreshTokens(t, t)

\* A link within the application; a page that is not shown has none.
Visit(t) ==
    /\ tabs[t].isAuth = "yes"
    /\ Restores(t, Visited(t, "work"))
    /\ UNCHANGED <<calls, cookie, sessions, strays>>

\* A link in an email, a bookmark, F5, the address bar: the document is loaded anew and forgets all it had.
Load(t) ==
    LET mine == {o \in Starters : TabOf(o) = t /\ refresh[o].step # "none"}
    IN  /\ tabs' = [tabs EXCEPT ![t] = [Loaded("work") EXCEPT !.refreshPromise = t]]
        /\ refresh' = [o \in Starters |-> IF o = t THEN SentRefresh(FALSE)
                                          ELSE IF o \in mine THEN NoRefresh ELSE refresh[o]]
        /\ calls' = [c \in Calls |-> IF calls[c].tab = t /\ IsOpen(calls[c]) THEN Dropped(calls[c]) ELSE calls[c]]
        /\ GivenUp(mine)
        /\ UNCHANGED cookie

\* The sidebar forgets the token and nothing else.
handleLogout(t) ==
    /\ tabs[t].isAuth = "yes"
    /\ tabs' = [tabs EXCEPT ![t] = [Visited(t, "login") EXCEPT !.token = FALSE]]
    /\ UNCHANGED <<refresh, calls, cookie, sessions, strays>>

----------------------------------------------------------------------------

Serves ==
    \/ \E o \in Starters : ServeRefresh(o) \/ RefuseRefresh(o)
    \/ \E s \in strays : ServeStray(s)
    \/ \E c \in Calls : ServeCall(c)

Next ==
    \/ Serves
    \/ \E o \in Starters : RefreshArrives(o) \/ ReadToken(o) \/ RetryRefresh(o) \/ RefreshTimesOut(o)
    \/ \E c \in Calls : CallArrives(c) \/ ReadBody(c) \/ CallTimesOut(c)
    \/ \E t \in Tabs : Visit(t) \/ Load(t) \/ handleLogout(t) \/ \E c \in Calls : Fetch(t, c) \/ Login(t, c)

Spec == Init /\ [][Next]_vars

\* A tab's timers ring: that of fetchWithTimeout, which is cleared when the headers come, and that of the pause.
\* Nothing says that a body ever ends.
Fairness ==
    /\ \A o \in Starters : WF_vars(RefreshTimesOut(o) \/ RetryRefresh(o))
    /\ \A c \in Calls : WF_vars(CallTimesOut(c))

FairSpec == Spec /\ Fairness

----------------------------------------------------------------------------
(* Properties                                                              *)

TypeOK ==
    /\ tabs \in [Tabs -> TabStates]
    /\ refresh \in [Starters -> Refreshes]
    /\ calls \in [Calls -> CallStates]
    /\ cookie \in 0..Len(sessions)
    /\ sessions \in Seq(Sessions)
    /\ strays \subseteq DOMAIN sessions

Remote ==
    INSTANCE RemoteCalls WITH
        remote <- [c \in Calls |->
                      [state |-> IF IsOpen(calls[c]) THEN "open" ELSE calls[c].step, applied |-> calls[c].applied]]

\* Over refreshes, second attempts, timeouts, lost answers and reloads, request keeps its promise to the
\* pages: it never has the server apply a call twice, never reports success for what was not applied and
\* never SESSION_EXPIRED for what was or will be.
CallsKeepTheirPromise == Remote!Spec

\* A refresh that is refused because its token was used already, lost to another tab, or to a refresh whose
\* answer this tab never got: the calls and the page of one tab do not race each other for the cookie.
TabNeverRacesItself ==
    \A o \in Starters : refresh[o].step = "conflict" => sessions[refresh[o].session].by # {TabOf(o)}

\* Reading a body that may never end: the call's own, or that of the refresh it waits for.
Stalls(c) ==
    \/ calls[c].step = "reading"
    \/ calls[c].step = "waiting" /\ refresh[calls[c].awaits].step = "body"

\* Whatever the server and the network do, every call of a page ends or is reading a body: request waits for a
\* refresh, which may be tried again, and may have to be sent again itself, and each of these waits has its timer.
CallsSettle == \A c \in Calls : IsOpen(calls[c]) ~> ~IsOpen(calls[c]) \/ Stalls(c)
=============================================================================
