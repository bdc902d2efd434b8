-------------------------- MODULE WebClient_proofs --------------------------
(***************************************************************************)
(* WebClient implements RemoteCalls, for any tabs, calls and sessions:     *)
(* whatever refreshes and tabs do, they move a call only as its page was   *)
(* promised.  And the calls and the page of one tab never race each other  *)
(* for the cookie.                                                         *)
(***************************************************************************)
EXTENDS WebClient, Workbench, TLAPS

\* The form of a call.
CallFields == {"step", "endpoint", "tab", "token", "again", "awaits", "status", "session", "adrift", "applied"}

IsCall(call) == call = [field \in CallFields |-> call[field]]

\* A request that is on its way, or waits for a refresh, has not been served; an answer tells whether it was; and
\* one that drifts on belongs to a call that has failed and has not been served.
SoundCall(call) ==
    /\ IsCall(call)
    /\ call.step \in {"idle", "sent", "answered", "reading", "waiting", "ok", "failed", "expired"}
    /\ call.adrift \in BOOLEAN
    /\ call.applied \in {0, 1}
    /\ call.step \in {"idle", "sent", "waiting"} => call.applied = 0
    /\ call.step \in {"answered", "reading"} => (call.status = "ok" <=> call.applied = 1)
    /\ call.adrift => call.step = "failed" /\ call.applied = 0

CallsInv ==
    /\ calls = [c \in Calls |-> calls[c]]
    /\ \A c \in Calls : SoundCall(calls[c])

\* What the abstract specification sees of a call, and of all.
View(call) == [state |-> IF IsOpen(call) THEN "open" ELSE call.step, applied |-> call.applied]

Views == [c \in Calls |-> View(calls[c])]

----------------------------------------------------------------------------
(* Steps of one call.                                                      *)

\* How one call may move.
Started(old, new) == old.state = "idle" /\ new = [state |-> "open", applied |-> old.applied]
Served(old, new) ==
    old.state \in {"open", "failed"} /\ old.applied = 0 /\ new = [state |-> old.state, applied |-> 1]
Resolved(old, new) == old.state = "open" /\ old.applied = 1 /\ new = [state |-> "ok", applied |-> old.applied]
Failed(old, new) == old.state = "open" /\ new = [state |-> "failed", applied |-> old.applied]

MovesAsPromised(old, new) ==
    old = new \/ Started(old, new) \/ Served(old, new) \/ Resolved(old, new) \/ Failed(old, new)

LEMMA OneCall ==
    ASSUME CallsInv, NEW c \in Calls, NEW call, calls' = [calls EXCEPT ![c] = call], SoundCall(call),
           MovesAsPromised(View(calls[c]), View(call))
    PROVE  CallsInv' /\ [Remote!Next]_Views
  <1>1. calls' = [d \in Calls |-> calls'[d]] /\ calls'[c] = call /\ \A d \in Calls \ {c} : calls'[d] = calls[d]
    BY DEF CallsInv
  <1>2. CallsInv'
    BY <1>1 DEF CallsInv, SoundCall, IsCall
  <1>3. Views' = [Views EXCEPT ![c] = View(call)] /\ Views[c] = View(calls[c])
    BY <1>1 DEF Views, View, IsOpen
  <1>4. DOMAIN Views = Calls /\ DOMAIN Views' = Calls
    BY DEF Views
  <1>5. CASE View(call) = View(calls[c])
    <2>1. Views' = Views
      BY <1>3, <1>5 DEF Views
    <2> QED
      BY <1>2, <2>1
  <1>6. CASE Started(View(calls[c]), View(call))
    <2>1. Remote!Start(c)
      BY <1>3, <1>6 DEF Started, Remote!Start, Remote!Becomes, Views, View
    <2> QED
      BY <1>2, <2>1 DEF Remote!Next
  <1>7. CASE Served(View(calls[c]), View(call))
    <2>1. Remote!Apply(c)
      BY <1>3, <1>7 DEF Served, Remote!Apply, Views, View
    <2> QED
      BY <1>2, <2>1 DEF Remote!Next
  <1>8. CASE Resolved(View(calls[c]), View(call))
    <2>1. Remote!Resolve(c)
      BY <1>3, <1>8 DEF Resolved, Remote!Resolve, Remote!Becomes, Views, View
    <2> QED
      BY <1>2, <2>1 DEF Remote!Next
  <1>9. CASE Failed(View(calls[c]), View(call))
    <2>1. Remote!Fail(c)
      BY <1>3, <1>9 DEF Failed, Remote!Fail, Remote!Becomes, Views, View
    <2> QED
      BY <1>2, <2>1 DEF Remote!Next
  <1> QED
    BY <1>5, <1>6, <1>7, <1>8, <1>9 DEF MovesAsPromised

LEMMA NoCallIsCall == IsCall(NoCallYet) /\ NoCallYet.adrift = FALSE
  <1>1. DOMAIN NoCallYet = CallFields /\ NoCallYet.adrift = FALSE
    BY DEF NoCallYet, CallFields
  <1>2. NoCallYet = [field \in DOMAIN NoCallYet |-> NoCallYet[field]]
    BY DEF NoCallYet
  <1> HIDE DEF NoCallYet
  <1> QED
    BY <1>1, <1>2 DEF IsCall

\* A call that is over is a new row with its count.
LEMMA OverSound ==
    ASSUME NEW call, call.applied \in {0, 1}, NEW step \in {"ok", "failed", "expired"}
    PROVE  SoundCall(Over(call, step)) /\ View(Over(call, step)) = [state |-> step, applied |-> call.applied]
  <1> DEFINE over == Over(call, step)
  <1>1. IsCall(over) /\ over.step = step /\ over.applied = call.applied /\ over.adrift = FALSE
    BY NoCallIsCall DEF Over, IsCall, CallFields
  <1> HIDE DEF over
  <1>2. SoundCall(over) /\ View(over) = [state |-> step, applied |-> call.applied]
    BY <1>1 DEF SoundCall, View, IsOpen
  <1> QED
    BY <1>2 DEF over

\* A call whose page gives it up has failed, and drifts on if the server may have it.
LEMMA DroppedSound ==
    ASSUME NEW call, SoundCall(call), IsOpen(call)
    PROVE  SoundCall(Dropped(call)) /\ View(Dropped(call)) = [state |-> "failed", applied |-> call.applied]
  <1>1. CASE call.step = "sent"
    <2> DEFINE dropped == [call EXCEPT !.step = "failed", !.adrift = TRUE, !.again = FALSE]
    <2>1. Dropped(call) = dropped
      BY <1>1 DEF Dropped
    <2>2. IsCall(dropped) /\ dropped.step = "failed" /\ dropped.adrift = TRUE /\ dropped.applied = call.applied
      BY DEF SoundCall, IsCall, CallFields
    <2> HIDE DEF dropped
    <2>5. call.applied = 0
      BY <1>1 DEF SoundCall
    <2> QED
      BY <2>1, <2>2, <2>5 DEF SoundCall, View, IsOpen
  <1>2. CASE call.step # "sent"
    BY <1>2, OverSound DEF Dropped, SoundCall
  <1> QED
    BY <1>1, <1>2

LEMMA CallTimesOutKeeps ==
    ASSUME CallsInv, NEW c \in Calls, CallTimesOut(c)
    PROVE  CallsInv' /\ [Remote!Next]_Views
  <1>1. SoundCall(calls[c]) /\ IsOpen(calls[c])
    BY DEF CallsInv, CallTimesOut, IsOpen
  <1>2. calls' = [calls EXCEPT ![c] = Dropped(calls[c])]
    BY DEF CallTimesOut
  <1>3. View(calls[c]) = [state |-> "open", applied |-> calls[c].applied]
    BY <1>1 DEF View
  <1>4. Failed(View(calls[c]), View(Dropped(calls[c]))) /\ SoundCall(Dropped(calls[c]))
    BY <1>1, <1>3, DroppedSound DEF Failed
  <1> QED
    BY <1>2, <1>4, OneCall DEF MovesAsPromised

\* The server serves a request once: one that is answered is no longer sent, one adrift is forgotten.
LEMMA ServeCallKeeps ==
    ASSUME CallsInv, NEW c \in Calls, ServeCall(c)
    PROVE  CallsInv' /\ [Remote!Next]_Views
  <1>1. SoundCall(calls[c])
    BY DEF CallsInv
  <1>2. calls[c].applied = 0 /\ calls[c].step \in {"sent", "failed"} /\ (calls[c].adrift <=> calls[c].step = "failed")
    BY <1>1 DEF ServeCall, SoundCall
  <1>3. PICK status, session :
         /\ status \in Answers(calls[c])
         /\ calls' = [calls EXCEPT ![c] =
                            IF calls[c].adrift
                            THEN Over([calls[c] EXCEPT !.applied = IF status = "ok" THEN @ + 1 ELSE @], "failed")
                            ELSE [[calls[c] EXCEPT !.applied = IF status = "ok" THEN @ + 1 ELSE @]
                                     EXCEPT !.step = "answered", !.status = status, !.session = session]]
    BY DEF ServeCall
  <1> DEFINE applied == IF status = "ok" THEN 1 ELSE 0
             served  == [calls[c] EXCEPT !.applied = IF status = "ok" THEN @ + 1 ELSE @]
             call    == IF calls[c].adrift THEN Over(served, "failed")
                        ELSE [served EXCEPT !.step = "answered", !.status = status, !.session = session]
  <1>4. IsCall(served) /\ served.applied = applied /\ served.adrift = calls[c].adrift
    BY <1>1, <1>2 DEF SoundCall, IsCall, CallFields
  <1>5. calls' = [calls EXCEPT ![c] = call]
    BY <1>3
  <1> HIDE DEF served, applied
  <1>6. applied \in {0, 1} /\ (applied = 1 <=> status = "ok")
    BY DEF applied
  <1>7. CASE calls[c].adrift
    <2>1. served.applied = applied /\ call = Over(served, "failed")
      BY <1>4, <1>7
    <2>2. SoundCall(call) /\ View(call) = [state |-> "failed", applied |-> applied]
      BY <1>6, <2>1, OverSound
    <2>3. View(calls[c]) = [state |-> "failed", applied |-> 0]
      BY <1>2, <1>7 DEF View, IsOpen
    <2>4. MovesAsPromised(View(calls[c]), View(call))
      BY <1>6, <2>2, <2>3 DEF MovesAsPromised, Served
    <2> QED
      BY <1>5, <2>2, <2>4, OneCall
  <1>8. CASE ~calls[c].adrift
    <2>1. call = [served EXCEPT !.step = "answered", !.status = status, !.session = session]
      BY <1>8
    <2>2. /\ IsCall(call)
          /\ call.step = "answered" /\ call.status = status /\ call.adrift = calls[c].adrift /\ call.applied = applied
      BY <1>4, <2>1 DEF IsCall, CallFields
    <2> HIDE DEF call
    <2>5. SoundCall(call) /\ View(call) = [state |-> "open", applied |-> applied]
      BY <1>1, <1>6, <1>8, <2>2 DEF SoundCall, View, IsOpen
    <2>6. View(calls[c]) = [state |-> "open", applied |-> 0]
      BY <1>2, <1>8 DEF View, IsOpen
    <2>7. MovesAsPromised(View(calls[c]), View(call))
      BY <1>6, <2>5, <2>6 DEF MovesAsPromised, Served
    <2> QED
      BY <1>5, <2>5, <2>7, OneCall DEF call
  <1> QED
    BY <1>7, <1>8

\* What the headers of an answer lead to is no step for the page.
LEMMA CallArrivesKeeps ==
    ASSUME CallsInv, NEW c \in Calls, CallArrives(c)
    PROVE  CallsInv' /\ [Remote!Next]_Views
  <1>1. SoundCall(calls[c]) /\ calls[c].step = "answered" /\ IsOpen(calls[c])
    BY DEF CallsInv, CallArrives, IsOpen
  <1>2. View(calls[c]) = [state |-> "open", applied |-> calls[c].applied]
    BY <1>1 DEF View
  <1>3. CASE Unauthorized(c)
    <2>1. PICK awaited : calls' = [calls EXCEPT ![c] = [calls[c] EXCEPT !.step = "waiting", !.awaits = awaited]]
      BY <1>3 DEF Unauthorized
    <2> DEFINE call == [calls[c] EXCEPT !.step = "waiting", !.awaits = awaited]
    <2>2. /\ IsCall(call)
          /\ call.step = "waiting" /\ call.adrift = calls[c].adrift /\ call.applied = calls[c].applied
      BY <1>1 DEF SoundCall, IsCall, CallFields
    <2> HIDE DEF call
    <2>3. calls[c].applied = 0 /\ calls[c].adrift = FALSE
      BY <1>1, <1>3 DEF SoundCall, Unauthorized
    <2>6. SoundCall(call) /\ View(call) = [state |-> "open", applied |-> 0]
      BY <2>2, <2>3 DEF SoundCall, View, IsOpen
    <2> QED
      BY <1>2, <2>1, <2>3, <2>6, OneCall DEF MovesAsPromised, call
  <1>4. CASE Answered(c)
    <2> DEFINE call == [calls[c] EXCEPT !.step = "reading", !.session = 0]
    <2>1. calls' = [calls EXCEPT ![c] = call]
      BY <1>4 DEF Answered
    <2>2. /\ IsCall(call) /\ call.status = calls[c].status
          /\ call.step = "reading" /\ call.adrift = calls[c].adrift /\ call.applied = calls[c].applied
      BY <1>1 DEF SoundCall, IsCall, CallFields
    <2> HIDE DEF call
    <2>3. SoundCall(call) /\ View(call) = [state |-> "open", applied |-> calls[c].applied]
      BY <1>1, <2>2 DEF SoundCall, View, IsOpen
    <2> QED
      BY <1>2, <2>1, <2>3, OneCall DEF MovesAsPromised
  <1> QED
    BY <1>3, <1>4 DEF CallArrives

\* A body ends its call.
LEMMA ReadBodyKeeps ==
    ASSUME CallsInv, NEW c \in Calls, ReadBody(c)
    PROVE  CallsInv' /\ [Remote!Next]_Views
  <1>1. SoundCall(calls[c]) /\ calls[c].step = "reading" /\ IsOpen(calls[c])
    BY DEF CallsInv, ReadBody, IsOpen
  <1>2. View(calls[c]) = [state |-> "open", applied |-> calls[c].applied]
    BY <1>1 DEF View
  <1>3. PICK step \in {"ok", "failed"} :
           calls' = [calls EXCEPT ![c] = Over(calls[c], step)] /\ (step = "ok" => calls[c].status = "ok")
    BY DEF ReadBody
  <1>4. calls[c].applied \in {0, 1} /\ (step = "ok" => calls[c].applied = 1)
    BY <1>1, <1>3 DEF SoundCall
  <1>5. SoundCall(Over(calls[c], step)) /\ View(Over(calls[c], step)) = [state |-> step, applied |-> calls[c].applied]
    BY <1>4, OverSound
  <1>6. MovesAsPromised(View(calls[c]), View(Over(calls[c], step)))
    BY <1>2, <1>4, <1>5 DEF MovesAsPromised, Resolved, Failed
  <1> QED
    BY <1>3, <1>5, <1>6, OneCall

LEMMA StartKeeps ==
    ASSUME CallsInv, NEW t \in Tabs, NEW c \in Calls, Fetch(t, c) \/ Login(t, c)
    PROVE  CallsInv' /\ [Remote!Next]_Views
  <1>1. SoundCall(calls[c]) /\ calls[c].step = "idle" /\ calls[c].applied = 0 /\ calls[c].adrift = FALSE
    BY DEF CallsInv, Fetch, Login, SoundCall
  <1>2. PICK endpoint : Sends(c, endpoint, t)
    BY DEF Fetch, Login
  <1> DEFINE call == [calls[c] EXCEPT !.step = "sent", !.endpoint = endpoint, !.tab = t, !.token = tabs[t].token]
  <1>3. IsCall(call) /\ call.step = "sent" /\ call.adrift = calls[c].adrift /\ call.applied = calls[c].applied
    BY <1>1 DEF SoundCall, IsCall, CallFields
  <1>4. calls' = [calls EXCEPT ![c] = call]
    BY <1>2 DEF Sends
  <1> HIDE DEF call
  <1>7. SoundCall(call) /\ View(call) = [state |-> "open", applied |-> 0]
    BY <1>1, <1>3 DEF SoundCall, View, IsOpen
  <1>8. View(calls[c]) = [state |-> "idle", applied |-> 0]
    BY <1>1 DEF View, IsOpen
  <1>9. MovesAsPromised(View(calls[c]), View(call))
    BY <1>7, <1>8 DEF MovesAsPromised, Started
  <1> QED
    BY <1>4, <1>7, <1>9, OneCall

----------------------------------------------------------------------------
(* Steps of several calls.                                                 *)

\* Calls that are sent again after a refresh have moved for no page.
LEMMA SentAgain ==
    ASSUME CallsInv, NEW again \in SUBSET Calls, \A c \in again : calls[c].step = "waiting",
           calls' = [c \in Calls |->
                        IF c \in again
                        THEN [calls[c] EXCEPT !.step = "sent", !.token = TRUE, !.again = TRUE, !.awaits = NoOne,
                                              !.status = "none"]
                        ELSE calls[c]]
    PROVE  CallsInv' /\ [Remote!Next]_Views
  <1>1. ASSUME NEW c \in Calls
        PROVE  SoundCall(calls'[c]) /\ View(calls'[c]) = View(calls[c])
    <2>1. SoundCall(calls[c])
      BY DEF CallsInv
    <2>2. CASE c \in again
      <3> DEFINE call == [calls[c] EXCEPT !.step = "sent", !.token = TRUE, !.again = TRUE, !.awaits = NoOne,
                                          !.status = "none"]
      <3>1. calls'[c] = call
        BY <2>2
      <3>2. IsCall(call) /\ call.step = "sent" /\ call.adrift = calls[c].adrift /\ call.applied = calls[c].applied
        BY <2>1 DEF SoundCall, IsCall, CallFields
      <3> HIDE DEF call
      <3> QED
        BY <2>1, <2>2, <3>1, <3>2 DEF SoundCall, View, IsOpen
    <2>3. CASE c \notin again
      <3>1. calls'[c] = calls[c]
        BY <2>3
      <3> QED
        BY <2>1, <3>1
    <2> QED
      BY <2>2, <2>3
  <1>2. CallsInv'
    BY <1>1 DEF CallsInv
  <1>3. Views' = Views
    BY <1>1 DEF Views
  <1> QED
    BY <1>2, <1>3

\* When a session ends, calls that waited for it expire, and others of the tab are dropped.
LEMMA SessionEnds ==
    ASSUME CallsInv, NEW expired \in SUBSET Calls, NEW dropped \in SUBSET Calls,
           \A c \in expired : calls[c].step = "waiting", \A c \in dropped : IsOpen(calls[c]),
           calls' = [c \in Calls |-> IF c \in expired THEN Over(calls[c], "expired")
                                     ELSE IF c \in dropped THEN Dropped(calls[c])
                                     ELSE calls[c]]
    PROVE  CallsInv' /\ [Remote!Next]_Views
  <1>1. ASSUME NEW c \in Calls
        PROVE  /\ SoundCall(calls'[c])
               /\ View(calls'[c]) = IF c \in expired THEN [View(calls[c]) EXCEPT !.state = "expired"]
                                    ELSE IF c \in dropped THEN [View(calls[c]) EXCEPT !.state = "failed"]
                                    ELSE View(calls[c])
    <2>1. SoundCall(calls[c])
      BY DEF CallsInv
    <2>2. \A state : [View(calls[c]) EXCEPT !.state = state] = [state |-> state, applied |-> calls[c].applied]
      BY DEF View
    <2>3. CASE c \in expired
      <3>1. calls'[c] = Over(calls[c], "expired")
        BY <2>3
      <3> QED
        BY <2>1, <2>2, <2>3, <3>1, OverSound DEF SoundCall
    <2>4. CASE c \notin expired /\ c \in dropped
      <3>1. calls'[c] = Dropped(calls[c])
        BY <2>4
      <3> QED
        BY <2>1, <2>2, <2>4, <3>1, DroppedSound
    <2>5. CASE c \notin expired \cup dropped
      <3>1. calls'[c] = calls[c]
        BY <2>5
      <3> QED
        BY <2>1, <2>5, <3>1
    <2> QED
      BY <2>3, <2>4, <2>5
  <1>2. CallsInv'
    BY <1>1 DEF CallsInv
  <1>3. Remote!Expire
    <2>1. /\ \A c \in expired : Views[c].applied = 0
          /\ \A c \in expired \cup dropped : Views[c].state = "open"
      BY DEF Views, View, IsOpen, CallsInv, SoundCall
    <2>2. Views' = [c \in Calls |-> IF c \in expired THEN [Views[c] EXCEPT !.state = "expired"]
                                   ELSE IF c \in dropped THEN [Views[c] EXCEPT !.state = "failed"]
                                   ELSE Views[c]]
      BY <1>1 DEF Views
    <2> QED
      BY <2>1, <2>2 DEF Remote!Expire, Views, View
  <1> QED
    BY <1>2, <1>3 DEF Remote!Next

LEMMA Untouched ==
    ASSUME CallsInv, calls' = calls
    PROVE  CallsInv' /\ [Remote!Next]_Views
  BY DEF CallsInv, Views

LEMMA NotRefreshedKeeps ==
    ASSUME CallsInv, NEW o \in Starters, NotRefreshed(o)
    PROVE  CallsInv' /\ [Remote!Next]_Views
  <1> DEFINE waiting == {c \in Calls : calls[c].step = "waiting" /\ calls[c].awaits = o}
             dropped == {c \in Calls : waiting # {} /\ calls[c].tab = TabOf(o) /\ IsOpen(calls[c])}
  <1>1. calls' = [c \in Calls |-> IF c \in waiting THEN Over(calls[c], "expired")
                                  ELSE IF c \in dropped THEN Dropped(calls[c])
                                  ELSE calls[c]]
    BY DEF NotRefreshed
  <1>2. /\ waiting \in SUBSET Calls /\ \A c \in waiting : calls[c].step = "waiting"
        /\ dropped \in SUBSET Calls /\ \A c \in dropped : IsOpen(calls[c])
    OBVIOUS
  <1> HIDE DEF waiting, dropped
  <1> QED
    BY <1>1, <1>2, SessionEnds

LEMMA RefreshArrivesKeeps ==
    ASSUME CallsInv, NEW o \in Starters, RefreshArrives(o)
    PROVE  CallsInv' /\ [Remote!Next]_Views
  BY NotRefreshedKeeps, Untouched DEF RefreshArrives

LEMMA ReadTokenKeeps ==
    ASSUME CallsInv, NEW o \in Starters, ReadToken(o)
    PROVE  CallsInv' /\ [Remote!Next]_Views
  <1>1. CASE Refreshed(o)
    <2> DEFINE again == {c \in Calls : calls[c].step = "waiting" /\ calls[c].awaits = o}
    <2>1. calls' = [c \in Calls |->
                       IF c \in again
                       THEN [calls[c] EXCEPT !.step = "sent", !.token = TRUE, !.again = TRUE, !.awaits = NoOne,
                                             !.status = "none"]
                       ELSE calls[c]]
      BY <1>1 DEF Refreshed
    <2>2. again \in SUBSET Calls /\ \A c \in again : calls[c].step = "waiting"
      OBVIOUS
    <2> HIDE DEF again
    <2> QED
      BY <2>1, <2>2, SentAgain
  <1>2. CASE NotRefreshed(o)
    BY <1>2, NotRefreshedKeeps
  <1> QED
    BY <1>1, <1>2 DEF ReadToken

LEMMA LoadKeeps ==
    ASSUME CallsInv, NEW t \in Tabs, Load(t)
    PROVE  CallsInv' /\ [Remote!Next]_Views
  <1> DEFINE dropped == {c \in Calls : calls[c].tab = t /\ IsOpen(calls[c])}
  <1>1. calls' = [c \in Calls |-> IF c \in {} THEN Over(calls[c], "expired")
                                  ELSE IF c \in dropped THEN Dropped(calls[c])
                                  ELSE calls[c]]
    BY DEF Load
  <1>2. dropped \in SUBSET Calls /\ \A c \in dropped : IsOpen(calls[c])
    OBVIOUS
  <1> DEFINE nobody == {c \in Calls : FALSE}
  <1>3. nobody \in SUBSET Calls /\ (\A c \in nobody : calls[c].step = "waiting") /\ nobody = {}
    OBVIOUS
  <1>4. calls' = [c \in Calls |-> IF c \in nobody THEN Over(calls[c], "expired")
                                  ELSE IF c \in dropped THEN Dropped(calls[c])
                                  ELSE calls[c]]
    BY <1>1, <1>3
  <1> HIDE DEF dropped, nobody
  <1> QED
    BY <1>2, <1>3, <1>4, SessionEnds

----------------------------------------------------------------------------

LEMMA InitSound == Init => CallsInv /\ Remote!Init
  <1> SUFFICES ASSUME Init
               PROVE  CallsInv /\ Remote!Init
    OBVIOUS
  <1>1. calls = [c \in Calls |-> NoCallYet]
    BY DEF Init
  <1>2. NoCallYet.step = "idle" /\ NoCallYet.applied = 0 /\ NoCallYet.adrift = FALSE
    BY DEF NoCallYet
  <1> HIDE DEF NoCallYet
  <1>3. SoundCall(NoCallYet) /\ View(NoCallYet) = [state |-> "idle", applied |-> 0]
    BY <1>2, NoCallIsCall DEF SoundCall, View, IsOpen
  <1>4. Views = [c \in Calls |-> [state |-> "idle", applied |-> 0]]
    BY <1>1, <1>3 DEF Views
  <1> QED
    BY <1>1, <1>3, <1>4 DEF CallsInv, Remote!Init, Views, View

LEMMA NextSound == CallsInv /\ [Next]_vars => CallsInv' /\ [Remote!Next]_Views
  <1> SUFFICES ASSUME CallsInv, [Next]_vars
               PROVE  CallsInv' /\ [Remote!Next]_Views
    OBVIOUS
  <1>1. CASE calls' = calls
    BY <1>1, Untouched
  <1>2. ASSUME NEW o \in Starters, RefreshArrives(o) \/ ReadToken(o) \/ RefreshTimesOut(o)
        PROVE  CallsInv' /\ [Remote!Next]_Views
    BY <1>2, RefreshArrivesKeeps, ReadTokenKeeps, NotRefreshedKeeps DEF RefreshTimesOut
  <1>3. ASSUME NEW c \in Calls, ServeCall(c) \/ CallArrives(c) \/ ReadBody(c) \/ CallTimesOut(c)
        PROVE  CallsInv' /\ [Remote!Next]_Views
    BY <1>3, ServeCallKeeps, CallArrivesKeeps, ReadBodyKeeps, CallTimesOutKeeps
  <1>4. ASSUME NEW t \in Tabs, Load(t) \/ \E c \in Calls : Fetch(t, c) \/ Login(t, c)
        PROVE  CallsInv' /\ [Remote!Next]_Views
    BY <1>4, LoadKeeps, StartKeeps
  <1> QED
    BY <1>1, <1>2, <1>3, <1>4
       DEF Next, Serves, ServeRefresh, RefuseRefresh, ServeStray, RetryRefresh, Visit, handleLogout, vars

\* What an answer, a wait and a drifting request say of whether a call was served: the inductive invariant.
THEOREM CallsInvariant == Spec => []CallsInv
  <1>1. Init => CallsInv
    BY InitSound
  <1>2. CallsInv /\ [Next]_vars => CallsInv'
    BY NextSound
  <1> QED
    BY <1>1, <1>2, PTL DEF Spec

\* request of utils/api.ts keeps its promise to the pages: over refreshes, repetitions, timeouts, lost answers and
\* reloads every call does what the abstract call may do, or nothing a page could see.
THEOREM ClientImplementsRemoteCalls == Spec => CallsKeepTheirPromise
  <1>1. Init => Remote!Init
    BY InitSound
  <1>2. CallsInv /\ [Next]_vars =>
            [Remote!Next]_([c \in Calls |->
                               [state |-> IF IsOpen(calls[c]) THEN "open" ELSE calls[c].step,
                                applied |-> calls[c].applied]])
    BY NextSound DEF Views, View
  <1> QED
    BY <1>1, <1>2, CallsInvariant, PTL DEF Spec, CallsKeepTheirPromise, Remote!Spec

----------------------------------------------------------------------------
(* The refreshes of one tab do not race each other for the cookie.         *)

Busy(o) == refresh[o].step # "none"

\* The form of the rows.
IsTab(tab) == tab = [field \in {"page", "isAuth", "token", "refreshPromise"} |-> tab[field]]

IsRefresh(row) == row = [field \in {"step", "session", "next", "retried"} |-> row[field]]

\* A call has a tab, and names a session only as a login that was answered.
CallRaces(call) ==
    /\ IsOpen(call) => call.tab \in Tabs
    /\ call.step \in {"idle", "sent", "waiting"} \/ call.endpoint # "login" => call.session = 0

SessionRows == [live : BOOLEAN, by : SUBSET Tabs]

RowsOf(rows) == rows \in Seq(SessionRows)

RaceForms ==
    /\ tabs = [t \in Tabs |-> tabs[t]] /\ \A t \in Tabs : IsTab(tabs[t])
    /\ refresh = [o \in Starters |-> refresh[o]]
    /\ \A o \in Starters : IsRefresh(refresh[o]) /\ refresh[o].session \in 0..Len(sessions)
    /\ \A c \in Calls : CallRaces(calls[c])
    /\ RowsOf(sessions)
    /\ cookie \in 0..Len(sessions)
    /\ strays \subseteq 1..Len(sessions)

\* A refresh under way is the one its tab waits for, and a call that started it waits for itself.
Promised ==
    \A o \in Starters : Busy(o) =>
        /\ TabOf(o) \in Tabs
        /\ tabs[TabOf(o)].refreshPromise = o
        /\ o \in Calls => calls[o].step = "waiting" /\ calls[o].awaits = o

\* The answers under way that will set the cookie to session n.
Rotates(o, n) == refresh[o].step = "rotated" /\ refresh[o].next = n

LogsIn(c, n) ==
    /\ calls[c].step = "answered" /\ calls[c].endpoint = "login" /\ calls[c].status = "ok"
    /\ calls[c].session = n

Brings(x, n) == Rotates(x, n) \/ (x \in Calls /\ LogsIn(x, n))

\* Nobody has the token of session n yet.
Fresh(n) ==
    /\ n \in 1..Len(sessions) /\ sessions[n].live
    /\ n # cookie /\ n \notin strays
    /\ \A o \in Starters : Busy(o) => refresh[o].session # n

Brought ==
    \A x \in Starters : \A n : Brings(x, n) => Fresh(n) /\ \A y \in Starters : Brings(y, n) => x = y

\* A token that a refresh of tab t used is not in the cookie unless the answer is still to come, and no other
\* refresh of the tab presents it.
SpentBy(n, t) ==
    /\ ~sessions[n].live
    /\ n = cookie => \E o \in Starters : refresh[o].step = "rotated" /\ refresh[o].session = n /\ TabOf(o) = t
    /\ \A o \in Starters : refresh[o].step \in {"sent", "conflict"} /\ TabOf(o) = t => refresh[o].session # n

Spent == \A n \in 1..Len(sessions) : \A t \in Tabs : sessions[n].by = {t} => SpentBy(n, t)

ConflictsNamed == \A o \in Starters : refresh[o].step = "conflict" => refresh[o].session # 0

RaceInv == RaceForms /\ Promised /\ Brought /\ Spent /\ ConflictsNamed

----------------------------------------------------------------------------

\* A refresh that goes on does so in its tab, and the call that waits for it waits on.
Stays(o) ==
    /\ Busy(o) /\ TabOf(o)' = TabOf(o)
    /\ tabs'[TabOf(o)].refreshPromise = tabs[TabOf(o)].refreshPromise
    /\ o \in Calls => calls'[o].step = calls[o].step /\ calls'[o].awaits = calls[o].awaits

\* No login is answered in the step.
NoNewLogin == \A c \in Calls : \A n : LogsIn(c, n)' => LogsIn(c, n)

\* Rows stay but for the tab that waits for an answer, which may give it up.
RowsStay ==
    /\ Len(sessions') = Len(sessions)
    /\ \A n \in 1..Len(sessions) : /\ sessions'[n].live = sessions[n].live
                                   /\ sessions'[n].by \in {sessions[n].by, {}}
    /\ strays' \subseteq strays \cup {refresh[o].session : o \in {p \in Starters : Busy(p)}}

\* The cookie changes only to what an answer brings, or is cleared.
CookieMoves ==
    cookie' = cookie \/ cookie' = 0 \/ \E x \in Starters : Brings(x, cookie') /\ \A n : ~Brings(x, n)'

LEMMA PromisedStays ==
    ASSUME Promised, \A o \in Starters : Busy(o)' => Stays(o)
    PROVE  Promised'
  BY DEF Promised, Stays

\* Refreshes end or wait, and answers arrive; nothing is sent and nothing served.
LEMMA Settles ==
    ASSUME RaceInv, RaceForms', NoNewLogin, RowsStay, CookieMoves,
           NEW over \in SUBSET Starters,
           \A o \in Starters \ over : refresh'[o] = refresh[o],
           \A o \in over : /\ refresh'[o].step \notin {"sent", "rotated", "conflict"}
                           /\ Busy(o)' => refresh'[o].session = refresh[o].session
                           /\ refresh[o].step = "rotated" /\ refresh[o].session # 0 =>
                                 sessions'[refresh[o].session].by = {} \/ cookie' # cookie,
           \A o \in Starters : Busy(o)' => Stays(o)
    PROVE  RaceInv'
  <1>1. Promised'
    BY PromisedStays DEF RaceInv
  <1>2. \A x \in Starters : \A n : Brings(x, n)' => Brings(x, n)
    BY DEF Brings, Rotates, NoNewLogin
  <1>3. ASSUME NEW x \in Starters, NEW n, Brings(x, n)'
        PROVE  Fresh(n)'
    <2>1. Brings(x, n) /\ Fresh(n)
      BY <1>2, <1>3 DEF RaceInv, Brought
    <2>2. n # cookie'
      <3>1. CASE cookie' = cookie \/ cookie' = 0
        BY <2>1, <3>1 DEF Fresh
      <3>2. CASE \E y \in Starters : Brings(y, cookie') /\ \A m : ~Brings(y, m)'
        <4>1. PICK y \in Starters : Brings(y, cookie') /\ \A m : ~Brings(y, m)'
          BY <3>2
        <4>2. n = cookie' => x = y
          BY <2>1, <4>1 DEF RaceInv, Brought
        <4> QED
          BY <1>3, <4>1, <4>2
      <3> QED
        BY <3>1, <3>2 DEF CookieMoves
    <2>3. \A o \in Starters : Busy(o)' => refresh'[o].session # n
      BY <2>1 DEF Fresh, Stays
    <2>4. n \notin strays'
      BY <2>1 DEF Fresh, RowsStay
    <2>5. n \in 1..Len(sessions)' /\ sessions'[n].live
      BY <2>1 DEF Fresh, RowsStay
    <2> QED
      BY <2>2, <2>3, <2>4, <2>5 DEF Fresh
  <1>4. Brought'
    BY <1>2, <1>3 DEF Brought, RaceInv
  <1>5. ASSUME NEW n \in 1..Len(sessions'), NEW t \in Tabs, sessions'[n].by = {t}
        PROVE  SpentBy(n, t)'
    <2>1. n \in 1..Len(sessions) /\ sessions[n].by = {t} /\ sessions'[n].live = sessions[n].live
      BY <1>5 DEF RowsStay
    <2>2. SpentBy(n, t)
      BY <2>1 DEF RaceInv, Spent
    <2>3. n = cookie' => \E o \in Starters : /\ refresh'[o].step = "rotated" /\ refresh'[o].session = n
                                             /\ TabOf(o)' = t
      <3> SUFFICES ASSUME n = cookie'
                   PROVE  \E o \in Starters : /\ refresh'[o].step = "rotated" /\ refresh'[o].session = n
                                              /\ TabOf(o)' = t
        OBVIOUS
      <3>1. cookie' = cookie
        <4>1. cookie' # 0
          BY DEF RowsStay
        <4>2. \A x \in Starters : ~Brings(x, n)
          BY <2>2 DEF RaceInv, Brought, Fresh, SpentBy
        <4> QED
          BY <4>1, <4>2 DEF CookieMoves
      <3>2. PICK o \in Starters : refresh[o].step = "rotated" /\ refresh[o].session = n /\ TabOf(o) = t
        BY <2>2, <3>1 DEF SpentBy
      <3>3. o \notin over
        BY <1>5, <3>1, <3>2
      <3>4. refresh'[o] = refresh[o] /\ Busy(o)'
        BY <3>2, <3>3 DEF Busy
      <3> QED
        BY <3>2, <3>4 DEF Stays
    <2>4. \A o \in Starters : refresh'[o].step \in {"sent", "conflict"} /\ TabOf(o)' = t => refresh'[o].session # n
      <3> SUFFICES ASSUME NEW o \in Starters, refresh'[o].step \in {"sent", "conflict"}, TabOf(o)' = t
                   PROVE  refresh'[o].session # n
        OBVIOUS
      <3>1. refresh'[o] = refresh[o] /\ Busy(o)'
        BY DEF Busy
      <3> QED
        BY <2>2, <3>1 DEF Stays, SpentBy
    <2> QED
      BY <2>1, <2>2, <2>3, <2>4 DEF SpentBy
  <1>6. Spent'
    BY <1>5 DEF Spent
  <1>7. ConflictsNamed'
    BY DEF RaceInv, ConflictsNamed
  <1> QED
    BY <1>1, <1>4, <1>6, <1>7 DEF RaceInv

\* Refresh o of tab t is sent with the token in the cookie; what other refresh the tab had is forgotten.
LEMMA Presents ==
    ASSUME RaceInv, RaceForms', NoNewLogin, RowsStay, cookie' = cookie,
           NEW o \in Starters, NEW t \in Tabs, TabOf(o) = t, TabOf(o)' = t,
           refresh'[o].step = "sent", refresh'[o].session = cookie,
           tabs'[t].refreshPromise = o, o \in Calls => calls'[o].step = "waiting" /\ calls'[o].awaits = o,
           \A p \in Starters \ {o} : Busy(p)' => refresh'[p] = refresh[p] /\ Stays(p),
           \A p \in Starters : Busy(p) /\ TabOf(p) # t => refresh'[p] = refresh[p],
           \A p \in Starters : refresh[p].step = "rotated" /\ refresh[p].session # 0 /\ TabOf(p) = t =>
                                 sessions'[refresh[p].session].by = {}
    PROVE  RaceInv'
  <1>1. Promised'
    BY DEF Promised, Stays, RaceInv
  <1>2. \A x \in Starters : \A n : Brings(x, n)' => Brings(x, n)
    BY DEF Brings, Rotates, NoNewLogin, Busy
  <1>3. ASSUME NEW x \in Starters, NEW n, Brings(x, n)'
        PROVE  Fresh(n)'
    <2>1. Brings(x, n) /\ Fresh(n)
      BY <1>2, <1>3 DEF RaceInv, Brought
    <2>3. \A p \in Starters : Busy(p)' => refresh'[p].session # n
      BY <2>1 DEF Fresh, Stays
    <2>4. n \notin strays'
      BY <2>1 DEF Fresh, RowsStay
    <2>5. n \in 1..Len(sessions)' /\ sessions'[n].live
      BY <2>1 DEF Fresh, RowsStay
    <2> QED
      BY <2>1, <2>3, <2>4, <2>5 DEF Fresh
  <1>4. Brought'
    BY <1>2, <1>3 DEF Brought, RaceInv
  <1>5. ASSUME NEW n \in 1..Len(sessions'), NEW u \in Tabs, sessions'[n].by = {u}
        PROVE  SpentBy(n, u)'
    <2>1. n \in 1..Len(sessions) /\ sessions[n].by = {u} /\ sessions'[n].live = sessions[n].live
      BY <1>5 DEF RowsStay
    <2>2. SpentBy(n, u)
      BY <2>1 DEF RaceInv, Spent
    <2>3. ASSUME NEW p \in Starters, refresh[p].step = "rotated", refresh[p].session = n, TabOf(p) = u
          PROVE  u # t /\ p # o /\ refresh'[p] = refresh[p] /\ TabOf(p)' = u
      <3>1. u # t
        <4>1. refresh[p].session # 0
          BY <2>1, <2>3
        <4>2. u = t => sessions'[n].by = {}
          BY <2>3, <4>1
        <4> QED
          BY <1>5, <4>2
      <3>2. p # o /\ refresh'[p] = refresh[p] /\ Busy(p)'
        BY <2>3, <3>1 DEF Busy
      <3> QED
        BY <2>3, <3>1, <3>2 DEF Stays
    <2>4. n = cookie => u # t
      BY <2>2, <2>3 DEF SpentBy
    <2>5. n = cookie' => \E p \in Starters : /\ refresh'[p].step = "rotated" /\ refresh'[p].session = n
                                             /\ TabOf(p)' = u
      BY <2>2, <2>3 DEF SpentBy
    <2>6. \A p \in Starters : refresh'[p].step \in {"sent", "conflict"} /\ TabOf(p)' = u => refresh'[p].session # n
      <3> SUFFICES ASSUME NEW p \in Starters, refresh'[p].step \in {"sent", "conflict"}, TabOf(p)' = u
                   PROVE  refresh'[p].session # n
        OBVIOUS
      <3>1. CASE p = o
        BY <2>4, <3>1
      <3>2. CASE p # o
        <4>1. refresh'[p] = refresh[p] /\ TabOf(p) = u
          BY <3>2 DEF Busy, Stays
        <4> QED
          BY <2>2, <4>1 DEF SpentBy
      <3> QED
        BY <3>1, <3>2
    <2> QED
      BY <2>1, <2>2, <2>5, <2>6 DEF SpentBy
  <1>6. Spent'
    BY <1>5 DEF Spent
  <1>7. ConflictsNamed'
    BY DEF RaceInv, ConflictsNamed, Busy
  <1> QED
    BY <1>1, <1>4, <1>6, <1>7 DEF RaceInv

LEMMA RefreshForms ==
    /\ IsRefresh(NoRefresh) /\ NoRefresh.step = "none" /\ NoRefresh.session = 0
    /\ \A retried : /\ IsRefresh(SentRefresh(retried))
                    /\ SentRefresh(retried).step = "sent" /\ SentRefresh(retried).session = cookie
  BY DEF IsRefresh, NoRefresh, SentRefresh

LEMMA OverRaces ==
    ASSUME NEW call, NEW step \in {"ok", "failed", "expired"}
    PROVE  CallRaces(Over(call, step)) /\ Over(call, step).step = step
  <1> DEFINE over == Over(call, step)
  <1>1. over.step = step /\ over.session = NoCallYet.session
    BY NoCallIsCall DEF Over, IsCall, CallFields
  <1>2. NoCallYet.session = 0
    BY DEF NoCallYet
  <1> HIDE DEF over
  <1>3. CallRaces(over)
    BY <1>1, <1>2 DEF CallRaces, IsOpen
  <1> QED
    BY <1>1, <1>3 DEF over

LEMMA DroppedRaces ==
    ASSUME NEW call, SoundCall(call), CallRaces(call)
    PROVE  CallRaces(Dropped(call)) /\ Dropped(call).step = "failed"
  <1>1. CASE call.step = "sent"
    <2> DEFINE dropped == [call EXCEPT !.step = "failed", !.adrift = TRUE, !.again = FALSE]
    <2>1. Dropped(call) = dropped
      BY <1>1 DEF Dropped
    <2>2. dropped.step = "failed" /\ dropped.session = call.session
      BY DEF SoundCall, IsCall, CallFields
    <2>3. call.session = 0
      BY <1>1 DEF CallRaces
    <2> HIDE DEF dropped
    <2> QED
      BY <2>1, <2>2, <2>3 DEF CallRaces, IsOpen
  <1>2. CASE call.step # "sent"
    BY <1>2, OverRaces DEF Dropped
  <1> QED
    BY <1>1, <1>2

\* A tab has one refresh.
LEMMA OneRefresh ==
    ASSUME Promised, NEW o \in Starters, NEW p \in Starters, Busy(o), Busy(p), TabOf(o) = TabOf(p)
    PROVE  o = p
  BY DEF Promised

\* Who the tab of a call is.
LEMMA TabOfStarter ==
    /\ \A t \in Tabs : TabOf(t) = t /\ t \notin Calls /\ t \in Starters
    /\ \A c \in Calls : TabOf(c) = calls[c].tab /\ TabOf(c)' = calls'[c].tab /\ c \notin Tabs /\ c \in Starters
    /\ \A t \in Tabs : TabOf(t)' = t
  BY StartersAssumption DEF TabOf, Starters

\* A call that is no different is in no other tab.
LEMMA CallStays ==
    ASSUME NEW o \in Starters, Busy(o), o \in Calls => calls'[o] = calls[o],
           tabs'[TabOf(o)].refreshPromise = tabs[TabOf(o)].refreshPromise
    PROVE  Stays(o)
  BY TabOfStarter DEF Stays, Starters

\* The refresh of o is over, for better or worse.
Ends(o) ==
    /\ tabs' = [t \in Tabs |-> tabs'[t]] /\ \A t \in Tabs : IsTab(tabs'[t])
    /\ refresh' = [refresh EXCEPT ![o] = NoRefresh]
    /\ \A c \in Calls : CallRaces(calls'[c])
    /\ NoNewLogin
    /\ \A p \in Starters : Busy(p)' => Stays(p)

LEMMA EndedRefresh ==
    ASSUME RaceForms, NEW o \in Starters, refresh' = [refresh EXCEPT ![o] = NoRefresh],
           Len(sessions') = Len(sessions)
    PROVE  /\ refresh' = [p \in Starters |-> refresh'[p]]
           /\ refresh'[o] = NoRefresh /\ ~Busy(o)'
           /\ \A p \in Starters \ {o} : refresh'[p] = refresh[p] /\ (Busy(p)' <=> Busy(p))
           /\ \A p \in Starters : IsRefresh(refresh'[p]) /\ refresh'[p].session \in 0..Len(sessions')
  BY RefreshForms DEF RaceForms, Busy

LEMMA RefreshedEnds ==
    ASSUME CallsInv, RaceInv, NEW o \in Starters, Busy(o), Refreshed(o)
    PROVE  Ends(o)
  <1> DEFINE t == TabOf(o)
  <1>0. t \in Tabs /\ Promised /\ RaceForms
    BY DEF RaceInv, Promised
  <1>1. \A u \in Tabs : IsTab(tabs'[u]) /\ (u # t => tabs'[u] = tabs[u])
    BY <1>0 DEF Refreshed, RaceForms, IsTab
  <1>2. tabs' = [u \in Tabs |-> tabs'[u]]
    BY <1>0 DEF Refreshed, RaceForms
  <1>3. ASSUME NEW c \in Calls
        PROVE  /\ CallRaces(calls'[c])
               /\ \A n : LogsIn(c, n)' => LogsIn(c, n)
               /\ calls[c].awaits # o => calls'[c] = calls[c]
    <2>1. SoundCall(calls[c]) /\ CallRaces(calls[c])
      BY <1>0 DEF CallsInv, RaceForms
    <2>2. CASE calls[c].step = "waiting" /\ calls[c].awaits = o
      <3> DEFINE call == [calls[c] EXCEPT !.step = "sent", !.token = TRUE, !.again = TRUE, !.awaits = NoOne,
                                          !.status = "none"]
      <3>1. calls'[c] = call
        BY <2>2 DEF Refreshed
      <3>2. call.step = "sent" /\ call.tab = calls[c].tab /\ call.session = calls[c].session
        BY <2>1 DEF SoundCall, IsCall, CallFields
      <3> HIDE DEF call
      <3> QED
        BY <2>1, <2>2, <3>1, <3>2 DEF CallRaces, IsOpen, LogsIn
    <2>3. CASE ~(calls[c].step = "waiting" /\ calls[c].awaits = o)
      <3>1. calls'[c] = calls[c]
        BY <2>3 DEF Refreshed
      <3> QED
        BY <2>1, <3>1 DEF LogsIn
    <2> QED
      BY <2>2, <2>3
  <1>4. ASSUME NEW p \in Starters, Busy(p)'
        PROVE  Stays(p)
    <2>1. refresh' = [refresh EXCEPT ![o] = NoRefresh]
      BY DEF Refreshed
    <2>2. p # o /\ Busy(p)
      BY <1>0, <1>4, <2>1, RefreshForms DEF Busy, RaceForms
    <2>3. TabOf(p) # t /\ TabOf(p) \in Tabs
      BY <1>0, <2>2, OneRefresh DEF Promised
    <2>4. p \in Calls => calls'[p] = calls[p]
      BY <1>0, <1>3, <2>2 DEF Promised
    <2> QED
      BY <1>1, <2>2, <2>3, <2>4, CallStays
  <1> QED
    BY <1>1, <1>2, <1>3, <1>4 DEF Ends, NoNewLogin, Refreshed

LEMMA NotRefreshedEnds ==
    ASSUME CallsInv, RaceInv, NEW o \in Starters, Busy(o), NotRefreshed(o)
    PROVE  Ends(o)
  <1> DEFINE t       == TabOf(o)
             waiting == {c \in Calls : calls[c].step = "waiting" /\ calls[c].awaits = o}
  <1>0. t \in Tabs /\ Promised /\ RaceForms
    BY DEF RaceInv, Promised
  <1>1. \A u \in Tabs : IsTab(tabs'[u]) /\ (u # t => tabs'[u] = tabs[u])
    <2>1. IsTab(Loaded("login"))
      BY DEF IsTab, Loaded
    <2>2. IsTab([tabs[t] EXCEPT !.token = FALSE, !.refreshPromise = NoOne])
      BY <1>0 DEF IsTab, RaceForms
    <2>3. /\ \A u \in Tabs \ {t} : tabs'[u] = tabs[u]
          /\ tabs'[t] = Loaded("login") \/ tabs'[t] = [tabs[t] EXCEPT !.token = FALSE, !.refreshPromise = NoOne]
      BY <1>0 DEF NotRefreshed, RaceForms
    <2> QED
      BY <1>0, <2>1, <2>2, <2>3 DEF RaceForms
  <1>2. tabs' = [u \in Tabs |-> tabs'[u]]
    BY <1>0 DEF NotRefreshed, RaceForms
  <1>3. ASSUME NEW c \in Calls
        PROVE  /\ CallRaces(calls'[c])
               /\ \A n : LogsIn(c, n)' => LogsIn(c, n)
               /\ calls[c].awaits # o /\ calls[c].tab # t => calls'[c] = calls[c]
    <2>1. SoundCall(calls[c]) /\ CallRaces(calls[c])
      BY <1>0 DEF CallsInv, RaceForms
    <2>2. CASE c \in waiting
      <3>1. calls'[c] = Over(calls[c], "expired")
        BY <2>2 DEF NotRefreshed
      <3>2. CallRaces(calls'[c]) /\ calls'[c].step = "expired"
        BY <3>1, OverRaces
      <3> QED
        BY <2>2, <3>2 DEF LogsIn
    <2>3. CASE c \notin waiting /\ waiting # {} /\ calls[c].tab = t /\ IsOpen(calls[c])
      <3>1. calls'[c] = Dropped(calls[c])
        BY <2>3 DEF NotRefreshed
      <3>2. CallRaces(calls'[c]) /\ calls'[c].step = "failed"
        BY <2>1, <3>1, DroppedRaces
      <3> QED
        BY <2>3, <3>2 DEF LogsIn
    <2>4. CASE c \notin waiting /\ ~(waiting # {} /\ calls[c].tab = t /\ IsOpen(calls[c]))
      <3>1. calls'[c] = calls[c]
        BY <2>4 DEF NotRefreshed
      <3> QED
        BY <2>1, <3>1 DEF LogsIn
    <2> QED
      BY <2>2, <2>3, <2>4
  <1>4. ASSUME NEW p \in Starters, Busy(p)'
        PROVE  Stays(p)
    <2>1. refresh' = [refresh EXCEPT ![o] = NoRefresh]
      BY DEF NotRefreshed
    <2>2. p # o /\ Busy(p)
      BY <1>0, <1>4, <2>1, RefreshForms DEF Busy, RaceForms
    <2>3. TabOf(p) # t /\ TabOf(p) \in Tabs
      BY <1>0, <2>2, OneRefresh DEF Promised
    <2>4. p \in Calls => calls'[p] = calls[p]
      BY <1>0, <1>3, <2>2, <2>3, TabOfStarter DEF Promised
    <2> QED
      BY <1>1, <2>2, <2>3, <2>4, CallStays
  <1> QED
    BY <1>1, <1>2, <1>3, <1>4 DEF Ends, NoNewLogin, NotRefreshed

LEMMA RowsUnchanged ==
    ASSUME RaceForms, sessions' = sessions, strays' = strays
    PROVE  RowsStay /\ RowsOf(sessions') /\ strays' \subseteq 1..Len(sessions')
  BY DEF RaceForms, RowsStay

\* What a tab that gives up does to the rows.
LEMMA GivenUpRows ==
    ASSUME RaceForms, NEW starters \in SUBSET Starters, \A o \in starters : Busy(o), GivenUp(starters)
    PROVE  /\ RowsStay /\ RowsOf(sessions') /\ strays' \subseteq 1..Len(sessions')
           /\ \A o \in starters : refresh[o].step = "rotated" /\ refresh[o].session # 0 =>
                                     sessions'[refresh[o].session].by = {}
  <1> DEFINE given(n) == \E o \in starters : refresh[o].step = "rotated" /\ refresh[o].session = n
  <1>1. RowsOf(sessions) /\ DOMAIN sessions = 1..Len(sessions) /\ Len(sessions) \in Nat
    BY DEF RaceForms, RowsOf
  <1>2. sessions' = [n \in 1..Len(sessions) |->
                       IF given(n) THEN [sessions[n] EXCEPT !.by = {}] ELSE sessions[n]]
    BY <1>1 DEF GivenUp
  <1>3. ASSUME NEW n \in 1..Len(sessions)
        PROVE  /\ sessions'[n] \in SessionRows
               /\ sessions'[n].live = sessions[n].live
               /\ sessions'[n].by \in {sessions[n].by, {}}
               /\ given(n) => sessions'[n].by = {}
    <2> HIDE DEF given
    <2>1. sessions[n] \in SessionRows
      BY <1>1 DEF RowsOf
    <2>2. sessions'[n] = IF given(n) THEN [sessions[n] EXCEPT !.by = {}] ELSE sessions[n]
      BY <1>2
    <2>3. CASE given(n)
      <3>1. sessions'[n] = [sessions[n] EXCEPT !.by = {}]
        BY <2>2, <2>3
      <3> QED
        BY <2>1, <3>1 DEF SessionRows
    <2>4. CASE ~given(n)
      <3>1. sessions'[n] = sessions[n]
        BY <2>2, <2>4
      <3> QED
        BY <2>1, <2>4, <3>1
    <2> QED
      BY <2>3, <2>4
  <1>4. RowsOf(sessions') /\ Len(sessions') = Len(sessions)
    <2> HIDE DEF given
    <2>1. sessions' \in [1..Len(sessions) -> SessionRows]
      BY <1>2, <1>3
    <2>2. sessions' \in Seq(SessionRows)
      BY <1>1, <2>1
    <2> QED
      BY <1>1, <2>1, <2>2 DEF RowsOf
  <1>5. strays' \subseteq strays \cup {refresh[o].session : o \in {p \in Starters : Busy(p)}}
    BY DEF GivenUp
  <1>6. strays' \subseteq 1..Len(sessions')
    <2>1. \A o \in starters : refresh[o].session \in 0..Len(sessions)
      BY DEF RaceForms
    <2>2. strays \subseteq 1..Len(sessions)
      BY DEF RaceForms
    <2> QED
      BY <1>1, <1>4, <2>1, <2>2 DEF GivenUp
  <1>7. \A o \in starters : refresh[o].step = "rotated" /\ refresh[o].session # 0 => sessions'[refresh[o].session].by = {}
    <2> SUFFICES ASSUME NEW o \in starters, refresh[o].step = "rotated", refresh[o].session # 0
                 PROVE  sessions'[refresh[o].session].by = {}
      OBVIOUS
    <2>1. refresh[o].session \in 1..Len(sessions)
      BY <1>1 DEF RaceForms
    <2>2. given(refresh[o].session)
      OBVIOUS
    <2> QED
      BY <1>3, <2>1, <2>2
  <1> QED
    BY <1>3, <1>4, <1>5, <1>6, <1>7 DEF RowsStay

\* A refresh that is over takes its session with it or leaves the cookie on.
LEMMA EndsKeeps ==
    ASSUME RaceInv, NEW o \in Starters, Ends(o), RowsStay, RowsOf(sessions'), strays' \subseteq 1..Len(sessions'),
           cookie' \in 0..Len(sessions'), CookieMoves,
           refresh[o].step = "rotated" /\ refresh[o].session # 0 =>
               sessions'[refresh[o].session].by = {} \/ cookie' # cookie
    PROVE  RaceInv'
  <1>1. RaceForms /\ Len(sessions') = Len(sessions)
    BY DEF RaceInv, RowsStay
  <1>2. /\ refresh' = [p \in Starters |-> refresh'[p]]
        /\ refresh'[o] = NoRefresh /\ ~Busy(o)'
        /\ \A p \in Starters \ {o} : refresh'[p] = refresh[p]
        /\ \A p \in Starters : IsRefresh(refresh'[p]) /\ refresh'[p].session \in 0..Len(sessions')
    BY <1>1, EndedRefresh DEF Ends
  <1>3. RaceForms'
    BY <1>2 DEF RaceForms, Ends
  <1>4. PICK over \in SUBSET Starters : over = {o}
    OBVIOUS
  <1>5. refresh'[o].step \notin {"sent", "rotated", "conflict"}
    BY <1>2, RefreshForms
  <1>6. \A p \in Starters \ over : refresh'[p] = refresh[p]
    BY <1>2, <1>4
  <1>7. \A p \in over : /\ refresh'[p].step \notin {"sent", "rotated", "conflict"}
                        /\ Busy(p)' => refresh'[p].session = refresh[p].session
                        /\ refresh[p].step = "rotated" /\ refresh[p].session # 0 =>
                              sessions'[refresh[p].session].by = {} \/ cookie' # cookie
    BY <1>2, <1>4, <1>5
  <1>8. NoNewLogin /\ \A p \in Starters : Busy(p)' => Stays(p)
    BY DEF Ends
  <1> QED
    BY <1>3, <1>6, <1>7, <1>8, Settles

LEMMA RefreshTimesOutRaces ==
    ASSUME CallsInv, RaceInv, NEW o \in Starters, RefreshTimesOut(o)
    PROVE  RaceInv'
  <1>1. Busy(o) /\ RaceForms
    BY DEF RefreshTimesOut, Busy, RaceInv
  <1>2. PICK starters \in SUBSET Starters : starters = {o}
    OBVIOUS
  <1>3. /\ RowsStay /\ RowsOf(sessions') /\ strays' \subseteq 1..Len(sessions')
        /\ refresh[o].step = "rotated" /\ refresh[o].session # 0 => sessions'[refresh[o].session].by = {}
    BY <1>1, <1>2, GivenUpRows DEF RefreshTimesOut
  <1>4. cookie' = cookie /\ cookie' \in 0..Len(sessions')
    BY <1>1, <1>3 DEF RefreshTimesOut, RowsStay, RaceForms
  <1> QED
    BY <1>1, <1>3, <1>4, NotRefreshedEnds, EndsKeeps DEF RefreshTimesOut, CookieMoves

\* A refresh that changes its own row alone, and presents nothing.
LEMMA RefreshChanges ==
    ASSUME RaceInv, NEW o \in Starters, Busy(o), NEW step \in {"pause", "refused", "body"},
           refresh' = [refresh EXCEPT ![o].step = step], refresh[o].step = "rotated" => cookie' # cookie,
           CookieMoves, cookie' \in 0..Len(sessions),
           tabs' = tabs, calls' = calls, sessions' = sessions, strays' = strays
    PROVE  RaceInv'
  <1>1. RaceForms /\ RowsStay /\ RowsOf(sessions') /\ strays' \subseteq 1..Len(sessions')
    BY RowsUnchanged DEF RaceInv
  <1>2. /\ refresh'[o] = [refresh[o] EXCEPT !.step = step]
        /\ \A p \in Starters \ {o} : refresh'[p] = refresh[p]
        /\ refresh' = [p \in Starters |-> refresh'[p]]
    BY <1>1 DEF RaceForms
  <1>3. IsRefresh(refresh'[o]) /\ refresh'[o].step = step /\ refresh'[o].session = refresh[o].session
    BY <1>1, <1>2 DEF RaceForms, IsRefresh
  <1>4. RaceForms'
    BY <1>1, <1>2, <1>3 DEF RaceForms
  <1>5. \A p \in Starters : Busy(p)' => Stays(p)
    <2>1. \A p \in Starters : Busy(p)' => Busy(p)
      BY <1>2 DEF Busy
    <2>2. \A p \in Starters : Busy(p) => Stays(p)
      BY CallStays
    <2> QED
      BY <2>1, <2>2
  <1>6. NoNewLogin
    BY DEF NoNewLogin, LogsIn
  <1>7. PICK over \in SUBSET Starters : over = {o}
    OBVIOUS
  <1>8. \A p \in Starters \ over : refresh'[p] = refresh[p]
    BY <1>2, <1>7
  <1>9. \A p \in over : /\ refresh'[p].step \notin {"sent", "rotated", "conflict"}
                        /\ Busy(p)' => refresh'[p].session = refresh[p].session
                        /\ refresh[p].step = "rotated" /\ refresh[p].session # 0 =>
                              sessions'[refresh[p].session].by = {} \/ cookie' # cookie
    BY <1>3, <1>7
  <1> QED
    BY <1>1, <1>4, <1>5, <1>6, <1>8, <1>9, Settles

\* The headers of a refresh: a new session brings its cookie, and what is refused is over or tried again.
LEMMA RefreshArrivesRaces ==
    ASSUME CallsInv, RaceInv, NEW o \in Starters, RefreshArrives(o)
    PROVE  RaceInv'
  <1>1. RaceForms /\ sessions' = sessions /\ strays' = strays
    BY DEF RefreshArrives, RaceInv
  <1>2. RowsStay /\ RowsOf(sessions') /\ strays' \subseteq 1..Len(sessions') /\ Busy(o)
    BY <1>1, RowsUnchanged DEF RefreshArrives, TriesAgain, Busy
  <1>3. CASE refresh[o].step = "rotated"
    <2>1. refresh' = [refresh EXCEPT ![o].step = "body"] /\ UNCHANGED <<tabs, calls>> /\ cookie' = refresh[o].next
      BY <1>3 DEF RefreshArrives, TriesAgain
    <2>2. Brings(o, cookie')
      BY <1>3, <2>1 DEF Brings, Rotates
    <2>3. Fresh(cookie')
      BY <2>2 DEF RaceInv, Brought
    <2>4. \A n : ~Brings(o, n)'
      <3>1. refresh'[o].step = "body"
        BY <1>1, <2>1 DEF RaceForms, IsRefresh
      <3>2. o \in Calls => \A n : ~LogsIn(o, n)'
        BY <1>2, <2>1 DEF LogsIn, RaceInv, Promised
      <3> QED
        BY <3>1, <3>2 DEF Brings, Rotates
    <2>5. CookieMoves /\ cookie' # cookie /\ cookie' \in 0..Len(sessions)
      BY <1>1, <2>2, <2>3, <2>4 DEF CookieMoves, Fresh
    <2> QED
      BY <1>1, <1>2, <2>1, <2>5, RefreshChanges
  <1>4. CASE refresh[o].step # "rotated"
    <2>1. cookie' = cookie \/ cookie' = 0
      BY <1>4 DEF RefreshArrives
    <2>2. CookieMoves /\ cookie' \in 0..Len(sessions) /\ cookie' \in 0..Len(sessions')
      BY <1>1, <2>1 DEF CookieMoves, RaceForms, RowsOf
    <2>3. CASE refresh' = [refresh EXCEPT ![o].step = "pause"] /\ UNCHANGED <<tabs, calls>>
      BY <1>1, <1>2, <1>4, <2>2, <2>3, RefreshChanges
    <2>4. CASE NotRefreshed(o)
      BY <1>2, <1>4, <2>2, <2>4, NotRefreshedEnds, EndsKeeps
    <2> QED
      BY <1>4, <2>3, <2>4 DEF RefreshArrives
  <1> QED
    BY <1>3, <1>4

\* The body of a refresh that has brought its cookie.
LEMMA ReadTokenRaces ==
    ASSUME CallsInv, RaceInv, NEW o \in Starters, ReadToken(o)
    PROVE  RaceInv'
  <1>1. RaceForms /\ UNCHANGED <<cookie, sessions, strays>> /\ Busy(o) /\ refresh[o].step # "rotated"
    BY DEF ReadToken, RaceInv, Busy
  <1>2. RowsStay /\ RowsOf(sessions') /\ strays' \subseteq 1..Len(sessions')
    BY <1>1, RowsUnchanged
  <1>3. Ends(o)
    BY <1>1, RefreshedEnds, NotRefreshedEnds DEF ReadToken
  <1>4. CookieMoves /\ cookie' \in 0..Len(sessions')
    BY <1>1 DEF CookieMoves, RaceForms
  <1> QED
    BY <1>1, <1>2, <1>3, <1>4, EndsKeeps

LEMMA RefuseRefreshRaces ==
    ASSUME RaceInv, NEW o \in Starters, RefuseRefresh(o)
    PROVE  RaceInv'
  BY RefreshChanges DEF RefuseRefresh, Busy, CookieMoves, RaceInv, RaceForms

LEMMA RetryRefreshRaces ==
    ASSUME RaceInv, NEW o \in Starters, RetryRefresh(o)
    PROVE  RaceInv'
  <1>1. RaceForms /\ Promised /\ Busy(o) /\ refresh[o].step = "pause"
    BY DEF RetryRefresh, RaceInv, Busy
  <1>2. RowsStay /\ RowsOf(sessions') /\ strays' \subseteq 1..Len(sessions')
    BY <1>1, RowsUnchanged DEF RetryRefresh
  <1>3. /\ refresh'[o] = SentRefresh(TRUE)
        /\ \A p \in Starters \ {o} : refresh'[p] = refresh[p]
        /\ refresh' = [p \in Starters |-> refresh'[p]]
    BY <1>1 DEF RetryRefresh, RaceForms
  <1>4. IsRefresh(refresh'[o]) /\ refresh'[o].step = "sent" /\ refresh'[o].session = cookie
    BY <1>3, RefreshForms
  <1>5. tabs' = tabs /\ calls' = calls /\ cookie' = cookie /\ sessions' = sessions
    BY DEF RetryRefresh
  <1>6. RaceForms'
    BY <1>1, <1>2, <1>3, <1>4, <1>5 DEF RaceForms
  <1>7. \A p \in Starters \ {o} : Busy(p)' => refresh'[p] = refresh[p] /\ Stays(p)
    <2>1. \A p \in Starters \ {o} : Busy(p)' => Busy(p)
      BY <1>3 DEF Busy
    <2>2. \A p \in Starters : Busy(p) => Stays(p)
      BY <1>5, CallStays
    <2> QED
      BY <1>3, <2>1, <2>2
  <1>8. PICK t : t = TabOf(o)
    OBVIOUS
  <1>9. t \in Tabs /\ TabOf(o)' = t
    BY <1>1, <1>5, <1>8 DEF Promised, TabOf
  <1>10. tabs'[t].refreshPromise = o /\ (o \in Calls => calls'[o].step = "waiting" /\ calls'[o].awaits = o)
    BY <1>1, <1>5, <1>8 DEF Promised
  <1>11. \A p \in Starters : Busy(p) /\ TabOf(p) # t => refresh'[p] = refresh[p]
    BY <1>3, <1>8
  <1>12. \A p \in Starters : ~(refresh[p].step = "rotated" /\ TabOf(p) = t)
    BY <1>1, <1>8, OneRefresh DEF Busy
  <1>13. NoNewLogin
    BY <1>5 DEF NoNewLogin, LogsIn
  <1> QED
    BY <1>2, <1>4, <1>5, <1>6, <1>7, <1>8, <1>9, <1>10, <1>11, <1>12, <1>13, Presents

\* Nobody is served or refreshed: pages and calls go on, and an answer to a login may set the cookie.
LEMMA RefreshesStay ==
    ASSUME RaceInv, refresh' = refresh, sessions' = sessions, strays' = strays,
           tabs' = [t \in Tabs |-> tabs'[t]],
           \A t \in Tabs : IsTab(tabs'[t]) /\ tabs'[t].refreshPromise = tabs[t].refreshPromise,
           \A c \in Calls : \/ calls'[c] = calls[c]
                            \/ /\ ~Busy(c) /\ CallRaces(calls'[c])
                               /\ ~(calls'[c].step = "answered" /\ calls'[c].endpoint = "login" /\ calls'[c].status = "ok"),
           CookieMoves, cookie' \in 0..Len(sessions)
    PROVE  RaceInv'
  <1>1. RaceForms /\ Promised
    BY DEF RaceInv
  <1>2. RowsStay /\ RowsOf(sessions') /\ strays' \subseteq 1..Len(sessions')
    BY <1>1, RowsUnchanged
  <1>3. RaceForms'
    BY <1>1, <1>2 DEF RaceForms
  <1>4. NoNewLogin
    BY DEF NoNewLogin, LogsIn
  <1>5. \A o \in Starters : Busy(o) => Stays(o)
    BY <1>1, CallStays DEF Promised
  <1>6. \A o \in Starters : Busy(o)' => Stays(o)
    BY <1>5 DEF Busy
  <1>7. PICK over \in SUBSET Starters : over = {}
    OBVIOUS
  <1>8. \A o \in Starters \ over : refresh'[o] = refresh[o]
    OBVIOUS
  <1> QED
    BY <1>2, <1>3, <1>4, <1>6, <1>7, <1>8, Settles

\* Only a call that waits has started a refresh.
LEMMA BusyWaits ==
    ASSUME RaceInv, NEW c \in Calls, calls[c].step # "waiting"
    PROVE  ~Busy(c)
  BY TabOfStarter DEF RaceInv, Promised

LEMMA CallTimesOutRaces ==
    ASSUME CallsInv, RaceInv, NEW c \in Calls, CallTimesOut(c)
    PROVE  RaceInv'
  <1>1. RaceForms /\ SoundCall(calls[c]) /\ CallRaces(calls[c]) /\ ~Busy(c)
    BY BusyWaits DEF RaceInv, RaceForms, CallsInv, CallTimesOut
  <1>2. calls'[c] = Dropped(calls[c]) /\ \A d \in Calls \ {c} : calls'[d] = calls[d]
    BY DEF CallTimesOut, CallsInv
  <1>3. CallRaces(calls'[c]) /\ calls'[c].step = "failed"
    BY <1>1, <1>2, DroppedRaces
  <1> QED
    BY <1>1, <1>2, <1>3, RefreshesStay DEF CallTimesOut, CookieMoves, RaceForms

LEMMA StartRaces ==
    ASSUME CallsInv, RaceInv, NEW t \in Tabs, NEW c \in Calls, Fetch(t, c) \/ Login(t, c)
    PROVE  RaceInv'
  <1>1. RaceForms /\ SoundCall(calls[c]) /\ CallRaces(calls[c]) /\ ~Busy(c) /\ calls[c].step = "idle"
    BY BusyWaits DEF RaceInv, RaceForms, CallsInv, Fetch, Login
  <1>2. PICK endpoint : Sends(c, endpoint, t)
    BY DEF Fetch, Login
  <1> DEFINE call == [calls[c] EXCEPT !.step = "sent", !.endpoint = endpoint, !.tab = t, !.token = tabs[t].token]
  <1>3. calls'[c] = call /\ \A d \in Calls \ {c} : calls'[d] = calls[d]
    BY <1>2 DEF Sends, CallsInv
  <1>4. call.step = "sent" /\ call.tab = t /\ call.session = calls[c].session
    BY <1>1 DEF SoundCall, IsCall, CallFields
  <1> HIDE DEF call
  <1>5. CallRaces(calls'[c]) /\ calls'[c].step = "sent"
    BY <1>1, <1>3, <1>4 DEF CallRaces
  <1>6. UNCHANGED <<tabs, refresh, cookie, sessions, strays>>
    BY DEF Fetch, Login
  <1> QED
    BY <1>1, <1>3, <1>5, <1>6, RefreshesStay DEF CookieMoves, RaceForms

LEMMA VisitedForm ==
    ASSUME NEW t \in Tabs, NEW page
    PROVE  IsTab(Visited(t, page)) /\ Visited(t, page).refreshPromise = tabs[t].refreshPromise
  BY DEF Visited, Loaded, IsTab

\* The tab goes to another page, with the refresh it has.
LEMMA TabMoves ==
    ASSUME RaceForms, NEW t \in Tabs, NEW tab, IsTab(tab), tabs' = [tabs EXCEPT ![t] = tab]
    PROVE  /\ tabs' = [u \in Tabs |-> tabs'[u]] /\ \A u \in Tabs : IsTab(tabs'[u])
           /\ tabs'[t] = tab /\ \A u \in Tabs \ {t} : tabs'[u] = tabs[u]
  BY DEF RaceForms

LEMMA HandleLogoutRaces ==
    ASSUME RaceInv, NEW t \in Tabs, handleLogout(t)
    PROVE  RaceInv'
  <1> DEFINE tab == [Visited(t, "login") EXCEPT !.token = FALSE]
  <1>1. RaceForms /\ tabs' = [tabs EXCEPT ![t] = tab]
    BY DEF handleLogout, RaceInv
  <1>2. IsTab(tab) /\ tab.refreshPromise = tabs[t].refreshPromise
    BY VisitedForm DEF IsTab
  <1> HIDE DEF tab
  <1>3. /\ tabs' = [u \in Tabs |-> tabs'[u]]
        /\ \A u \in Tabs : IsTab(tabs'[u]) /\ tabs'[u].refreshPromise = tabs[u].refreshPromise
    BY <1>1, <1>2, TabMoves
  <1> QED
    BY <1>1, <1>3, RefreshesStay DEF handleLogout, CookieMoves, RaceForms

\* Headers that may have brought the cookie.
LEMMA AnsweredRaces ==
    ASSUME CallsInv, RaceInv, NEW c \in Calls, CallArrives(c), Answered(c)
    PROVE  RaceInv'
  <1>1. /\ RaceForms /\ SoundCall(calls[c]) /\ CallRaces(calls[c]) /\ ~Busy(c) /\ calls[c].step = "answered"
        /\ calls[c].tab \in Tabs
    BY BusyWaits DEF RaceInv, RaceForms, CallArrives, CallRaces, IsOpen, CallsInv
  <1> DEFINE call == [calls[c] EXCEPT !.step = "reading", !.session = 0]
  <1>2. calls'[c] = call /\ \A d \in Calls \ {c} : calls'[d] = calls[d]
    BY DEF Answered, CallsInv
  <1>3. call.step = "reading" /\ call.session = 0 /\ call.tab = calls[c].tab
    BY <1>1 DEF SoundCall, IsCall, CallFields
  <1> HIDE DEF call
  <1>4. CallRaces(calls'[c]) /\ calls'[c].step # "answered"
    BY <1>1, <1>2, <1>3 DEF CallRaces
  <1>5. tabs' = tabs /\ refresh' = refresh /\ sessions' = sessions /\ strays' = strays
    BY DEF Answered, CallArrives
  <1>6. CookieMoves /\ cookie' \in 0..Len(sessions)
    <2>1. CASE calls[c].endpoint = "login" /\ calls[c].status = "ok"
      <3>1. cookie' = calls[c].session
        BY <2>1 DEF Answered
      <3>2. Brings(c, cookie') /\ c \in Starters
        BY <1>1, <2>1, <3>1, TabOfStarter DEF Brings, LogsIn
      <3>3. \A n : ~Brings(c, n)'
        BY <1>1, <1>4, <1>5 DEF Brings, LogsIn, Rotates, Busy
      <3>4. Fresh(cookie')
        BY <3>2 DEF RaceInv, Brought
      <3> QED
        BY <1>1, <3>2, <3>3, <3>4 DEF CookieMoves, Fresh, RaceForms, RowsOf
    <2>2. CASE ~(calls[c].endpoint = "login" /\ calls[c].status = "ok")
      BY <1>1, <2>2 DEF Answered, CookieMoves, RaceForms
    <2> QED
      BY <2>1, <2>2
  <1> QED
    BY <1>1, <1>2, <1>4, <1>5, <1>6, RefreshesStay DEF RaceForms

\* A body that ends its call, and may log its tab in.
LEMMA ReadBodyRaces ==
    ASSUME CallsInv, RaceInv, NEW c \in Calls, ReadBody(c)
    PROVE  RaceInv'
  <1>1. RaceForms /\ CallRaces(calls[c]) /\ ~Busy(c) /\ calls[c].step = "reading" /\ calls[c].tab \in Tabs
    BY BusyWaits DEF RaceInv, RaceForms, ReadBody, CallRaces, IsOpen
  <1>2. PICK step \in {"ok", "failed", "expired"} : calls' = [calls EXCEPT ![c] = Over(calls[c], step)]
    BY DEF ReadBody
  <1>3. calls'[c] = Over(calls[c], step) /\ \A d \in Calls \ {c} : calls'[d] = calls[d]
    BY <1>2 DEF CallsInv
  <1>4. CallRaces(calls'[c]) /\ calls'[c].step # "answered"
    BY <1>3, OverRaces
  <1>5. /\ tabs' = [u \in Tabs |-> tabs'[u]]
        /\ \A u \in Tabs : IsTab(tabs'[u]) /\ tabs'[u].refreshPromise = tabs[u].refreshPromise
    <2>1. CASE tabs' = tabs
      BY <1>1, <2>1 DEF RaceForms
    <2>2. CASE tabs' = LoginSucceeds(calls[c].tab)
      <3> DEFINE tab == [Visited(calls[c].tab, "work") EXCEPT !.token = TRUE, !.isAuth = "yes"]
      <3>1. tabs' = [tabs EXCEPT ![calls[c].tab] = tab]
        BY <2>2 DEF LoginSucceeds
      <3>2. IsTab(tab) /\ tab.refreshPromise = tabs[calls[c].tab].refreshPromise
        BY <1>1, VisitedForm DEF IsTab
      <3> HIDE DEF tab
      <3> QED
        BY <1>1, <3>1, <3>2, TabMoves
    <2> QED
      BY <2>1, <2>2 DEF ReadBody
  <1>6. UNCHANGED <<refresh, cookie, sessions, strays>>
    BY DEF ReadBody
  <1> QED
    BY <1>1, <1>3, <1>4, <1>5, <1>6, RefreshesStay DEF CookieMoves, RaceForms

\* A tab without a refresh starts one.
LEMMA StartedRefresh ==
    ASSUME RaceInv, NEW o \in Starters, NEW t \in Tabs, StartsRefresh(t), TabOf(o) = t, TabOf(o)' = t,
           refresh' = [refresh EXCEPT ![o] = SentRefresh(FALSE)],
           tabs' = [u \in Tabs |-> tabs'[u]], \A u \in Tabs : IsTab(tabs'[u]),
           tabs'[t].refreshPromise = o, \A u \in Tabs \ {t} : tabs'[u] = tabs[u],
           \A c \in Calls : /\ calls'[c] = calls[c] \/ (c = o /\ calls'[c].step = "waiting" /\ calls'[c].awaits = o)
                            /\ CallRaces(calls'[c]),
           o \in Calls => calls'[o].step = "waiting" /\ calls'[o].awaits = o,
           UNCHANGED <<cookie, sessions, strays>>
    PROVE  RaceInv'
  <1>1. RaceForms /\ Promised
    BY DEF RaceInv
  <1>2. RowsStay /\ RowsOf(sessions') /\ strays' \subseteq 1..Len(sessions')
    BY <1>1, RowsUnchanged
  <1>3. \A p \in Starters : Busy(p) => TabOf(p) \in Tabs \ {t}
    BY <1>1, StartersAssumption DEF Promised, StartsRefresh, Starters
  <1>4. /\ refresh'[o] = SentRefresh(FALSE) /\ \A p \in Starters \ {o} : refresh'[p] = refresh[p]
        /\ refresh' = [p \in Starters |-> refresh'[p]]
    BY <1>1 DEF RaceForms
  <1>5. IsRefresh(refresh'[o]) /\ refresh'[o].step = "sent" /\ refresh'[o].session = cookie
    BY <1>4, RefreshForms
  <1>6. RaceForms'
    BY <1>1, <1>2, <1>4, <1>5 DEF RaceForms
  <1>7. NoNewLogin
    BY DEF NoNewLogin, LogsIn
  <1>8. \A p \in Starters \ {o} : Busy(p)' => refresh'[p] = refresh[p] /\ Stays(p)
    <2> SUFFICES ASSUME NEW p \in Starters \ {o}, Busy(p)'
                 PROVE  refresh'[p] = refresh[p] /\ Stays(p)
      OBVIOUS
    <2>1. refresh'[p] = refresh[p] /\ Busy(p)
      BY <1>4 DEF Busy
    <2>2. (p \in Calls => calls'[p] = calls[p]) /\ tabs'[TabOf(p)].refreshPromise = tabs[TabOf(p)].refreshPromise
      BY <1>3, <2>1
    <2> QED
      BY <2>1, <2>2, CallStays
  <1>9. \A p \in Starters : Busy(p) /\ TabOf(p) # t => refresh'[p] = refresh[p]
    BY <1>4
  <1>10. \A p \in Starters : ~(refresh[p].step = "rotated" /\ TabOf(p) = t)
    BY <1>3 DEF Busy
  <1> QED
    BY <1>2, <1>5, <1>6, <1>7, <1>8, <1>9, <1>10, Presents

LEMMA UnauthorizedRaces ==
    ASSUME CallsInv, RaceInv, NEW c \in Calls, CallArrives(c), Unauthorized(c)
    PROVE  RaceInv'
  <1>1. RaceForms /\ CallRaces(calls[c]) /\ SoundCall(calls[c]) /\ ~Busy(c) /\ calls[c].step = "answered"
    BY BusyWaits DEF RaceInv, RaceForms, CallArrives, CallsInv
  <1>2. PICK t : t = calls[c].tab
    OBVIOUS
  <1>3. PICK awaited : awaited = refreshTokens(t, c)
    OBVIOUS
  <1> DEFINE call == [calls[c] EXCEPT !.step = "waiting", !.awaits = awaited]
             tab  == [tabs[t] EXCEPT !.refreshPromise = awaited]
  <1>4. t \in Tabs
    BY <1>1, <1>2 DEF CallRaces, IsOpen
  <1>5. /\ calls'[c] = call /\ \A d \in Calls \ {c} : calls'[d] = calls[d]
        /\ tabs' = [tabs EXCEPT ![t] = tab]
    BY <1>2, <1>3 DEF Unauthorized, CallsInv
  <1>6. /\ call.step = "waiting" /\ call.tab = t /\ call.session = calls[c].session /\ call.endpoint = calls[c].endpoint
        /\ call.awaits = awaited
    BY <1>1, <1>2 DEF SoundCall, IsCall, CallFields
  <1>7. IsTab(tab) /\ tab.refreshPromise = awaited
    BY <1>1, <1>4 DEF RaceForms, IsTab
  <1> HIDE DEF call, tab
  <1>8. /\ tabs' = [u \in Tabs |-> tabs'[u]] /\ \A u \in Tabs : IsTab(tabs'[u])
        /\ tabs'[t].refreshPromise = awaited /\ \A u \in Tabs \ {t} : tabs'[u] = tabs[u]
    BY <1>1, <1>4, <1>5, <1>7, TabMoves
  <1>9. calls[c].endpoint = "data"
    BY DEF Unauthorized, canAttemptRefresh
  <1>10. \A d \in Calls : CallRaces(calls'[d])
    BY <1>1, <1>4, <1>5, <1>6, <1>9 DEF CallRaces, RaceForms
  <1>11. UNCHANGED <<cookie, sessions, strays>>
    BY DEF Unauthorized, CallArrives
  <1>12. CASE StartsRefresh(t)
    <2>1. awaited = c /\ refresh' = [refresh EXCEPT ![c] = SentRefresh(FALSE)]
      BY <1>2, <1>3, <1>12 DEF refreshTokens, AfterRefreshTokens, Unauthorized
    <2>2. c \in Starters /\ TabOf(c) = t /\ TabOf(c)' = t
      BY <1>2, <1>5, <1>6, TabOfStarter
    <2>3. calls'[c].step = "waiting" /\ calls'[c].awaits = c
      BY <1>5, <1>6, <2>1
    <2> QED
      BY <1>4, <1>5, <1>8, <1>10, <1>11, <1>12, <2>1, <2>2, <2>3, StartedRefresh
  <1>13. CASE ~StartsRefresh(t)
    <2>1. awaited = tabs[t].refreshPromise /\ refresh' = refresh
      BY <1>2, <1>3, <1>13 DEF refreshTokens, AfterRefreshTokens, Unauthorized
    <2>2. \A u \in Tabs : tabs'[u].refreshPromise = tabs[u].refreshPromise
      BY <1>8, <2>1
    <2>3. calls'[c].step # "answered"
      BY <1>5, <1>6
    <2> QED
      BY <1>1, <1>5, <1>8, <1>10, <1>11, <2>1, <2>2, <2>3, RefreshesStay DEF CookieMoves, RaceForms
  <1> QED
    BY <1>12, <1>13

LEMMA VisitRaces ==
    ASSUME CallsInv, RaceInv, NEW t \in Tabs, Visit(t)
    PROVE  RaceInv'
  <1>1. RaceForms /\ UNCHANGED <<calls, cookie, sessions, strays>>
    BY DEF RaceInv, Visit
  <1>2. PICK entered : entered = Visited(t, "work")
    OBVIOUS
  <1>3. IsTab(entered) /\ entered.refreshPromise = tabs[t].refreshPromise
    BY <1>2, VisitedForm
  <1>4. Restores(t, entered)
    BY <1>2 DEF Visit
  <1>5. CASE entered.isAuth # "unknown"
    <2>1. tabs' = [tabs EXCEPT ![t] = entered] /\ refresh' = refresh
      BY <1>4, <1>5 DEF Restores
    <2>2. /\ tabs' = [u \in Tabs |-> tabs'[u]]
          /\ \A u \in Tabs : IsTab(tabs'[u]) /\ tabs'[u].refreshPromise = tabs[u].refreshPromise
      BY <1>1, <1>3, <2>1, TabMoves
    <2> QED
      BY <1>1, <2>1, <2>2, RefreshesStay DEF CookieMoves, RaceForms
  <1>6. CASE entered.isAuth = "unknown"
    <2> DEFINE tab == [entered EXCEPT !.refreshPromise = refreshTokens(t, t)]
    <2>1. tabs' = [tabs EXCEPT ![t] = tab] /\ refresh' = AfterRefreshTokens(t, t)
      BY <1>4, <1>6 DEF Restores
    <2>2. IsTab(tab) /\ tab.refreshPromise = refreshTokens(t, t)
      BY <1>3 DEF IsTab
    <2> HIDE DEF tab
    <2>3. /\ tabs' = [u \in Tabs |-> tabs'[u]] /\ \A u \in Tabs : IsTab(tabs'[u])
          /\ tabs'[t].refreshPromise = refreshTokens(t, t) /\ \A u \in Tabs \ {t} : tabs'[u] = tabs[u]
      BY <1>1, <2>1, <2>2, TabMoves
    <2>4. CASE StartsRefresh(t)
      <3>1. refreshTokens(t, t) = t /\ refresh' = [refresh EXCEPT ![t] = SentRefresh(FALSE)]
        BY <2>1, <2>4 DEF refreshTokens, AfterRefreshTokens
      <3>2. t \in Starters /\ t \notin Calls /\ TabOf(t) = t /\ TabOf(t)' = t
        BY TabOfStarter
      <3>3. \A c \in Calls : CallRaces(calls'[c])
        BY <1>1 DEF RaceForms
      <3> QED
        BY <1>1, <2>3, <2>4, <3>1, <3>2, <3>3, StartedRefresh
    <2>5. CASE ~StartsRefresh(t)
      <3>1. refreshTokens(t, t) = tabs[t].refreshPromise /\ refresh' = refresh
        BY <2>1, <2>5 DEF refreshTokens, AfterRefreshTokens
      <3>2. \A u \in Tabs : tabs'[u].refreshPromise = tabs[u].refreshPromise
        BY <2>3, <3>1
      <3> QED
        BY <1>1, <2>3, <3>1, <3>2, RefreshesStay DEF CookieMoves, RaceForms
    <2> QED
      BY <2>4, <2>5
  <1> QED
    BY <1>5, <1>6

\* A document that is loaded anew gives up the refresh of its tab and starts its own.
LEMMA LoadRaces ==
    ASSUME CallsInv, RaceInv, NEW t \in Tabs, Load(t)
    PROVE  RaceInv'
  <1> DEFINE mine == {o \in Starters : TabOf(o) = t /\ refresh[o].step # "none"}
  <1>1. RaceForms /\ Promised
    BY DEF RaceInv
  <1>2. mine \in SUBSET Starters /\ (\A o \in mine : Busy(o)) /\ GivenUp(mine)
    BY DEF Load, Busy
  <1>3. /\ RowsStay /\ RowsOf(sessions') /\ strays' \subseteq 1..Len(sessions')
        /\ \A o \in mine : refresh[o].step = "rotated" /\ refresh[o].session # 0 => sessions'[refresh[o].session].by = {}
    <2> HIDE DEF mine
    <2> QED
      BY <1>1, <1>2, GivenUpRows
  <1>4. t \in Starters /\ t \notin Calls /\ TabOf(t) = t /\ TabOf(t)' = t
    BY TabOfStarter
  <1> DEFINE tab == [Loaded("work") EXCEPT !.refreshPromise = t]
  <1>5. IsTab(tab) /\ tab.refreshPromise = t /\ tabs' = [tabs EXCEPT ![t] = tab]
    BY DEF IsTab, Loaded, Load
  <1> HIDE DEF tab
  <1>6. /\ tabs' = [u \in Tabs |-> tabs'[u]] /\ \A u \in Tabs : IsTab(tabs'[u])
        /\ tabs'[t].refreshPromise = t /\ \A u \in Tabs \ {t} : tabs'[u] = tabs[u]
    BY <1>1, <1>5, TabMoves
  <1>7. /\ refresh' = [o \in Starters |-> refresh'[o]]
        /\ refresh'[t] = SentRefresh(FALSE)
        /\ \A o \in Starters \ {t} : refresh'[o] = IF o \in mine THEN NoRefresh ELSE refresh[o]
    BY <1>4 DEF Load
  <1>8. IsRefresh(refresh'[t]) /\ refresh'[t].step = "sent" /\ refresh'[t].session = cookie
    BY <1>7, RefreshForms
  <1>9. ASSUME NEW c \in Calls
        PROVE  /\ CallRaces(calls'[c])
               /\ \A n : LogsIn(c, n)' => LogsIn(c, n)
               /\ calls[c].tab # t => calls'[c] = calls[c]
    <2>1. SoundCall(calls[c]) /\ CallRaces(calls[c])
      BY <1>1 DEF CallsInv, RaceForms
    <2>2. CASE calls[c].tab = t /\ IsOpen(calls[c])
      <3>1. calls'[c] = Dropped(calls[c])
        BY <2>2 DEF Load
      <3>2. CallRaces(calls'[c]) /\ calls'[c].step = "failed"
        BY <2>1, <3>1, DroppedRaces
      <3> QED
        BY <2>2, <3>2 DEF LogsIn
    <2>3. CASE ~(calls[c].tab = t /\ IsOpen(calls[c]))
      <3>1. calls'[c] = calls[c]
        BY <2>3 DEF Load
      <3> QED
        BY <2>1, <3>1 DEF LogsIn
    <2> QED
      BY <2>2, <2>3
  <1>10. cookie' = cookie
    BY DEF Load
  <1>11. RaceForms'
    <2>1. /\ \A o \in Starters : IsRefresh(refresh[o]) /\ refresh[o].session \in 0..Len(sessions')
          /\ cookie' \in 0..Len(sessions') /\ 0 \in 0..Len(sessions')
      BY <1>1, <1>3, <1>10 DEF RaceForms, RowsStay, RowsOf
    <2>2. ASSUME NEW o \in Starters
          PROVE  IsRefresh(refresh'[o]) /\ refresh'[o].session \in 0..Len(sessions')
      <3>1. CASE o = t
        BY <1>8, <1>10, <2>1, <3>1
      <3>2. CASE o # t /\ o \in mine
        <4>1. refresh'[o] = NoRefresh
          BY <1>7, <3>2
        <4> QED
          BY <2>1, <4>1, RefreshForms
      <3>3. CASE o # t /\ o \notin mine
        <4>1. refresh'[o] = refresh[o]
          BY <1>7, <3>3
        <4> QED
          BY <2>1, <4>1
      <3> QED
        BY <3>1, <3>2, <3>3
    <2> HIDE DEF mine
    <2> QED
      BY <1>3, <1>6, <1>7, <1>9, <2>1, <2>2 DEF RaceForms
  <1>12. \A p \in Starters \ {t} : Busy(p)' => refresh'[p] = refresh[p] /\ Stays(p)
    <2> SUFFICES ASSUME NEW p \in Starters \ {t}, Busy(p)'
                 PROVE  refresh'[p] = refresh[p] /\ Stays(p)
      OBVIOUS
    <2>1. p \notin mine /\ refresh'[p] = refresh[p]
      BY <1>7, RefreshForms DEF Busy
    <2>2. Busy(p) /\ TabOf(p) # t
      BY <2>1 DEF Busy
    <2>3. TabOf(p) \in Tabs /\ (p \in Calls => calls'[p] = calls[p])
      BY <1>1, <1>9, <2>2, TabOfStarter DEF Promised
    <2> QED
      BY <1>6, <2>1, <2>2, <2>3, CallStays
  <1>13. \A p \in Starters : Busy(p) /\ TabOf(p) # t => refresh'[p] = refresh[p]
    BY <1>4, <1>7
  <1>14. \A p \in Starters : refresh[p].step = "rotated" /\ refresh[p].session # 0 /\ TabOf(p) = t =>
                                sessions'[refresh[p].session].by = {}
    BY <1>3
  <1>15. NoNewLogin
    BY <1>9 DEF NoNewLogin
  <1> HIDE DEF mine
  <1> QED
    BY <1>3, <1>4, <1>6, <1>8, <1>10, <1>11, <1>12, <1>13, <1>14, <1>15, Presents

\* What the server answers with a new session, whose token nobody has but the bringer of the answer.
LEMMA BroughtBySession ==
    ASSUME RaceInv, Len(sessions') = Len(sessions) + 1, sessions'[Len(sessions) + 1].live,
           NEW s, s = 0 \/ s \in strays \/ \E o \in Starters : Busy(o) /\ refresh[o].session = s,
           \A n \in 1..Len(sessions) : n # s => sessions'[n] = sessions[n],
           cookie' = cookie, strays' \subseteq strays,
           \A o \in Starters : Busy(o)' => Busy(o) /\ refresh'[o].session = refresh[o].session,
           \A x \in Starters : \A n : Brings(x, n)' =>
               \/ Brings(x, n)
               \/ n = Len(sessions) + 1 /\ \A y \in Starters : Brings(y, n)' => x = y
    PROVE  Brought'
  <1>1. RaceForms /\ Len(sessions) \in Nat
    BY DEF RaceInv, RaceForms, RowsOf
  <1>2. \A x \in Starters : \A n : Brings(x, n) => Fresh(n)
    BY DEF RaceInv, Brought
  <1>3. ASSUME NEW x \in Starters, NEW n, Brings(x, n)'
        PROVE  Fresh(n)' /\ \A y \in Starters : Brings(y, n)' => x = y
    <2>1. CASE Brings(x, n)
      <3>1. Fresh(n)
        BY <1>2, <2>1
      <3>2. n # s /\ n \in 1..Len(sessions) /\ sessions[n].live
        BY <1>1, <3>1 DEF Fresh
      <3>3. n \in 1..Len(sessions') /\ sessions'[n].live /\ n # Len(sessions) + 1
        BY <1>1, <3>2
      <3>4. n # cookie' /\ n \notin strays' /\ \A o \in Starters : Busy(o)' => refresh'[o].session # n
        BY <3>1 DEF Fresh
      <3>5. \A y \in Starters : Brings(y, n)' => x = y
        BY <2>1, <3>3 DEF RaceInv, Brought
      <3> QED
        BY <3>3, <3>4, <3>5 DEF Fresh
    <2>2. CASE ~Brings(x, n)
      <3>1. n = Len(sessions) + 1 /\ \A y \in Starters : Brings(y, n)' => x = y
        BY <1>3, <2>2
      <3>2. n \in 1..Len(sessions') /\ sessions'[n].live
        BY <1>1, <3>1
      <3>3. n # cookie' /\ n \notin strays'
        BY <1>1, <3>1 DEF RaceForms
      <3>4. \A o \in Starters : Busy(o)' => refresh'[o].session # n
        BY <1>1, <3>1 DEF RaceForms
      <3> QED
        BY <3>1, <3>2, <3>3, <3>4 DEF Fresh
    <2> QED
      BY <2>1, <2>2
  <1> QED
    BY <1>3 DEF Brought

\* The rows when session s was rotated, and a new one opened.
LEMMA RotatedRows ==
    ASSUME RaceForms, NEW s \in 1..Len(sessions), NEW by \in SUBSET Tabs,
           sessions' = Append([sessions EXCEPT ![s] = [live |-> FALSE, by |-> by]], Opened)
    PROVE  /\ RowsOf(sessions') /\ Len(sessions') = Len(sessions) + 1
           /\ sessions'[Len(sessions) + 1] = Opened
           /\ ~sessions'[s].live /\ sessions'[s].by = by
           /\ \A n \in 1..Len(sessions) : n # s => sessions'[n] = sessions[n]
  <1> DEFINE rows == [sessions EXCEPT ![s] = [live |-> FALSE, by |-> by]]
  <1>1. sessions \in Seq(SessionRows) /\ DOMAIN sessions = 1..Len(sessions) /\ Len(sessions) \in Nat
    BY DEF RaceForms, RowsOf
  <1>2. [live |-> FALSE, by |-> by] \in SessionRows /\ Opened \in SessionRows
    BY DEF SessionRows, Opened
  <1>3. rows \in Seq(SessionRows) /\ Len(rows) = Len(sessions)
    BY <1>1, <1>2
  <1>4. rows[s] = [live |-> FALSE, by |-> by] /\ \A n \in 1..Len(sessions) : n # s => rows[n] = sessions[n]
    BY <1>1
  <1>5. PICK old : old = rows
    OBVIOUS
  <1>6. sessions' = Append(old, Opened) /\ old \in Seq(SessionRows) /\ Len(old) = Len(sessions)
    BY <1>3, <1>5
  <1> HIDE DEF rows
  <1>7. sessions' \in Seq(SessionRows)
    BY <1>1, <1>2, <1>6
  <1>8. Len(sessions') = Len(sessions) + 1 /\ sessions'[Len(sessions) + 1] = Opened
    BY <1>1, <1>2, <1>6
  <1>9. \A n \in 1..Len(sessions) : sessions'[n] = old[n]
    <2>1. \A n \in 1..Len(old) : Append(old, Opened)[n] = old[n]
      BY <1>6
    <2> QED
      BY <1>6, <2>1
  <1>10. ~old[s].live /\ old[s].by = by /\ \A n \in 1..Len(sessions) : n # s => old[n] = sessions[n]
    BY <1>4, <1>5
  <1> QED
    BY <1>7, <1>8, <1>9, <1>10 DEF RowsOf

LEMMA OpenedRows ==
    ASSUME RaceForms, sessions' = Append(sessions, Opened)
    PROVE  /\ RowsOf(sessions') /\ Len(sessions') = Len(sessions) + 1
           /\ sessions'[Len(sessions) + 1] = Opened
           /\ \A n \in 1..Len(sessions) : sessions'[n] = sessions[n]
  <1>1. sessions \in Seq(SessionRows) /\ Len(sessions) \in Nat
    BY DEF RaceForms, RowsOf
  <1>2. Opened \in SessionRows
    BY DEF SessionRows, Opened
  <1> QED
    BY <1>1, <1>2 DEF RowsOf

\* A new session is nobody's.
LEMMA OpenedIsFree == Opened.live = TRUE /\ Opened.by = {}
  BY DEF Opened

\* The rows, when no refresh changes: what was spent stays so.
LEMMA SpentStays ==
    ASSUME RaceInv, refresh' = refresh, cookie' = cookie, Len(sessions') = Len(sessions) + 1,
           sessions'[Len(sessions) + 1] = Opened,
           \A n \in 1..Len(sessions) : sessions'[n] = sessions[n] \/ sessions'[n].by = {},
           \A o \in Starters : Busy(o) => TabOf(o)' = TabOf(o)
    PROVE  Spent' /\ ConflictsNamed'
  <1>1. Len(sessions) \in Nat
    BY DEF RaceInv, RaceForms, RowsOf
  <1>2. ASSUME NEW n \in 1..Len(sessions'), NEW t \in Tabs, sessions'[n].by = {t}
        PROVE  SpentBy(n, t)'
    <2>1. n \in 1..Len(sessions) /\ sessions'[n] = sessions[n]
      BY <1>1, <1>2, OpenedIsFree
    <2>2. SpentBy(n, t)
      BY <1>2, <2>1 DEF RaceInv, Spent
    <2>3. n = cookie => \E o \in Starters : /\ refresh[o].step = "rotated" /\ refresh[o].session = n
                                            /\ TabOf(o)' = t
      BY <2>2 DEF SpentBy, Busy
    <2>4. \A o \in Starters : refresh[o].step \in {"sent", "conflict"} /\ TabOf(o)' = t => refresh[o].session # n
      BY <2>2 DEF SpentBy, Busy
    <2> QED
      BY <2>1, <2>2, <2>3, <2>4 DEF SpentBy
  <1>3. Spent'
    BY <1>2 DEF Spent
  <1>4. ConflictsNamed'
    BY DEF RaceInv, ConflictsNamed
  <1> QED
    BY <1>3, <1>4

LEMMA ServeStrayRaces ==
    ASSUME RaceInv, NEW s \in strays, ServeStray(s)
    PROVE  RaceInv'
  <1>1. RaceForms /\ UNCHANGED <<tabs, refresh, calls, cookie>> /\ strays' \subseteq strays
    BY DEF RaceInv, ServeStray
  <1>2. s \in 1..Len(sessions) /\ Len(sessions) \in Nat
    BY <1>1 DEF RaceForms, RowsOf
  <1>3. \A o \in Starters : TabOf(o)' = TabOf(o) /\ (Busy(o)' <=> Busy(o))
    BY <1>1 DEF TabOf, Busy
  <1>4. \A x \in Starters : \A n : Brings(x, n)' <=> Brings(x, n)
    BY <1>1 DEF Brings, Rotates, LogsIn
  <1>5. Promised'
    BY <1>1, <1>3 DEF RaceInv, Promised
  <1>6. CASE Outcome(s) = "rotated"
    <2>1. PICK none \in SUBSET Tabs : none = {}
      OBVIOUS
    <2>2. sessions' = Append([sessions EXCEPT ![s] = [live |-> FALSE, by |-> none]], Opened)
      BY <1>6, <2>1 DEF ServeStray, AfterRefresh
    <2>3. /\ RowsOf(sessions') /\ Len(sessions') = Len(sessions) + 1
          /\ sessions'[Len(sessions) + 1] = Opened
          /\ ~sessions'[s].live /\ sessions'[s].by = none
          /\ \A n \in 1..Len(sessions) : n # s => sessions'[n] = sessions[n]
      BY <1>1, <1>2, <2>2, RotatedRows
    <2>4. RaceForms'
      BY <1>1, <1>2, <2>3 DEF RaceForms
    <2>5. Brought'
      BY <1>1, <1>3, <1>4, <2>3, OpenedIsFree, BroughtBySession
    <2>6. Spent' /\ ConflictsNamed'
      BY <1>1, <1>3, <2>1, <2>3, SpentStays
    <2> QED
      BY <1>5, <2>4, <2>5, <2>6 DEF RaceInv
  <1>7. CASE Outcome(s) # "rotated"
    <2>1. sessions' = sessions
      BY <1>7 DEF ServeStray, AfterRefresh
    <2>2. RaceForms' /\ RowsStay
      BY <1>1, <2>1 DEF RaceForms, RowsStay
    <2>3. NoNewLogin /\ CookieMoves
      BY <1>1 DEF NoNewLogin, LogsIn, CookieMoves
    <2>4. \A o \in Starters : Busy(o)' => Stays(o)
      BY <1>1, <1>3 DEF Stays
    <2>5. PICK over \in SUBSET Starters : over = {}
      OBVIOUS
    <2>6. \A o \in Starters \ over : refresh'[o] = refresh[o]
      BY <1>1
    <2> QED
      BY <2>2, <2>3, <2>4, <2>5, <2>6, Settles
  <1> QED
    BY <1>6, <1>7

LEMMA ServeCallRaces ==
    ASSUME CallsInv, RaceInv, NEW c \in Calls, ServeCall(c)
    PROVE  RaceInv'
  <1>1. RaceForms /\ SoundCall(calls[c]) /\ CallRaces(calls[c]) /\ Len(sessions) \in Nat
    BY DEF RaceInv, RaceForms, RowsOf, CallsInv
  <1>2. calls[c].step \in {"sent", "failed"} /\ (calls[c].adrift <=> calls[c].step = "failed") /\ ~Busy(c)
    BY <1>1, BusyWaits DEF ServeCall, SoundCall
  <1>3. PICK status \in Answers(calls[c]) :
         /\ calls' = [calls EXCEPT ![c] =
                            IF calls[c].adrift
                            THEN Over([calls[c] EXCEPT !.applied = IF status = "ok" THEN @ + 1 ELSE @], "failed")
                            ELSE [[calls[c] EXCEPT !.applied = IF status = "ok" THEN @ + 1 ELSE @]
                                     EXCEPT !.step = "answered", !.status = status,
                                            !.session = IF @ = 0 /\ calls[c].endpoint = "login"
                                                        THEN Len(sessions) + 1 ELSE 0]]
         /\ sessions' = IF status = "ok" /\ calls[c].endpoint = "login"
                        THEN Append(sessions, Opened) ELSE sessions
    BY DEF ServeCall
  <1>4. UNCHANGED <<tabs, refresh, cookie, strays>>
    BY DEF ServeCall
  <1> DEFINE served == [calls[c] EXCEPT !.applied = IF status = "ok" THEN @ + 1 ELSE @]
             named  == IF calls[c].session = 0 /\ calls[c].endpoint = "login" THEN Len(sessions) + 1 ELSE 0
             answer == [served EXCEPT !.step = "answered", !.status = status, !.session = named]
  <1>5. /\ IsCall(served) /\ served.session = calls[c].session /\ served.tab = calls[c].tab
        /\ served.endpoint = calls[c].endpoint
    BY <1>1 DEF SoundCall, IsCall, CallFields
  <1>6. /\ calls'[c] = IF calls[c].adrift THEN Over(served, "failed") ELSE answer
        /\ \A d \in Calls \ {c} : calls'[d] = calls[d]
    BY <1>3, <1>5 DEF CallsInv
  <1> HIDE DEF served
  <1>7. /\ answer.step = "answered" /\ answer.status = status /\ answer.session = named
        /\ answer.tab = calls[c].tab /\ answer.endpoint = calls[c].endpoint
    BY <1>5 DEF IsCall, CallFields
  <1> HIDE DEF answer, named
  <1>8. calls[c].adrift => CallRaces(calls'[c]) /\ calls'[c].step = "failed"
    BY <1>6, OverRaces
  <1>9. CallRaces(calls'[c])
    <2>1. CASE calls[c].adrift
      BY <1>8, <2>1
    <2>2. CASE ~calls[c].adrift
      BY <1>1, <1>2, <1>6, <1>7, <2>2 DEF CallRaces, IsOpen, named
    <2> QED
      BY <2>1, <2>2
  <1>10. CASE status = "ok" /\ calls[c].endpoint = "login"
    <2>1. sessions' = Append(sessions, Opened)
      BY <1>3, <1>10
    <2>2. /\ RowsOf(sessions') /\ Len(sessions') = Len(sessions) + 1
          /\ sessions'[Len(sessions) + 1] = Opened
          /\ \A n \in 1..Len(sessions) : sessions'[n] = sessions[n]
      BY <1>1, <2>1, OpenedRows
    <2>3. RaceForms'
      BY <1>1, <1>4, <1>6, <1>9, <2>2 DEF RaceForms
    <2>4. \A o \in Starters : (Busy(o)' <=> Busy(o)) /\ (o # c => (TabOf(o)' = TabOf(o) /\ (o \in Calls => calls'[o] = calls[o])))
      <3>1. \A o \in Starters : Busy(o)' <=> Busy(o)
        BY <1>4 DEF Busy
      <3>2. \A o \in Calls : o # c => calls'[o] = calls[o]
        BY <1>6
      <3>3. \A o \in Starters : o # c => TabOf(o)' = TabOf(o)
        BY <3>2, TabOfStarter DEF Starters
      <3> QED
        BY <3>1, <3>2, <3>3
    <2>5. Promised'
      BY <1>2, <1>4, <2>4 DEF RaceInv, Promised
    <2>6. \A x \in Starters : \A n : Brings(x, n)' =>
              Brings(x, n) \/ (n = Len(sessions) + 1 /\ x = c)
      <3> SUFFICES ASSUME NEW x \in Starters, NEW n, Brings(x, n)'
                   PROVE  Brings(x, n) \/ (n = Len(sessions) + 1 /\ x = c)
        OBVIOUS
      <3>1. CASE x # c
        BY <1>4, <2>4, <3>1 DEF Brings, Rotates, LogsIn
      <3>2. CASE x = c
        <4>1. ~Rotates(c, n)'
          BY <1>2, <1>4 DEF Rotates, Busy
        <4>2. LogsIn(c, n)'
          BY <3>2, <4>1 DEF Brings
        <4>3. ~calls[c].adrift /\ calls'[c] = answer /\ n = named
          BY <1>6, <1>7, <1>8, <4>2 DEF LogsIn
        <4>4. calls[c].session = 0
          BY <1>1, <1>2, <4>3 DEF CallRaces
        <4> QED
          BY <1>10, <3>2, <4>3, <4>4 DEF named
      <3> QED
        BY <3>1, <3>2
    <2>7. \A x \in Starters : \A n : Brings(x, n)' =>
              \/ Brings(x, n)
              \/ n = Len(sessions) + 1 /\ \A y \in Starters : Brings(y, n)' => x = y
      <3>1. \A y \in Starters : ~Brings(y, Len(sessions) + 1)
        BY <1>1 DEF RaceInv, Brought, Fresh
      <3> QED
        BY <2>6, <3>1
    <2>8. Brought'
      <3>1. PICK s : s = 0
        OBVIOUS
      <3> QED
        BY <1>4, <2>2, <2>4, <2>7, <3>1, OpenedIsFree, BroughtBySession
    <2>9. Spent' /\ ConflictsNamed'
      BY <1>2, <1>4, <2>2, <2>4, SpentStays
    <2> QED
      BY <2>3, <2>5, <2>8, <2>9 DEF RaceInv
  <1>11. CASE ~(status = "ok" /\ calls[c].endpoint = "login")
    <2>1. sessions' = sessions
      BY <1>3, <1>11
    <2>2. ~(calls'[c].step = "answered" /\ calls'[c].endpoint = "login" /\ calls'[c].status = "ok")
      BY <1>6, <1>7, <1>8, <1>11
    <2> QED
      BY <1>1, <1>2, <1>4, <1>6, <1>9, <2>1, <2>2, RefreshesStay DEF CookieMoves, RaceForms
  <1> QED
    BY <1>10, <1>11

LEMMA ServeRefreshRaces ==
    ASSUME RaceInv, NEW o \in Starters, ServeRefresh(o)
    PROVE  RaceInv'
  <1>1. RaceForms /\ Promised /\ Busy(o) /\ refresh[o].step = "sent" /\ UNCHANGED <<tabs, calls, cookie, strays>>
    BY DEF RaceInv, ServeRefresh, Busy
  <1>2. PICK s : s = refresh[o].session
    OBVIOUS
  <1>3. PICK t : t = TabOf(o)
    OBVIOUS
  <1>4. s \in 0..Len(sessions) /\ t \in Tabs /\ Len(sessions) \in Nat
    <2>1. s \in 0..Len(sessions)
      BY <1>1, <1>2 DEF RaceForms
    <2>2. t \in Tabs
      BY <1>1, <1>3 DEF Promised
    <2>3. Len(sessions) \in Nat
      BY <1>1 DEF RaceForms, RowsOf
    <2> QED
      BY <2>1, <2>2, <2>3
  <1>5. PICK next : next = IF Outcome(s) = "rotated" THEN Len(sessions) + 1 ELSE 0
    OBVIOUS
  <1>6. /\ refresh' = [refresh EXCEPT ![o].step = Outcome(s), ![o].next = next]
        /\ sessions' = AfterRefresh(s, {t})
    BY <1>2, <1>3, <1>5 DEF ServeRefresh
  <1>7. /\ refresh'[o] = [refresh[o] EXCEPT !.step = Outcome(s), !.next = next]
        /\ \A p \in Starters \ {o} : refresh'[p] = refresh[p]
        /\ refresh' = [p \in Starters |-> refresh'[p]]
    BY <1>1, <1>6 DEF RaceForms
  <1>8. /\ IsRefresh(refresh'[o]) /\ refresh'[o].step = Outcome(s) /\ refresh'[o].next = next
        /\ refresh'[o].session = s
    BY <1>1, <1>2, <1>7 DEF RaceForms, IsRefresh
  <1>9. \A p \in Starters : TabOf(p)' = TabOf(p) /\ (Busy(p)' => Busy(p) /\ refresh'[p].session = refresh[p].session)
    BY <1>1, <1>2, <1>7, <1>8 DEF TabOf, Busy
  <1>10. Promised'
    BY <1>1, <1>9 DEF Promised
  <1>11. \A p \in Starters : Busy(p) /\ TabOf(p) = t => p = o
    BY <1>1, <1>3, OneRefresh
  <1>12. \A x \in Starters \ {o} : \A n : Brings(x, n)' <=> Brings(x, n)
    BY <1>1, <1>7 DEF Brings, Rotates, LogsIn
  <1>13. \A n : ~Brings(o, n)
    BY <1>1 DEF Brings, Rotates, LogsIn, Promised
  <1>14. \A n : Brings(o, n)' => Outcome(s) = "rotated" /\ n = next
    BY <1>1, <1>8 DEF Brings, Rotates, LogsIn, Promised
  <1>15. ASSUME NEW n \in 1..Len(sessions), NEW u \in Tabs, sessions[n].by = {u}, n # s \/ Outcome(s) # "rotated"
         PROVE  /\ n = cookie => \E p \in Starters : /\ refresh'[p].step = "rotated" /\ refresh'[p].session = n
                                                     /\ TabOf(p)' = u
                /\ \A p \in Starters : refresh'[p].step \in {"sent", "conflict"} /\ TabOf(p)' = u =>
                                          refresh'[p].session # n
    <2>1. SpentBy(n, u)
      BY <1>15 DEF RaceInv, Spent
    <2>2. \A p \in Starters : refresh[p].step = "rotated" => refresh'[p] = refresh[p]
      BY <1>1, <1>7
    <2>3. n = cookie => \E p \in Starters : /\ refresh'[p].step = "rotated" /\ refresh'[p].session = n
                                            /\ TabOf(p)' = u
      BY <1>9, <2>1, <2>2 DEF SpentBy
    <2>4. ASSUME NEW p \in Starters, refresh'[p].step \in {"sent", "conflict"}, TabOf(p)' = u
          PROVE  refresh'[p].session # n
      <3>1. CASE p = o
        BY <1>1, <1>2, <1>8, <1>9, <2>1, <2>4, <3>1 DEF SpentBy
      <3>2. CASE p # o
        BY <1>7, <1>9, <2>1, <2>4, <3>2 DEF SpentBy
      <3> QED
        BY <3>1, <3>2
    <2> QED
      BY <2>3, <2>4
  <1>16. CASE Outcome(s) = "rotated"
    <2>1. s \in 1..Len(sessions)
      <3>1. 0 \notin Live
        BY <1>1 DEF Live, RaceForms, RowsOf
      <3>2. s # 0
        BY <1>16, <3>1 DEF Outcome
      <3> QED
        BY <1>4, <3>2
    <2>2. PICK by \in SUBSET Tabs : by = {t}
      BY <1>4
    <2>3. sessions' = Append([sessions EXCEPT ![s] = [live |-> FALSE, by |-> by]], Opened)
      BY <1>6, <1>16, <2>2 DEF AfterRefresh
    <2>4. /\ RowsOf(sessions') /\ Len(sessions') = Len(sessions) + 1
          /\ sessions'[Len(sessions) + 1] = Opened
          /\ ~sessions'[s].live /\ sessions'[s].by = by
          /\ \A n \in 1..Len(sessions) : n # s => sessions'[n] = sessions[n]
      BY <1>1, <2>1, <2>3, RotatedRows
    <2>5. \A p \in Starters : IsRefresh(refresh'[p]) /\ refresh'[p].session \in 0..Len(sessions')
      <3>1. \A p \in Starters : IsRefresh(refresh[p]) /\ refresh[p].session \in 0..Len(sessions)
        BY <1>1 DEF RaceForms
      <3>2. 0..Len(sessions) \subseteq 0..Len(sessions')
        BY <1>4, <2>4
      <3> QED
        BY <1>4, <1>7, <1>8, <3>1, <3>2
    <2>6. RaceForms'
      BY <1>1, <1>4, <1>7, <2>4, <2>5 DEF RaceForms
    <2>7. \A x \in Starters : \A n : Brings(x, n)' =>
              \/ Brings(x, n)
              \/ n = Len(sessions) + 1 /\ \A y \in Starters : Brings(y, n)' => x = y
      <3>1. \A y \in Starters : ~Brings(y, Len(sessions) + 1)
        BY <1>4 DEF RaceInv, Brought, Fresh
      <3>2. next = Len(sessions) + 1
        BY <1>5, <1>16
      <3> QED
        BY <1>12, <1>14, <3>1, <3>2
    <2>8. Brought'
      <3>1. \E p \in Starters : Busy(p) /\ refresh[p].session = s
        BY <1>1, <1>2
      <3>2. sessions'[Len(sessions) + 1].live /\ cookie' = cookie /\ strays' \subseteq strays
        BY <1>1, <2>4, OpenedIsFree
      <3> QED
        BY <1>9, <2>4, <2>7, <3>1, <3>2, BroughtBySession
    <2>9. ASSUME NEW n \in 1..Len(sessions'), NEW u \in Tabs, sessions'[n].by = {u}
          PROVE  SpentBy(n, u)'
      <3>1. CASE n = s
        <4>1. u = t /\ ~sessions'[n].live
          BY <2>2, <2>4, <2>9, <3>1
        <4>2. refresh'[o].step = "rotated" /\ refresh'[o].session = n /\ TabOf(o)' = u
          BY <1>3, <1>8, <1>9, <1>16, <3>1, <4>1
        <4>3. \A p \in Starters : refresh'[p].step \in {"sent", "conflict"} => TabOf(p)' # u
          BY <1>3, <1>9, <1>11, <4>1, <4>2 DEF Busy
        <4> QED
          BY <4>1, <4>2, <4>3 DEF SpentBy
      <3>2. CASE n # s
        <4>1. n # Len(sessions) + 1
          BY <2>4, <2>9, OpenedIsFree
        <4>2. n \in 1..Len(sessions) /\ sessions'[n] = sessions[n]
          <5>1. Len(sessions) \in Nat /\ n \in 1..(Len(sessions) + 1)
            BY <1>4, <2>4, <2>9
          <5>2. n \in 1..Len(sessions)
            BY <4>1, <5>1
          <5> QED
            BY <2>4, <3>2, <5>2
        <4>3. ~sessions[n].live
          BY <2>9, <4>2 DEF RaceInv, Spent, SpentBy
        <4> QED
          BY <1>1, <1>15, <2>9, <3>2, <4>2, <4>3 DEF SpentBy
      <3> QED
        BY <3>1, <3>2
    <2>10. Spent'
      BY <2>9 DEF Spent
    <2>11. ConflictsNamed'
      BY <1>7, <1>8, <1>16 DEF RaceInv, ConflictsNamed
    <2> QED
      BY <1>10, <2>6, <2>8, <2>10, <2>11 DEF RaceInv
  <1>17. CASE Outcome(s) # "rotated"
    <2>1. sessions' = sessions
      BY <1>6, <1>17 DEF AfterRefresh
    <2>2. RaceForms'
      BY <1>1, <1>4, <1>7, <1>8, <2>1 DEF RaceForms
    <2>3. \A x \in Starters : \A n : Brings(x, n)' => Brings(x, n)
      BY <1>12, <1>14, <1>17
    <2>4. \A n : Fresh(n) => Fresh(n)'
      BY <1>1, <1>9, <2>1 DEF Fresh
    <2>5. Brought'
      BY <2>3, <2>4 DEF RaceInv, Brought
    <2>6. \A n \in 1..Len(sessions) : \A u \in Tabs : sessions[n].by = {u} => ~sessions[n].live
      BY DEF RaceInv, Spent, SpentBy
    <2>7. Spent'
      BY <1>1, <1>15, <1>17, <2>1, <2>6 DEF Spent, SpentBy
    <2>8. Outcome(s) = "conflict" => s # 0
      BY DEF Outcome
    <2>9. ConflictsNamed'
      BY <1>7, <1>8, <2>8 DEF RaceInv, ConflictsNamed
    <2> QED
      BY <1>10, <2>2, <2>5, <2>7, <2>9 DEF RaceInv
  <1> QED
    BY <1>16, <1>17

----------------------------------------------------------------------------

LEMMA InitRaces == Init => RaceInv
  <1> SUFFICES ASSUME Init
               PROVE  RaceInv
    OBVIOUS
  <1>1. IsTab(Loaded("login"))
    BY DEF IsTab, Loaded
  <1>2. \A o \in Starters : refresh[o] = NoRefresh
    BY DEF Init
  <1>3. \A c \in Calls : CallRaces(calls[c]) /\ calls[c].step = "idle"
    <2>1. NoCallYet.step = "idle" /\ NoCallYet.session = 0
      BY DEF NoCallYet
    <2>2. \A c \in Calls : calls[c] = NoCallYet
      BY DEF Init
    <2> HIDE DEF NoCallYet
    <2> QED
      BY <2>1, <2>2 DEF CallRaces, IsOpen
  <1>4. /\ RowsOf(sessions) /\ Len(sessions) \in Nat /\ cookie \in 0..Len(sessions) /\ strays = {}
        /\ \A n \in 1..Len(sessions) : sessions[n].by = {}
    <2>1. Opened \in SessionRows /\ Opened.by = {}
      BY DEF Opened, SessionRows
    <2> HIDE DEF Opened
    <2>2. CASE cookie = 0 /\ sessions = <<>>
      BY <2>2 DEF Init, RowsOf
    <2>3. CASE cookie = 1 /\ sessions = <<Opened>>
      <3>1. sessions \in Seq(SessionRows) /\ Len(sessions) = 1 /\ sessions[1] = Opened
        BY <2>1, <2>3
      <3> QED
        BY <2>1, <2>3, <3>1 DEF Init, RowsOf
    <2> QED
      BY <2>2, <2>3 DEF Init
  <1>5. RaceForms
    <2>1. \A o \in Starters : IsRefresh(refresh[o]) /\ refresh[o].session \in 0..Len(sessions)
      BY <1>2, <1>4, RefreshForms
    <2>2. tabs = [t \in Tabs |-> tabs[t]] /\ \A t \in Tabs : IsTab(tabs[t])
      BY <1>1 DEF Init
    <2>3. refresh = [o \in Starters |-> refresh[o]]
      BY DEF Init
    <2> QED
      BY <1>3, <1>4, <2>1, <2>2, <2>3 DEF RaceForms
  <1>6. \A o \in Starters : ~Busy(o)
    BY <1>2, RefreshForms DEF Busy
  <1>7. Promised /\ ConflictsNamed
    BY <1>6 DEF Promised, ConflictsNamed, Busy
  <1>8. Brought
    BY <1>3, <1>6 DEF Brought, Brings, Rotates, LogsIn, Busy
  <1>9. Spent
    BY <1>4 DEF Spent
  <1> QED
    BY <1>5, <1>7, <1>8, <1>9 DEF RaceInv

LEMMA NextRaces == CallsInv /\ RaceInv /\ [Next]_vars => RaceInv'
  <1> SUFFICES ASSUME CallsInv, RaceInv, [Next]_vars
               PROVE  RaceInv'
    OBVIOUS
  <1>1. ASSUME NEW o \in Starters,
               \/ ServeRefresh(o) \/ RefuseRefresh(o) \/ RefreshArrives(o) \/ ReadToken(o) \/ RetryRefresh(o)
               \/ RefreshTimesOut(o)
        PROVE  RaceInv'
    BY <1>1, ServeRefreshRaces, RefuseRefreshRaces, RefreshArrivesRaces, ReadTokenRaces, RetryRefreshRaces,
       RefreshTimesOutRaces
  <1>2. ASSUME NEW c \in Calls, ServeCall(c) \/ CallArrives(c) \/ ReadBody(c) \/ CallTimesOut(c)
        PROVE  RaceInv'
    BY <1>2, ServeCallRaces, UnauthorizedRaces, AnsweredRaces, ReadBodyRaces, CallTimesOutRaces DEF CallArrives
  <1>3. ASSUME NEW t \in Tabs, Visit(t) \/ Load(t) \/ handleLogout(t) \/ \E c \in Calls : Fetch(t, c) \/ Login(t, c)
        PROVE  RaceInv'
    BY <1>3, VisitRaces, LoadRaces, HandleLogoutRaces, StartRaces
  <1>4. ASSUME NEW s \in strays, ServeStray(s)
        PROVE  RaceInv'
    BY <1>4, ServeStrayRaces
  <1>5. CASE UNCHANGED vars
    <2>1. UNCHANGED <<tabs, refresh, calls, cookie, sessions, strays>>
      BY <1>5 DEF vars
    <2> QED
      BY <2>1 DEF RaceInv, RaceForms, Promised, Brought, Spent, ConflictsNamed, SpentBy, Fresh, Brings, Rotates,
                  LogsIn, Busy, TabOf
  <1> QED
    BY <1>1, <1>2, <1>3, <1>4, <1>5 DEF Next, Serves

\* A tab has at most one refresh under way, the token of an answer that has not arrived is nobody else's, and a
\* token that a tab's refresh used up is not presented by the tab again: the inductive invariant.
THEOREM RaceInvariant == Spec => [](CallsInv /\ RaceInv)
  <1>1. Init => CallsInv /\ RaceInv
    BY InitSound, InitRaces
  <1>2. CallsInv /\ RaceInv /\ [Next]_vars => CallsInv' /\ RaceInv'
    BY NextSound, NextRaces
  <1> QED
    BY <1>1, <1>2, PTL DEF Spec

\* However calls, pages, timeouts and reloads of a tab interleave, and whatever the other tabs do, a refresh that
\* is refused as a reuse was never beaten by one whose answer the same tab has or waits for.
THEOREM TabsNeverRaceThemselves == Spec => []TabNeverRacesItself
  <1>1. RaceInv => TabNeverRacesItself
    <2> SUFFICES ASSUME RaceInv, NEW o \in Starters, refresh[o].step = "conflict"
                 PROVE  sessions[refresh[o].session].by # {TabOf(o)}
      BY DEF TabNeverRacesItself
    <2>1. refresh[o].session \in 1..Len(sessions)
      BY DEF RaceInv, ConflictsNamed, RaceForms, RowsOf
    <2>2. TabOf(o) \in Tabs
      BY DEF RaceInv, Promised, Busy
    <2>3. PICK t : t = TabOf(o)
      OBVIOUS
    <2>4. ~SpentBy(refresh[o].session, t)
      BY <2>3 DEF SpentBy
    <2> QED
      BY <2>1, <2>2, <2>3, <2>4 DEF RaceInv, Spent
  <1> QED
    BY <1>1, RaceInvariant, PTL
----------------------------------------------------------------------------
(* The pages: what Workbench's buttons offer, routes accept and forms post.*)

\* The documents that are tasks.
TaskKinds == {"picking", "packing", "putaway"}

\* A putaway task that a page saw claimed is not READY: the one button that a service also accepts at another
\* status than those that offer it is the putaway page's EXCEPTION.
Past(view) == doc.kind = "putaway" /\ view = "CLAIMED" => doc.status # "READY"

PutawayStatuses == {"READY", "CLAIMED", "COMPLETED", "EXCEPTION"}

\* A claimed task has a holder, and a receipt is posted under its form's key.
SoundDocument ==
    /\ doc = [kind |-> doc.kind, status |-> doc.status, holder |-> doc.holder, receipts |-> doc.receipts]
    /\ doc.kind \in DOMAIN Services
    /\ doc.kind = "putaway" => doc.status \in PutawayStatuses
    /\ doc.kind \in TaskKinds /\ doc.status = "CLAIMED" => doc.holder \in Users
    /\ \A receipt \in doc.receipts : receipt = [key |-> <<"form", receipt.form>>, form |-> receipt.form]

\* A receipt form is open only on an order.
SoundPage(page) ==
    /\ page = [view |-> page.view, fetch |-> page.fetch, form |-> page.form, saving |-> page.saving]
    /\ page.form # 0 => doc.kind = "purchaseOrder"
    /\ Past(page.view) /\ Past(page.fetch)

\* A user clicked what was offered, a form sends its own key, and only an exception is served in two statements.
Offered(click) ==
    /\ click.user \in Users
    /\ click.button = "receive" => doc.kind = "purchaseOrder" /\ click.key = <<"form", click.form>>
    /\ click.button # "receive" => click.button \in Offers(doc.kind, click.seen)
    /\ click.answer = "found" => IsException(click)
    /\ Past(click.seen)

SoundClick(click) ==
    /\ click = [user |-> click.user, button |-> click.button, seen |-> click.seen, form |-> click.form,
                key |-> click.key, answer |-> click.answer]
    /\ click # NoClick => Offered(click)

SoundPages ==
    /\ pages = [u \in Users |-> pages[u]]
    /\ \A u \in Users : SoundPage(pages[u])

SoundClicks ==
    /\ clicks = [c \in Commands |-> clicks[c]]
    /\ \A c \in Commands : SoundClick(clicks[c])

SoundRemote ==
    /\ remote = [c \in Commands |-> [state |-> remote[c].state, applied |-> remote[c].applied]]
    /\ \A c \in Commands : remote[c].applied \in {0, 1}

WorkbenchInv == SoundDocument /\ SoundPages /\ SoundClicks /\ SoundRemote

\* A button that means one status is offered at that status only, and its service moves the document from no
\* other; but a task whose putaway has failed may still be READY.
LEMMA OffersNameStatus ==
  ASSUME NEW kind \in DOMAIN Services, NEW view, NEW button \in Offers(kind, view), button \notin Unconditional,
         NEW move \in Services[kind][button]
  PROVE  \/ move[1] = view
         \/ kind = "putaway" /\ view = "CLAIMED" /\ move[1] = "READY"
  <1>1. CASE kind = "picking"
    BY <1>1 DEF Offers, Buttons, pickingPage, Services, PickingService
  <1>2. CASE kind = "packing"
    BY <1>2 DEF Offers, Buttons, packingPage, Services, PackingService
  <1>3. CASE kind = "putaway"
    BY <1>3 DEF Offers, Buttons, putawayPage, Services, PutawayService
  <1>4. CASE kind = "shipment"
    BY <1>4 DEF Offers, Buttons, shipmentPage, Services, ShipmentService
  <1>5. CASE kind = "return"
    BY <1>5 DEF Offers, Buttons, returnsPage, Services, ReturnsService, Unconditional
  <1>6. CASE kind = "stock"
    BY <1>6 DEF Offers, Buttons, stockPage, Services, StockService
  <1>7. CASE kind = "purchaseOrder"
    BY <1>7 DEF Offers, Buttons, PurchaseOrderDetail, Services, PurchaseOrderService, Unconditional
  <1>8. CASE kind = "salesOrder"
    BY <1>8 DEF Offers, Buttons, SalesOrderDetail, Services, SalesOrderService, Unconditional
  <1> QED
    BY <1>1, <1>2, <1>3, <1>4, <1>5, <1>6, <1>7, <1>8 DEF Services

\* Every button but the dead ones sends what its route asks for.
LEMMA RequestsFitRoutes ==
  ASSUME NEW kind \in DOMAIN Services, NEW view, NEW button \in Offers(kind, view), <<kind, button>> \notin DeadButtons
  PROVE  SentAs(kind, button) # "nothing" /\ (<<kind, button>> \in NeedKey => SentAs(kind, button) = "keyed")
  <1>1. CASE kind = "picking"
    BY <1>1 DEF Offers, Buttons, pickingPage, SentAs, Handlers, pickingHandlers, NeedKey
  <1>2. CASE kind = "packing"
    BY <1>2 DEF Offers, Buttons, packingPage, SentAs, Handlers, packingHandlers, NeedKey
  <1>3. CASE kind = "putaway"
    BY <1>3 DEF Offers, Buttons, putawayPage, SentAs, Handlers, putawayHandlers, NeedKey, DeadButtons
  <1>4. CASE kind = "shipment"
    BY <1>4 DEF Offers, Buttons, shipmentPage, SentAs, Handlers, shipmentHandlers, NeedKey
  <1>5. CASE kind = "return"
    BY <1>5 DEF Offers, Buttons, returnsPage, SentAs, Handlers, returnsHandlers, NeedKey, DeadButtons
  <1>6. CASE kind = "stock"
    BY <1>6 DEF Offers, Buttons, stockPage, SentAs, Handlers, stockHandlers, NeedKey, DeadButtons
  <1>7. CASE kind = "purchaseOrder"
    BY <1>7 DEF SentAs, Handlers, NeedKey
  <1>8. CASE kind = "salesOrder"
    BY <1>8 DEF Offers, Buttons, SalesOrderDetail, SentAs, Handlers, NeedKey
  <1> QED
    BY <1>1, <1>2, <1>3, <1>4, <1>5, <1>6, <1>7, <1>8 DEF Services

\* The status that a button leads to.
Reached ==
    [picking  |-> [claim |-> "CLAIMED", confirm |-> "PICKED", short |-> "SHORTED"],
     packing  |-> [claim |-> "CLAIMED", complete |-> "PACKED", exception |-> "EXCEPTION"],
     putaway  |-> [claim |-> "CLAIMED", complete |-> "COMPLETED", exception |-> "EXCEPTION"],
     shipment |-> [post |-> "POSTED", void |-> "READY"],
     return   |-> [approve |-> "APPROVED", reject |-> "REJECTED", complete |-> "COMPLETED"],
     stock    |-> [transfer |-> "LISTED"]]

Target(kind, button) ==
    IF kind \in DOMAIN Reached THEN Reached[kind][button] ELSE IF button = "receive" THEN "RECEIVED" ELSE button

\* Every button asks for what its service does at the status that shows it.
LEMMA ServicesAccept ==
  ASSUME NEW kind \in DOMAIN Services, NEW view, NEW button \in Offers(kind, view)
  PROVE  <<view, Target(kind, button)>> \in Services[kind][button]
  <1>1. CASE kind = "picking"
    BY <1>1 DEF Offers, Buttons, pickingPage, Target, Reached, Services, PickingService
  <1>2. CASE kind = "packing"
    BY <1>2 DEF Offers, Buttons, packingPage, Target, Reached, Services, PackingService
  <1>3. CASE kind = "putaway"
    BY <1>3 DEF Offers, Buttons, putawayPage, Target, Reached, Services, PutawayService
  <1>4. CASE kind = "shipment"
    BY <1>4 DEF Offers, Buttons, shipmentPage, Target, Reached, Services, ShipmentService
  <1>5. CASE kind = "return"
    BY <1>5 DEF Offers, Buttons, returnsPage, Target, Reached, Services, ReturnsService, ReturnStatuses
  <1>6. CASE kind = "stock"
    BY <1>6 DEF Offers, Buttons, stockPage, Target, Reached, Services, StockService
  <1>7. CASE kind = "purchaseOrder"
    BY <1>7 DEF Offers, Buttons, PurchaseOrderDetail, Target, Reached, Services, PurchaseOrderService
  <1>8. CASE kind = "salesOrder"
    BY <1>8 DEF Offers, Buttons, SalesOrderDetail, Target, Reached, Services, SalesOrderService
  <1> QED
    BY <1>1, <1>2, <1>3, <1>4, <1>5, <1>6, <1>7, <1>8 DEF Services

\* What only the holder of a task may do is offered while it is claimed.
LEMMA HoldersAct ==
  ASSUME NEW kind \in DOMAIN Services, NEW view, NEW button \in Offers(kind, view), <<kind, button>> \in HolderOnly
  PROVE  kind \in TaskKinds /\ view = "CLAIMED"
  <1>1. kind \in TaskKinds
    BY DEF HolderOnly, TaskKinds
  <1>2. CASE kind = "picking"
    BY <1>1, <1>2 DEF Offers, Buttons, pickingPage, HolderOnly
  <1>3. CASE kind = "packing"
    BY <1>1, <1>3 DEF Offers, Buttons, packingPage, HolderOnly
  <1>4. CASE kind = "putaway"
    BY <1>1, <1>4 DEF Offers, Buttons, putawayPage, HolderOnly
  <1> QED
    BY <1>1, <1>2, <1>3, <1>4 DEF TaskKinds

\* No task is READY again, and only a claim makes it CLAIMED.
LEMMA TasksMoveOn ==
  ASSUME NEW kind \in TaskKinds, NEW view, NEW button \in Offers(kind, view), NEW move \in Services[kind][button]
  PROVE  move[2] # "READY" /\ (move[2] = "CLAIMED" => button = "claim")
  <1>1. CASE kind = "picking"
    BY <1>1 DEF Offers, Buttons, pickingPage, Services, PickingService
  <1>2. CASE kind = "packing"
    BY <1>2 DEF Offers, Buttons, packingPage, Services, PackingService
  <1>3. CASE kind = "putaway"
    BY <1>3 DEF Offers, Buttons, putawayPage, Services, PutawayService
  <1> QED
    BY <1>1, <1>2, <1>3 DEF TaskKinds

\* Only orders offer a receipt form.
LEMMA OrdersReceive ==
  ASSUME NEW kind \in DOMAIN Services, NEW view, "receive" \in Offers(kind, view)
  PROVE  kind = "purchaseOrder"
  BY DEF Services, Offers, Buttons, pickingPage, packingPage, putawayPage, shipmentPage, returnsPage, stockPage,
         SalesOrderDetail

\* How a call moves in RemoteCalls: only the server that serves it applies it.
LEMMA RemoteMoves ==
  ASSUME SoundRemote, NEW c \in Commands, Api!Start(c) \/ Api!Apply(c) \/ Api!Resolve(c) \/ Api!Fail(c)
  PROVE  /\ SoundRemote'
         /\ \A d \in Commands : remote'[d].applied > remote[d].applied => d = c /\ Api!Apply(c)
  <1>1. ASSUME NEW state, Api!Becomes(c, state)
        PROVE  /\ SoundRemote'
               /\ \A d \in Commands : remote'[d].applied = remote[d].applied
    <2>1. remote' = [remote EXCEPT ![c].state = state]
      BY <1>1 DEF Api!Becomes
    <2>2. \A d \in Commands : remote[d] = [state |-> remote[d].state, applied |-> remote[d].applied]
      BY DEF SoundRemote
    <2>3. remote'[c] = [state |-> state, applied |-> remote[c].applied] /\ DOMAIN remote' = Commands
      BY <2>1, <2>2 DEF SoundRemote
    <2>4. \A d \in Commands \ {c} : remote'[d] = remote[d]
      BY <2>1 DEF SoundRemote
    <2>5. remote' = [d \in Commands |-> remote'[d]]
      BY <2>1 DEF SoundRemote
    <2>6. \A d \in Commands : /\ remote'[d] = [state |-> remote'[d].state, applied |-> remote'[d].applied]
                              /\ remote'[d].applied = remote[d].applied
      <3> TAKE d \in Commands
      <3>1. CASE d = c
        BY <2>3, <3>1
      <3>2. CASE d # c
        BY <2>2, <2>4, <3>2
      <3> QED
        BY <3>1, <3>2
    <2>7. \A d \in Commands : remote'[d].applied \in {0, 1}
      BY <2>6 DEF SoundRemote
    <2>8. SoundRemote'
      BY <2>5, <2>6, <2>7 DEF SoundRemote
    <2>9. \A d \in Commands : remote'[d].applied = remote[d].applied
      BY <2>6
    <2> QED
      BY <2>8, <2>9
  <1>2. CASE Api!Apply(c)
    <2>1. remote' = [remote EXCEPT ![c].applied = 1]
      BY <1>2 DEF Api!Apply
    <2>2. \A d \in Commands : remote[d] = [state |-> remote[d].state, applied |-> remote[d].applied]
      BY DEF SoundRemote
    <2>3. remote'[c] = [state |-> remote[c].state, applied |-> 1] /\ DOMAIN remote' = Commands
      BY <2>1, <2>2 DEF SoundRemote
    <2>4. \A d \in Commands \ {c} : remote'[d] = remote[d]
      BY <2>1 DEF SoundRemote
    <2>5. remote' = [d \in Commands |-> remote'[d]]
      BY <2>1 DEF SoundRemote
    <2>6. \A d \in Commands : /\ remote'[d] = [state |-> remote'[d].state, applied |-> remote'[d].applied]
                              /\ remote'[d].applied \in {0, 1}
      BY <2>2, <2>3, <2>4 DEF SoundRemote
    <2>7. \A d \in Commands : remote'[d].applied > remote[d].applied => d = c
      BY <2>4 DEF SoundRemote
    <2> QED
      BY <1>2, <2>5, <2>6, <2>7 DEF SoundRemote
  <1>3. ASSUME \A d \in Commands : remote'[d].applied = remote[d].applied
        PROVE  \A d \in Commands : ~(remote'[d].applied > remote[d].applied)
    BY <1>3 DEF SoundRemote
  <1> QED
    BY <1>1, <1>2, <1>3 DEF Api!Start, Api!Resolve, Api!Fail

\* What pages show and users clicked stays sound while the document remains what it is.
LEMMA SoundnessStays ==
  ASSUME doc'.kind = doc.kind, doc.kind = "putaway" /\ doc'.status = "READY" => doc.status = "READY"
  PROVE  /\ \A page : SoundPage(page) => SoundPage(page)'
         /\ \A click : SoundClick(click) => SoundClick(click)'
  <1>1. \A view : Past(view) => Past(view)'
    BY DEF Past
  <1>2. \A click : Offered(click) => Offered(click)'
    <2> SUFFICES ASSUME NEW click, Offered(click)
                 PROVE  Offered(click)'
      OBVIOUS
    <2>1. Past(click.seen)'
      BY <1>1 DEF Offered
    <2> QED
      BY <2>1 DEF Offered, Offers, IsException
  <1>3. \A page : SoundPage(page) => SoundPage(page)'
    BY <1>1 DEF SoundPage
  <1> QED
    BY <1>2, <1>3 DEF SoundClick

\* One page changes, or one click.
LEMMA PageChanges ==
  ASSUME SoundPages, NEW u \in Users, NEW page, pages' = [pages EXCEPT ![u] = page], doc' = doc,
         SoundPage(pages[u]) => SoundPage(page)
  PROVE  SoundPages'
  <1>1. \A p : SoundPage(p) => SoundPage(p)'
    BY SoundnessStays
  <1>2. pages' = [v \in Users |-> pages'[v]]
    BY DEF SoundPages
  <1>3. pages'[u] = page /\ \A v \in Users \ {u} : pages'[v] = pages[v]
    BY DEF SoundPages
  <1>4. \A v \in Users : SoundPage(pages'[v])
    BY <1>3 DEF SoundPages
  <1>5. ASSUME NEW v \in Users
        PROVE  SoundPage(pages[v])'
    <2>1. PICK p : p = pages'[v]
      OBVIOUS
    <2>2. SoundPage(p)'
      BY <1>1, <1>4, <2>1
    <2> QED
      BY <2>1, <2>2
  <1> QED
    BY <1>2, <1>5 DEF SoundPages

LEMMA ClickChanges ==
  ASSUME SoundClicks, NEW c \in Commands, NEW click, clicks' = [clicks EXCEPT ![c] = click],
         doc'.kind = doc.kind, doc.kind = "putaway" /\ doc'.status = "READY" => doc.status = "READY",
         SoundClick(clicks[c]) => SoundClick(click)
  PROVE  SoundClicks'
  <1>1. \A x : SoundClick(x) => SoundClick(x)'
    BY SoundnessStays
  <1>2. clicks' = [d \in Commands |-> clicks'[d]]
    BY DEF SoundClicks
  <1>3. clicks'[c] = click /\ \A d \in Commands \ {c} : clicks'[d] = clicks[d]
    BY DEF SoundClicks
  <1>4. \A d \in Commands : SoundClick(clicks'[d])
    BY <1>3 DEF SoundClicks
  <1>5. ASSUME NEW d \in Commands
        PROVE  SoundClick(clicks[d])'
    <2>1. PICK x : x = clicks'[d]
      OBVIOUS
    <2>2. SoundClick(x)'
      BY <1>1, <1>4, <2>1
    <2> QED
      BY <2>1, <2>2
  <1> QED
    BY <1>2, <1>5 DEF SoundClicks

\* The document moves under pages that stay, or under clicks.
LEMMA PagesStay ==
  ASSUME SoundPages, pages' = pages, doc'.kind = doc.kind,
         doc.kind = "putaway" /\ doc'.status = "READY" => doc.status = "READY"
  PROVE  SoundPages'
  <1>1. \A u \in Users : SoundPage(pages[u])'
    <2> TAKE u \in Users
    <2>1. PICK p : p = pages[u]
      OBVIOUS
    <2>2. SoundPage(p)'
      BY <2>1, SoundnessStays DEF SoundPages
    <2> QED
      BY <2>1, <2>2
  <1> QED
    BY <1>1 DEF SoundPages

LEMMA ClicksStay ==
  ASSUME SoundClicks, clicks' = clicks, doc'.kind = doc.kind,
         doc.kind = "putaway" /\ doc'.status = "READY" => doc.status = "READY"
  PROVE  SoundClicks'
  <1>1. \A c \in Commands : SoundClick(clicks[c])'
    <2> TAKE c \in Commands
    <2>1. PICK x : x = clicks[c]
      OBVIOUS
    <2>2. SoundClick(x)'
      BY <2>1, SoundnessStays DEF SoundClicks
    <2> QED
      BY <2>1, <2>2
  <1> QED
    BY <1>1 DEF SoundClicks

\* Forgetting a click, and telling its page an answer.
LEMMA AnsweredClicks ==
  /\ SoundClick(NoClick)
  /\ \A click, answer : SoundClick(click) /\ click # NoClick /\ (answer = "found" => IsException(click))
                        => SoundClick([click EXCEPT !.answer = answer])
  <1>1. SoundClick(NoClick)
    BY DEF SoundClick, NoClick
  <1>2. ASSUME NEW click, NEW answer, SoundClick(click), click # NoClick, answer = "found" => IsException(click)
        PROVE  SoundClick([click EXCEPT !.answer = answer])
    <2>1. PICK told : told = [click EXCEPT !.answer = answer]
      OBVIOUS
    <2>2. /\ told = [user |-> click.user, button |-> click.button, seen |-> click.seen, form |-> click.form,
                     key |-> click.key, answer |-> answer]
          /\ told.user = click.user /\ told.button = click.button /\ told.seen = click.seen
          /\ told.form = click.form /\ told.key = click.key /\ told.answer = answer
      BY <1>2, <2>1 DEF SoundClick
    <2> QED
      BY <1>2, <2>1, <2>2 DEF SoundClick, Offered, IsException
  <1> QED
    BY <1>1, <1>2

\* In the initial state.
LEMMA WorkbenchInitSound == WorkbenchInit => WorkbenchInv
  <1> SUFFICES ASSUME WorkbenchInit
               PROVE  WorkbenchInv
    OBVIOUS
  <1>1. SoundDocument
    <2>1. PICK kind \in DOMAIN Services :
                  doc \in [kind : {kind}, status : Statuses(kind), holder : Users \cup {Nobody}, receipts : {{}}]
      BY DEF WorkbenchInit
    <2>2. /\ doc = [kind |-> doc.kind, status |-> doc.status, holder |-> doc.holder, receipts |-> doc.receipts]
          /\ doc.kind = kind /\ doc.holder \in Users \cup {Nobody} /\ doc.receipts = {}
      BY <2>1
    <2>3. doc.kind \in TaskKinds /\ doc.status = "CLAIMED" => doc.holder # Nobody
      BY DEF WorkbenchInit, TaskKinds
    <2>4. doc.kind = "putaway" => doc.status \in PutawayStatuses
      <3>1. doc.status \in Statuses(doc.kind)
        BY <2>1
      <3>2. Moves("putaway") = {<<"READY", "CLAIMED">>, <<"CLAIMED", "COMPLETED">>, <<"READY", "EXCEPTION">>,
                                <<"CLAIMED", "EXCEPTION">>}
        <4>1. DOMAIN PutawayService = {"claim", "complete", "exception"}
          BY DEF PutawayService
        <4>2. Moves("putaway") = PutawayService.claim \cup PutawayService.complete \cup PutawayService.exception
          BY <4>1 DEF Moves, Services
        <4> QED
          BY <4>2 DEF PutawayService
      <3> QED
        BY <3>1, <3>2 DEF Statuses, PutawayStatuses
    <2> QED
      BY <2>2, <2>3, <2>4 DEF SoundDocument
  <1>2. SoundPages
    BY DEF WorkbenchInit, SoundPages, SoundPage, BlankPage, Past
  <1>3. SoundClicks
    BY AnsweredClicks DEF WorkbenchInit, SoundClicks
  <1>4. SoundRemote
    BY DEF WorkbenchInit, Api!Init, SoundRemote
  <1> QED
    BY <1>1, <1>2, <1>3, <1>4 DEF WorkbenchInv

\* The pages read, show, and open and close their form.
LEMMA ReadSound ==
  ASSUME WorkbenchInv, NEW u \in Users, Read(u)
  PROVE  WorkbenchInv'
  <1>1. PICK fetch : fetch = Fetched
    OBVIOUS
  <1>2. PICK page : page = [pages[u] EXCEPT !.fetch = fetch]
    OBVIOUS
  <1>3. pages' = [pages EXCEPT ![u] = page] /\ UNCHANGED <<doc, clicks, remote>>
    BY <1>1, <1>2 DEF Read
  <1>4. Past(fetch)
    BY <1>1 DEF Fetched, Past
  <1>5. SoundPage(pages[u]) => SoundPage(page)
    BY <1>2, <1>4 DEF SoundPage
  <1>6. SoundPages'
    BY <1>3, <1>5, PageChanges DEF WorkbenchInv
  <1>7. SoundClicks'
    BY <1>3, ClicksStay DEF WorkbenchInv
  <1> QED
    BY <1>3, <1>6, <1>7 DEF WorkbenchInv, SoundDocument, SoundRemote

LEMMA ShowSound ==
  ASSUME WorkbenchInv, NEW u \in Users, Show(u)
  PROVE  WorkbenchInv'
  <1>1. PICK page : page = [pages[u] EXCEPT !.view = pages[u].fetch, !.fetch = "none"]
    OBVIOUS
  <1>2. pages' = [pages EXCEPT ![u] = page] /\ UNCHANGED <<doc, clicks, remote>>
    BY <1>1 DEF Show, WorkbenchInv, SoundPages
  <1>3. Past("none")
    BY DEF Past
  <1>4. SoundPage(pages[u]) => SoundPage(page)
    BY <1>1, <1>3 DEF SoundPage
  <1>5. SoundPages'
    BY <1>2, <1>4, PageChanges DEF WorkbenchInv
  <1>6. SoundClicks'
    BY <1>2, ClicksStay DEF WorkbenchInv
  <1> QED
    BY <1>2, <1>5, <1>6 DEF WorkbenchInv, SoundDocument, SoundRemote

LEMMA OpenReceiptFormSound ==
  ASSUME WorkbenchInv, NEW u \in Users, OpenReceiptForm(u)
  PROVE  WorkbenchInv'
  <1>1. PICK page : page = [pages[u] EXCEPT !.form = forms + 1, !.saving = FALSE]
    OBVIOUS
  <1>2. pages' = [pages EXCEPT ![u] = page] /\ UNCHANGED <<doc, clicks, remote>>
    BY <1>1 DEF OpenReceiptForm, WorkbenchInv, SoundPages
  <1>3. doc.kind = "purchaseOrder"
    BY OrdersReceive DEF OpenReceiptForm, WorkbenchInv, SoundDocument
  <1>4. SoundPage(pages[u]) => SoundPage(page)
    BY <1>1, <1>3 DEF SoundPage
  <1>5. SoundPages'
    BY <1>2, <1>4, PageChanges DEF WorkbenchInv
  <1>6. SoundClicks'
    BY <1>2, ClicksStay DEF WorkbenchInv
  <1> QED
    BY <1>2, <1>5, <1>6 DEF WorkbenchInv, SoundDocument, SoundRemote

LEMMA CloseFormSound ==
  ASSUME WorkbenchInv, NEW u \in Users, CloseForm(u)
  PROVE  WorkbenchInv'
  <1>1. PICK page : page = [pages[u] EXCEPT !.form = 0, !.saving = FALSE]
    OBVIOUS
  <1>2. pages' = [pages EXCEPT ![u] = page] /\ UNCHANGED <<doc, clicks, remote>>
    BY <1>1 DEF CloseForm, WorkbenchInv, SoundPages
  <1>3. SoundPage(pages[u]) => SoundPage(page)
    BY <1>1 DEF SoundPage
  <1>4. SoundPages'
    BY <1>2, <1>3, PageChanges DEF WorkbenchInv
  <1>5. SoundClicks'
    BY <1>2, ClicksStay DEF WorkbenchInv
  <1> QED
    BY <1>2, <1>4, <1>5 DEF WorkbenchInv, SoundDocument, SoundRemote

\* A request is made of what its page offers.
LEMMA RequestSound ==
  ASSUME WorkbenchInv, NEW u \in Users, NEW c \in Commands, NEW button, NEW key, Request(u, c, button, key), doc' = doc,
         button = "receive" => doc.kind = "purchaseOrder" /\ key = <<"form", pages[u].form>>,
         button # "receive" => button \in Offers(doc.kind, pages[u].view)
  PROVE  SoundDocument' /\ SoundClicks' /\ SoundRemote'
  <1>1. PICK click : click = [user |-> u, button |-> button, seen |-> pages[u].view, form |-> pages[u].form, key |-> key,
                              answer |-> "none"]
    OBVIOUS
  <1>2. clicks' = [clicks EXCEPT ![c] = click]
    BY <1>1 DEF Request
  <1>3. Past(pages[u].view)
    BY DEF WorkbenchInv, SoundPages, SoundPage
  <1>4. SoundClick(click)
    BY <1>1, <1>3 DEF SoundClick, Offered
  <1>5. SoundClicks'
    BY <1>2, <1>4, ClickChanges DEF WorkbenchInv
  <1>6. SoundRemote'
    BY RemoteMoves DEF Request, WorkbenchInv
  <1> QED
    BY <1>5, <1>6 DEF WorkbenchInv, SoundDocument

LEMMA ClickSound ==
  ASSUME WorkbenchInv, NEW u \in Users, NEW c \in Commands, Click(u, c)
  PROVE  WorkbenchInv'
  <1>1. PICK button, key : button \in Offers(doc.kind, pages[u].view) \ {"receive"} /\ Request(u, c, button, key)
    BY DEF Click
  <1>2. UNCHANGED <<doc, pages>>
    BY DEF Click
  <1>3. SoundDocument' /\ SoundClicks' /\ SoundRemote'
    BY <1>1, <1>2, RequestSound
  <1>4. SoundPages'
    BY <1>2, PagesStay DEF WorkbenchInv
  <1> QED
    BY <1>3, <1>4 DEF WorkbenchInv

LEMMA SubmitSound ==
  ASSUME WorkbenchInv, NEW u \in Users, NEW c \in Commands, submit(u, c)
  PROVE  WorkbenchInv'
  <1>1. PICK page : page = [pages[u] EXCEPT !.saving = TRUE]
    OBVIOUS
  <1>2. pages' = [pages EXCEPT ![u] = page] /\ doc' = doc
    BY <1>1 DEF submit, WorkbenchInv, SoundPages
  <1>3. Request(u, c, "receive", <<"form", pages[u].form>>) /\ pages[u].form # 0
    BY DEF submit, ReceiptKey
  <1>4. doc.kind = "purchaseOrder"
    BY <1>3 DEF WorkbenchInv, SoundPages, SoundPage
  <1>5. SoundDocument' /\ SoundClicks' /\ SoundRemote'
    BY <1>2, <1>3, <1>4, RequestSound
  <1>6. SoundPage(pages[u]) => SoundPage(page)
    BY <1>1 DEF SoundPage
  <1>7. SoundPages'
    BY <1>2, <1>6, PageChanges DEF WorkbenchInv
  <1> QED
    BY <1>5, <1>7 DEF WorkbenchInv

\* How the document may answer a click: nothing changes, or it moves as the service accepts.
Answering(click) ==
    \/ doc' = doc
    \/ \E move \in Accepted(click) :
           doc' = [doc EXCEPT !.status = move[2],
                              !.holder = IF click.button = "claim" THEN click.user ELSE @,
                              !.receipts = IF IsReceipt(click)
                                           THEN @ \cup {[key |-> click.key, form |-> click.form]} ELSE @]

\* The document that answers a click is as sound as before, and what a page was offered it does at that status.
LEMMA AnswersAreSound ==
  ASSUME SoundDocument, NEW click, Offered(click), Answering(click)
  PROVE  /\ SoundDocument'
         /\ doc'.kind = doc.kind
         /\ doc.kind = "putaway" /\ doc'.status = "READY" => doc.status = "READY"
         /\ doc'.status # doc.status /\ click.button \notin Unconditional => click.seen = doc.status
  <1>1. CASE doc' = doc
    BY <1>1 DEF SoundDocument
  <1>2. CASE doc' # doc
    <2>1. PICK move \in Accepted(click) :
                 doc' = [doc EXCEPT !.status = move[2],
                                    !.holder = IF click.button = "claim" THEN click.user ELSE @,
                                    !.receipts = IF IsReceipt(click)
                                                 THEN @ \cup {[key |-> click.key, form |-> click.form]} ELSE @]
      BY <1>2 DEF Answering
    <2>2. move \in Services[doc.kind][click.button] /\ move[1] = doc.status
      BY DEF Accepted
    <2>3. PICK holder : holder = IF click.button = "claim" THEN click.user ELSE doc.holder
      OBVIOUS
    <2>4. PICK receipts : receipts = IF IsReceipt(click) THEN doc.receipts \cup {[key |-> click.key, form |-> click.form]}
                                     ELSE doc.receipts
      OBVIOUS
    <2>5. doc' = [doc EXCEPT !.status = move[2], !.holder = holder, !.receipts = receipts]
      BY <2>1, <2>3, <2>4
    <2>6. /\ doc' = [kind |-> doc.kind, status |-> move[2], holder |-> holder, receipts |-> receipts]
          /\ doc'.kind = doc.kind /\ doc'.status = move[2] /\ doc'.holder = holder /\ doc'.receipts = receipts
      BY <2>5 DEF SoundDocument
    <2>7. doc.kind \in TaskKinds => move[2] # "READY" /\ (move[2] = "CLAIMED" => holder \in Users)
      <3>1. doc.kind \in TaskKinds => click.button \in Offers(doc.kind, click.seen)
        BY DEF Offered, TaskKinds
      <3> QED
        BY <2>2, <2>3, <3>1, TasksMoveOn DEF Offered
    <2>8. doc.kind = "putaway" => move[2] \in PutawayStatuses
      <3>1. doc.kind = "putaway" => click.button \in Offers(doc.kind, click.seen)
        BY DEF Offered
      <3>2. doc.kind = "putaway" => click.button \in {"claim", "complete", "exception"}
        BY <3>1 DEF Offers, Buttons, putawayPage
      <3> QED
        BY <2>2, <3>2 DEF Services, PutawayService, PutawayStatuses
    <2>9. \A receipt \in receipts : receipt = [key |-> <<"form", receipt.form>>, form |-> receipt.form]
      <3>1. ASSUME IsReceipt(click)
            PROVE  [key |-> click.key, form |-> click.form] = [key |-> <<"form", click.form>>, form |-> click.form]
        BY <3>1 DEF IsReceipt, Offered
      <3> QED
        BY <2>4, <3>1 DEF SoundDocument
    <2>10. SoundDocument'
      BY <2>6, <2>7, <2>9, <2>8 DEF SoundDocument
    <2>11. doc.kind = "putaway" => doc'.status # "READY"
      BY <2>6, <2>7 DEF TaskKinds
    <2>12. ASSUME click.button \notin Unconditional
           PROVE  click.seen = doc.status
      <3>1. click.button \in Offers(doc.kind, click.seen) /\ doc.kind \in DOMAIN Services
        BY <2>12 DEF Offered, SoundDocument, Unconditional
      <3>2. \/ doc.status = click.seen
            \/ doc.kind = "putaway" /\ click.seen = "CLAIMED" /\ doc.status = "READY"
        BY <2>2, <2>12, <3>1, OffersNameStatus
      <3> QED
        BY <3>2 DEF Offered, Past
    <2> QED
      BY <2>6, <2>10, <2>11, <2>12
  <1> QED
    BY <1>1, <1>2

\* What a page is told, or that nobody waits any more.
LEMMA TellsSound ==
  ASSUME WorkbenchInv, NEW c \in Commands, NEW answer, Tells(c, answer), clicks[c] # NoClick, answer # "found",
         doc'.kind = doc.kind, doc.kind = "putaway" /\ doc'.status = "READY" => doc.status = "READY"
  PROVE  SoundClicks'
  <1>1. PICK click : click = IF remote[c].state = "open" THEN [clicks[c] EXCEPT !.answer = answer] ELSE NoClick
    OBVIOUS
  <1>2. clicks' = [clicks EXCEPT ![c] = click]
    BY <1>1 DEF Tells
  <1>3. SoundClick(clicks[c])
    BY DEF WorkbenchInv, SoundClicks
  <1>4. SoundClick(click)
    BY <1>1, <1>3, AnsweredClicks
  <1> QED
    BY <1>2, <1>4, ClickChanges DEF WorkbenchInv

LEMMA ServeSound ==
  ASSUME WorkbenchInv, NEW c \in Commands, Serve(c)
  PROVE  /\ WorkbenchInv'
         /\ doc'.status # doc.status /\ clicks[c].button \notin Unconditional => clicks[c].seen = doc.status
  <1>1. PICK click : click = clicks[c]
    OBVIOUS
  <1>2. click # NoClick /\ Api!Apply(c) /\ Tells(c, "ok") /\ pages' = pages
    BY <1>1 DEF Serve
  <1>3. Answering(click)
    BY <1>1 DEF Serve, Answering
  <1>4. SoundDocument /\ Offered(click)
    BY <1>1, <1>2 DEF WorkbenchInv, SoundClicks, SoundClick
  <1>5. /\ SoundDocument'
        /\ doc'.kind = doc.kind
        /\ doc.kind = "putaway" /\ doc'.status = "READY" => doc.status = "READY"
        /\ doc'.status # doc.status /\ click.button \notin Unconditional => click.seen = doc.status
    BY <1>3, <1>4, AnswersAreSound
  <1>6. SoundClicks'
    BY <1>1, <1>2, <1>5, TellsSound
  <1>7. SoundPages'
    BY <1>2, <1>5, PagesStay DEF WorkbenchInv
  <1>8. SoundRemote'
    BY <1>2, RemoteMoves DEF WorkbenchInv
  <1> QED
    BY <1>1, <1>5, <1>6, <1>7, <1>8 DEF WorkbenchInv

LEMMA FindTaskSound ==
  ASSUME WorkbenchInv, NEW c \in Commands, FindTask(c)
  PROVE  WorkbenchInv'
  <1>1. PICK click : click = [clicks[c] EXCEPT !.answer = "found"]
    OBVIOUS
  <1>2. clicks' = [clicks EXCEPT ![c] = click] /\ UNCHANGED <<doc, pages, remote>>
    BY <1>1 DEF FindTask, WorkbenchInv, SoundClicks
  <1>3. clicks[c] # NoClick /\ IsException(clicks[c]) /\ SoundClick(clicks[c])
    BY DEF FindTask, WorkbenchInv, SoundClicks
  <1>4. SoundClick(click)
    BY <1>1, <1>3, AnsweredClicks
  <1>5. SoundClicks'
    BY <1>2, <1>4, ClickChanges DEF WorkbenchInv
  <1>6. SoundPages'
    BY <1>2, PagesStay DEF WorkbenchInv
  <1> QED
    BY <1>2, <1>5, <1>6 DEF WorkbenchInv, SoundDocument, SoundRemote

\* What is flagged was found as its user saw it, and can only have been completed since.
LEMMA FlagTaskSound ==
  ASSUME WorkbenchInv, NEW c \in Commands, FlagTask(c)
  PROVE  /\ WorkbenchInv'
         /\ doc'.status # doc.status =>
               clicks[c].seen = doc.status \/ (clicks[c].answer = "found" /\ doc.status = "COMPLETED")
  <1>1. PICK click : click = clicks[c]
    OBVIOUS
  <1>2. click.answer = "found" /\ Api!Apply(c) /\ Tells(c, "ok") /\ pages' = pages
    BY <1>1 DEF FlagTask
  <1>3. click # NoClick
    BY <1>2 DEF NoClick
  <1>4. Offered(click)
    BY <1>1, <1>3 DEF WorkbenchInv, SoundClicks, SoundClick
  <1>5. doc.kind = "putaway" /\ click.button = "exception"
    BY <1>2, <1>4 DEF Offered, IsException
  <1>6. click.seen = "CLAIMED"
    BY <1>4, <1>5 DEF Offered, Offers, Buttons, putawayPage
  <1>7. /\ doc' = [kind |-> doc.kind, status |-> "EXCEPTION", holder |-> doc.holder, receipts |-> doc.receipts]
        /\ doc'.kind = doc.kind /\ doc'.status = "EXCEPTION" /\ doc'.holder = doc.holder /\ doc'.receipts = doc.receipts
    BY DEF FlagTask, WorkbenchInv, SoundDocument
  <1>8. SoundDocument'
    BY <1>7 DEF WorkbenchInv, SoundDocument, PutawayStatuses
  <1>9. SoundClicks'
    BY <1>1, <1>2, <1>3, <1>7, TellsSound
  <1>10. SoundPages'
    BY <1>2, <1>7, PagesStay DEF WorkbenchInv
  <1>11. SoundRemote'
    BY <1>2, RemoteMoves DEF WorkbenchInv
  <1>12. doc.status \in PutawayStatuses /\ doc.status # "READY"
    BY <1>4, <1>5, <1>6 DEF WorkbenchInv, SoundDocument, Offered, Past
  <1> QED
    BY <1>1, <1>2, <1>6, <1>7, <1>8, <1>9, <1>10, <1>11, <1>12 DEF WorkbenchInv, PutawayStatuses

LEMMA RejectsSound ==
  ASSUME WorkbenchInv, NEW c \in Commands, Rejects(c)
  PROVE  WorkbenchInv'
  <1>1. clicks[c] # NoClick /\ Tells(c, "refused") /\ UNCHANGED <<doc, pages, remote>>
    BY DEF Rejects
  <1>2. SoundClicks'
    BY <1>1, TellsSound
  <1>3. SoundPages'
    BY <1>1, PagesStay DEF WorkbenchInv
  <1> QED
    BY <1>1, <1>2, <1>3 DEF WorkbenchInv, SoundDocument, SoundRemote

\* Other pages and callers move orders, and complete putaway tasks.
LEMMA ElsewhereSound ==
  ASSUME WorkbenchInv, Elsewhere
  PROVE  WorkbenchInv'
  <1>1. PICK move \in ElsewhereMoves(doc.kind) : doc' = [doc EXCEPT !.status = move[2]]
    BY DEF Elsewhere
  <1>2. /\ doc.kind \in {"salesOrder", "shipment", "putaway"}
        /\ doc.kind = "putaway" => move[2] = "COMPLETED"
    BY <1>1 DEF ElsewhereMoves, WorkbenchInv, SoundDocument, Services
  <1>3. /\ doc' = [kind |-> doc.kind, status |-> move[2], holder |-> doc.holder, receipts |-> doc.receipts]
        /\ doc'.kind = doc.kind /\ doc'.status = move[2] /\ doc'.holder = doc.holder /\ doc'.receipts = doc.receipts
    BY <1>1 DEF WorkbenchInv, SoundDocument
  <1>4. SoundDocument'
    BY <1>2, <1>3 DEF WorkbenchInv, SoundDocument, TaskKinds, PutawayStatuses
  <1>5. UNCHANGED <<pages, clicks, remote>>
    BY DEF Elsewhere
  <1>6. SoundPages' /\ SoundClicks'
    BY <1>2, <1>3, <1>5, PagesStay, ClicksStay DEF WorkbenchInv
  <1> QED
    BY <1>4, <1>5, <1>6 DEF WorkbenchInv, SoundRemote

\* The pages learn of success and of errors.
LEMMA ShowSuccessSound ==
  ASSUME WorkbenchInv, NEW c \in Commands, ShowSuccess(c)
  PROVE  WorkbenchInv'
  <1>1. PICK u : u = clicks[c].user
    OBVIOUS
  <1>2. clicks[c] # NoClick
    BY DEF ShowSuccess, NoClick
  <1>3. u \in Users
    BY <1>1, <1>2 DEF WorkbenchInv, SoundClicks, SoundClick, Offered
  <1>4. clicks' = [clicks EXCEPT ![c] = NoClick] /\ Api!Resolve(c) /\ doc' = doc
    BY DEF ShowSuccess
  <1>5. SoundClicks'
    BY <1>4, AnsweredClicks, ClickChanges DEF WorkbenchInv
  <1>6. SoundRemote'
    BY <1>4, RemoteMoves DEF WorkbenchInv
  <1>7. SoundPages'
    <2>1. CASE pages' = pages
      BY <1>4, <2>1, PagesStay DEF WorkbenchInv
    <2>2. CASE pages' # pages
      <3>1. PICK page : page = [pages[u] EXCEPT !.form = 0, !.saving = FALSE]
        OBVIOUS
      <3>2. pages' = [pages EXCEPT ![u] = page]
        BY <1>1, <1>3, <2>2, <3>1 DEF ShowSuccess, WorkbenchInv, SoundPages
      <3>3. SoundPage(pages[u]) => SoundPage(page)
        BY <3>1 DEF SoundPage
      <3> QED
        BY <1>3, <1>4, <3>2, <3>3, PageChanges DEF WorkbenchInv
    <2> QED
      BY <2>1, <2>2
  <1> QED
    BY <1>4, <1>5, <1>6, <1>7 DEF WorkbenchInv, SoundDocument

LEMMA ShowErrorSound ==
  ASSUME WorkbenchInv, NEW c \in Commands, ShowError(c)
  PROVE  WorkbenchInv'
  <1>1. PICK u : u = clicks[c].user
    OBVIOUS
  <1>2. PICK click : click = IF clicks[c].answer \in {"none", "found"} THEN clicks[c] ELSE NoClick
    OBVIOUS
  <1>3. clicks' = [clicks EXCEPT ![c] = click] /\ Api!Fail(c) /\ doc' = doc
    BY <1>2 DEF ShowError, WorkbenchInv, SoundClicks
  <1>4. SoundClicks'
    BY <1>2, <1>3, AnsweredClicks, ClickChanges DEF WorkbenchInv
  <1>5. SoundRemote'
    BY <1>3, RemoteMoves DEF WorkbenchInv
  <1>6. PICK saving : saving = (pages[u].saving /\ ~(IsReceipt(clicks[c]) /\ clicks[c].form = pages[u].form))
    OBVIOUS
  <1>7. pages' = [pages EXCEPT ![u].saving = saving]
    BY <1>1, <1>6 DEF ShowError, WorkbenchInv, SoundPages
  <1>8. SoundPages'
    <2>1. CASE u \in Users
      <3>1. PICK page : page = [pages[u] EXCEPT !.saving = saving]
        OBVIOUS
      <3>2. pages' = [pages EXCEPT ![u] = page]
        BY <1>7, <3>1
      <3>3. SoundPage(pages[u]) => SoundPage(page)
        BY <3>1 DEF SoundPage
      <3> QED
        BY <1>3, <2>1, <3>2, <3>3, PageChanges DEF WorkbenchInv
    <2>2. CASE u \notin Users
      <3>1. pages' = pages
        BY <1>7, <2>2 DEF WorkbenchInv, SoundPages
      <3> QED
        BY <1>3, <3>1, PagesStay DEF WorkbenchInv
    <2> QED
      BY <2>1, <2>2
  <1> QED
    BY <1>3, <1>4, <1>5, <1>8 DEF WorkbenchInv, SoundDocument

\* Every step.
LEMMA WorkbenchNextSound == WorkbenchInv /\ [WorkbenchNext]_workbenchVars => WorkbenchInv'
  <1> SUFFICES ASSUME WorkbenchInv, [WorkbenchNext]_workbenchVars
               PROVE  WorkbenchInv'
    OBVIOUS
  <1>1. ASSUME NEW u \in Users, Read(u) \/ Show(u) \/ OpenReceiptForm(u) \/ CloseForm(u)
        PROVE  WorkbenchInv'
    BY <1>1, ReadSound, ShowSound, OpenReceiptFormSound, CloseFormSound
  <1>2. ASSUME NEW u \in Users, NEW c \in Commands, Click(u, c) \/ submit(u, c)
        PROVE  WorkbenchInv'
    BY <1>2, ClickSound, SubmitSound
  <1>3. ASSUME NEW c \in Commands, Serve(c) \/ FindTask(c) \/ FlagTask(c) \/ Rejects(c) \/ ShowSuccess(c) \/ ShowError(c)
        PROVE  WorkbenchInv'
    BY <1>3, ServeSound, FindTaskSound, FlagTaskSound, RejectsSound, ShowSuccessSound, ShowErrorSound
  <1>4. CASE Elsewhere
    BY <1>4, ElsewhereSound
  <1>5. CASE UNCHANGED workbenchVars
    <2>1. UNCHANGED <<doc, pages, clicks, remote>>
      BY <1>5 DEF workbenchVars
    <2>2. SoundPages' /\ SoundClicks'
      BY <2>1, PagesStay, ClicksStay DEF WorkbenchInv
    <2> QED
      BY <2>1, <2>2 DEF WorkbenchInv, SoundDocument, SoundRemote
  <1> QED
    BY <1>1, <1>2, <1>3, <1>4, <1>5 DEF WorkbenchNext

\* Whatever users click, and however late or often requests are served, every request under way asks for what its
\* page offered, tasks that are claimed have a holder, and receipts bear the keys of their forms: the inductive
\* invariant of the pages.
THEOREM WorkbenchInvariant == WorkbenchSpec => []WorkbenchInv
  BY WorkbenchInitSound, WorkbenchNextSound, PTL DEF WorkbenchSpec

\* However often a receipt form is submitted again after an error, and whichever of its requests are served late,
\* it posts one receipt: the key that GoodsReceiptForm makes when it opens is all that ties them together.
THEOREM FormsAlwaysPostOnce == WorkbenchSpec => []FormPostsOnce
  <1>1. WorkbenchInv => FormPostsOnce
    BY DEF WorkbenchInv, SoundDocument, FormPostsOnce
  <1> QED
    BY <1>1, WorkbenchInvariant, PTL

\* In every reachable state a button that is shown for the present status, but for the three dead ones, sends what
\* its route asks for, and its service does what it asks for.
THEOREM ButtonsAlwaysLive == WorkbenchSpec => []NoDeadButton
  <1>1. WorkbenchInv => NoDeadButton
    <2> SUFFICES ASSUME WorkbenchInv, NEW u \in Users, pages[u].view = doc.status, doc.holder \in {u, Nobody},
                        NEW button \in Offers(doc.kind, doc.status), <<doc.kind, button>> \notin DeadButtons
                 PROVE  /\ SentAs(doc.kind, button) # "nothing"
                        /\ Accepted([NoClick EXCEPT !.user = u, !.button = button]) # {}
      BY DEF NoDeadButton
    <2>1. doc.kind \in DOMAIN Services
      BY DEF WorkbenchInv, SoundDocument
    <2>2. SentAs(doc.kind, button) # "nothing" /\ (<<doc.kind, button>> \in NeedKey => SentAs(doc.kind, button) = "keyed")
      BY <2>1, RequestsFitRoutes
    <2>3. <<doc.status, Target(doc.kind, button)>> \in Services[doc.kind][button]
      BY <2>1, ServicesAccept
    <2>4. <<doc.kind, button>> \in HolderOnly => doc.holder = u
      BY <2>1, HoldersAct, NobodyAssumption DEF WorkbenchInv, SoundDocument
    <2>5. PICK click : click = [NoClick EXCEPT !.user = u, !.button = button]
      OBVIOUS
    <2>6. click.user = u /\ click.button = button
      BY <2>5 DEF NoClick
    <2>7. PICK move : move = <<doc.status, Target(doc.kind, button)>>
      OBVIOUS
    <2>8. move \in Services[doc.kind][button] /\ move[1] = doc.status
      BY <2>3, <2>7
    <2>9. move \in Accepted(click)
      BY <2>2, <2>4, <2>6, <2>8 DEF Accepted
    <2> QED
      BY <2>2, <2>5, <2>9
  <1> QED
    BY <1>1, WorkbenchInvariant, PTL

\* A double click, a second user, a page that is out of date or a request that is served after its page has given
\* it up: unless it asks for something that is meant at any status, a click moves the document only from the
\* status that its user was shown; but the exception of a putaway task, found as it was shown, may be written over
\* its completion.
THEOREM StaleClicksAlwaysSafe == WorkbenchSpec => StaleClicksAreSafe
  <1> DEFINE A == \A c \in Commands :
                     remote'[c].applied > remote[c].applied /\ doc'.status # doc.status
                     /\ clicks[c].button \notin Unconditional
                     => \/ clicks[c].seen = doc.status
                        \/ clicks[c].answer = "found" /\ doc.status = "COMPLETED"
  <1>1. WorkbenchInv /\ [WorkbenchNext]_workbenchVars => [A]_workbenchVars
    <2> SUFFICES ASSUME WorkbenchInv, WorkbenchNext, NEW c \in Commands, remote'[c].applied > remote[c].applied,
                        doc'.status # doc.status, clicks[c].button \notin Unconditional
                 PROVE  \/ clicks[c].seen = doc.status
                        \/ clicks[c].answer = "found" /\ doc.status = "COMPLETED"
      OBVIOUS
    <2>1. remote' # remote
      BY DEF WorkbenchInv, SoundRemote
    <2>2. doc' # doc
      OBVIOUS
    <2>3. PICK d \in Commands : Serve(d) \/ FlagTask(d)
      BY <2>1, <2>2 DEF WorkbenchNext, Read, Show, OpenReceiptForm, CloseForm, Click, submit, FindTask, Rejects,
                        ShowSuccess, ShowError, Elsewhere
    <2>4. c = d
      BY <2>3, RemoteMoves DEF Serve, FlagTask, WorkbenchInv
    <2> QED
      BY <2>3, <2>4, ServeSound, FlagTaskSound
  <1> QED
    BY <1>1, WorkbenchInvariant, PTL DEF WorkbenchSpec, StaleClicksAreSafe
=============================================================================
