------------------------- MODULE AuthSessions_proofs -------------------------
(***************************************************************************)
(* Proofs about AuthSessions for any number of requests, passwords,        *)
(* sessions and reset tokens, and about EmailOutbox, where its requests    *)
(* leave their messages, for any number of messages, workers, attempts and *)
(* crashes and any batch size.                                             *)
(***************************************************************************)
EXTENDS AuthSessions, EmailOutbox, SequenceTheorems, FiniteSetTheorems, TLAPS

----------------------------------------------------------------------------
(* Sequences of rows.                                                      *)

\* A sequence whose elements are changed one by one.
LEMMA Remade ==
    ASSUME NEW S, NEW n \in Nat, NEW f \in [1..n -> S]
    PROVE  f \in Seq(S) /\ Len(f) = n /\ DOMAIN f = 1..n
  OBVIOUS

\* What the session rows are.
LEMMA SessionsFacts ==
    ASSUME TypeOK
    PROVE  /\ Len(sessions) \in Nat /\ DOMAIN sessions = 1..Len(sessions)
           /\ \A s \in DOMAIN sessions : /\ sessions[s] \in Sessions
                                         /\ sessions[s].family \in 1..s
                                         /\ s \in Nat
           /\ Len(resets) \in Nat /\ DOMAIN resets = 1..Len(resets)
           /\ \A t \in DOMAIN resets : resets[t] \in Resets /\ t \in Nat
           /\ Live \subseteq DOMAIN sessions /\ Live \subseteq Nat
           /\ Unused \subseteq DOMAIN resets /\ Unused \subseteq Nat
  BY DEF TypeOK, Live, Unused

\* Revoking a row makes a row.
LEMMA RevokedAsType ==
    ASSUME NEW row \in Sessions, NEW reason \in Reasons
    PROVE  /\ RevokedAs(row, reason) \in Sessions
           /\ RevokedAs(row, reason).family = row.family
           /\ RevokedAs(row, reason).revoked = reason
           /\ RevokedAs(row, reason).revoked # "no"
           /\ RevokedAs(row, reason).recent = (reason = "ROTATED")
  BY DEF RevokedAs, Sessions, Reasons

\* Marking token rows used makes token rows, and only those tokens are used more than before.
LEMMA UsedUpType ==
    ASSUME TypeOK, NEW tokens
    PROVE  /\ UsedUp(tokens) \in Seq(Resets)
           /\ Len(UsedUp(tokens)) = Len(resets) /\ DOMAIN UsedUp(tokens) = DOMAIN resets
           /\ \A t \in DOMAIN resets :
                 UsedUp(tokens)[t].used = (t \in tokens \/ resets[t].used)
  <1>1. \A t \in DOMAIN resets :
           /\ (IF t \in tokens THEN [resets[t] EXCEPT !.used = TRUE] ELSE resets[t]) \in Resets
           /\ (IF t \in tokens THEN [resets[t] EXCEPT !.used = TRUE] ELSE resets[t]).used
                = (t \in tokens \/ resets[t].used)
    BY SessionsFacts DEF Resets
  <1>2. UsedUp(tokens) \in [1..Len(resets) -> Resets]
    BY <1>1, SessionsFacts DEF UsedUp
  <1> QED
    BY <1>1, <1>2, SessionsFacts, Remade DEF UsedUp

----------------------------------------------------------------------------
(* Steps that change one request only.                                     *)

\* Request r may be what handler h does next.
Fits(h, r) ==
    /\ r \in Requests
    /\ r.step \in {"rotate", "expire", "reuse"} => r.session \in DOMAIN sessions
    /\ r.step = "consume" => r.token \in DOMAIN resets
    /\ r.step = "rehash" => r.password \in Passwords
    /\ r.rows \subseteq DOMAIN sessions /\ r.tokens \subseteq DOMAIN resets
    /\ r.step \in {"revoke", "request"} =>
          /\ r.tokens \subseteq Unused
          /\ \A g \in Handlers : g # h => r.tokens \cap Holds(g) = {}
    /\ r.step = "revoke" /\ r.token # 0 => r.token \in r.tokens
    /\ r.step = "reuse" => Over(sessions[r.session].family)
    /\ r.step = "revoke" /\ r.reason = "REUSE_DETECTED" => \A s \in r.rows : Over(sessions[s].family)

\* A handler may do nothing.
LEMMA IdleFits ==
    ASSUME NEW h \in Handlers
    PROVE  Fits(h, Idle)
  BY DEF Fits, Idle, Requests, Steps, Reasons

\* A handler that goes on with a request that fits keeps the invariant,
\* whatever account it leaves.
LEMMA RequestChanged ==
    ASSUME SessionsInv, NEW h \in Handlers, NEW r, Fits(h, r), Goes(h, r),
           account' \in Accounts, UNCHANGED <<sessions, resets, spent>>
    PROVE  SessionsInv'
  <1>1. /\ handlers \in [Handlers -> Requests]
        /\ handlers' \in [Handlers -> Requests]
        /\ \A g \in Handlers : handlers'[g] = IF g = h THEN r ELSE handlers[g]
    BY DEF SessionsInv, TypeOK, Goes, Fits
  <1>2. /\ sessions' = sessions /\ resets' = resets /\ spent' = spent
    OBVIOUS
  <1>3. TypeOK'
    BY <1>1, <1>2 DEF SessionsInv, TypeOK, Fits
  <1>4. FamiliesNeverFork' /\ AlarmsAreTrue'
    BY <1>2 DEF SessionsInv, FamiliesNeverFork, AlarmsAreTrue, Over, Live
  <1>5. Unused' = Unused
    BY <1>2 DEF Unused
  <1>6. \A family : Over(family)' <=> Over(family)
    BY <1>2 DEF Over
  <1>7. \A g \in Handlers : g # h => Holds(g)' = Holds(g)
    BY <1>1 DEF Holds
  <1>8. /\ Holds(h)' \subseteq Unused
        /\ \A g \in Handlers : g # h => Holds(h)' \cap Holds(g) = {}
    BY <1>1 DEF Holds, Fits
  <1>9. ASSUME NEW g \in Handlers PROVE RequestSound(g)'
    <2>1. CASE g = h
      BY <1>1, <1>2, <1>5, <1>6, <1>8, <2>1 DEF RequestSound, Fits
    <2>2. CASE g # h
      <3>1. RequestSound(g)
        BY DEF SessionsInv
      <3> QED
        BY <1>1, <1>2, <1>5, <1>6, <1>7, <2>2, <3>1 DEF RequestSound
    <2> QED
      BY <2>1, <2>2
  <1>10. \A h1, h2 \in Handlers : h1 # h2 => Holds(h1)' \cap Holds(h2)' = {}
    <2>1. \A h1, h2 \in Handlers : h1 # h2 => Holds(h1) \cap Holds(h2) = {}
      BY DEF SessionsInv
    <2> QED
      BY <1>7, <1>8, <2>1
  <1>11. \A t \in DOMAIN spent' : spent'[t] <= 1 /\ (spent'[t] = 1 => t \in DOMAIN resets' \ Unused')
    BY <1>2, <1>5 DEF SessionsInv
  <1> QED
    BY <1>3, <1>4, <1>9, <1>10, <1>11 DEF SessionsInv

\* The same of a step that leaves the account too.
LEMMA GoesSound ==
    ASSUME SessionsInv, NEW h \in Handlers, NEW r, Fits(h, r), Goes(h, r),
           UNCHANGED <<account, sessions, resets, spent>>
    PROVE  SessionsInv'
  <1>1. account' \in Accounts
    BY DEF SessionsInv, TypeOK
  <1> QED
    BY <1>1, RequestChanged

\* A handler that fails leaves the rows as they are.
LEMMA FailSound ==
    ASSUME SessionsInv, NEW h \in Handlers, Fail(h)
    PROVE  SessionsInv'
  BY IdleFits, GoesSound DEF Fail, Ends

\* A login that has verified the password has touched nothing yet.
LEMMA BeginLoginSound ==
    ASSUME SessionsInv, NEW h \in Handlers, BeginLogin(h)
    PROVE  SessionsInv'
  <1>1. account.password \in Passwords
    BY DEF SessionsInv, TypeOK, Accounts
  <1>2. Fits(h, [Idle EXCEPT !.step = "rehash", !.password = account.password])
    BY <1>1 DEF Fits, Idle, Requests, Steps, Reasons
  <1>3. Fits(h, [Idle EXCEPT !.step = "open"])
    BY DEF Fits, Idle, Requests, Steps, Reasons
  <1> QED
    BY <1>2, <1>3, GoesSound DEF BeginLogin

\* A session that is over gives reason to take its family for stolen; if it was ended by an alarm,
\* the alarm was true.
LEMMA OverdueReuse ==
    ASSUME SessionsInv, NEW s \in DOMAIN sessions, ~RotatedLately(s), sessions[s].revoked # "no"
    PROVE  Over(sessions[s].family)
  BY DEF SessionsInv, AlarmsAreTrue, Over, RotatedLately

\* Whatever a refresh finds out about its session, it is a request that fits.
LEMMA BeginRefreshSound ==
    ASSUME SessionsInv, NEW h \in Handlers, NEW s \in DOMAIN sessions, BeginRefresh(h, s)
    PROVE  SessionsInv'
  <1>1. s \in Nat
    BY SessionsFacts DEF SessionsInv
  <1>2. ~RotatedLately(s) /\ UNCHANGED <<account, sessions, resets, spent>>
    BY DEF BeginRefresh
  <1>3. CASE sessions[s].revoked # "no" /\ Goes(h, [Idle EXCEPT !.step = "reuse", !.session = s])
    <2>1. Over(sessions[s].family)
      BY <1>2, <1>3, OverdueReuse
    <2>2. Fits(h, [Idle EXCEPT !.step = "reuse", !.session = s])
      BY <1>1, <2>1 DEF Fits, Idle, Requests, Steps, Reasons
    <2> QED
      BY <1>2, <1>3, <2>2, GoesSound
  <1>4. CASE Goes(h, [Idle EXCEPT !.step = "expire", !.session = s])
    <2>1. Fits(h, [Idle EXCEPT !.step = "expire", !.session = s])
      BY <1>1 DEF Fits, Idle, Requests, Steps, Reasons
    <2> QED
      BY <1>2, <1>4, <2>1, GoesSound
  <1>5. CASE Goes(h, [Idle EXCEPT !.step = "rotate", !.session = s])
    <2>1. Fits(h, [Idle EXCEPT !.step = "rotate", !.session = s])
      BY <1>1 DEF Fits, Idle, Requests, Steps, Reasons
    <2> QED
      BY <1>2, <1>5, <2>1, GoesSound
  <1> QED
    BY <1>3, <1>4, <1>5 DEF BeginRefresh

\* An alarm matches live sessions of a family that gave reason to.
LEMMA MatchFamilySound ==
    ASSUME SessionsInv, NEW h \in Handlers, MatchFamily(h)
    PROVE  SessionsInv'
  <1> DEFINE family == sessions[handlers[h].session].family
             rows == {s \in Live : sessions[s].family = family}
             r == [Idle EXCEPT !.step = "revoke", !.reason = "REUSE_DETECTED", !.rows = rows]
  <1>1. Over(family)
    BY DEF SessionsInv, RequestSound, MatchFamily
  <1>2. rows \subseteq DOMAIN sessions /\ rows \subseteq Nat
    BY SessionsFacts DEF SessionsInv
  <1>3. \A s \in rows : Over(sessions[s].family)
    BY <1>1
  <1>4. Goes(h, r) /\ UNCHANGED <<account, sessions, resets, spent>>
    BY DEF MatchFamily
  <1> HIDE DEF family, rows
  <1>5. Fits(h, r)
    BY <1>2, <1>3 DEF Fits, Idle, Requests, Steps, Reasons
  <1> QED
    BY <1>4, <1>5, GoesSound

\* Logging out everywhere begins by reading.
LEMMA BeginLogoutAllSound ==
    ASSUME SessionsInv, NEW h \in Handlers, BeginLogoutAll(h)
    PROVE  SessionsInv'
  <1>1. Fits(h, [Idle EXCEPT !.step = "all"])
    BY DEF Fits, Idle, Requests, Steps, Reasons
  <1> QED
    BY <1>1, GoesSound DEF BeginLogoutAll

\* A change of the password begins by reading.
LEMMA BeginChangeSound ==
    ASSUME SessionsInv, NEW h \in Handlers, NEW new \in Passwords, BeginChange(h, new)
    PROVE  SessionsInv'
  <1>1. Fits(h, [Idle EXCEPT !.step = "all", !.password = new])
    BY DEF Fits, Idle, Requests, Steps, Reasons
  <1> QED
    BY <1>1, GoesSound DEF BeginChange

\* A reset begins by reading a token that exists.
LEMMA BeginResetSound ==
    ASSUME SessionsInv, NEW h \in Handlers, NEW t \in DOMAIN resets, NEW new \in Passwords,
           BeginReset(h, t, new)
    PROVE  SessionsInv'
  <1>1. t \in Nat
    BY SessionsFacts DEF SessionsInv
  <1>2. Fits(h, [Idle EXCEPT !.step = "consume", !.token = t, !.password = new])
    BY <1>1 DEF Fits, Idle, Requests, Steps, Reasons
  <1> QED
    BY <1>2, GoesSound DEF BeginReset

\* The tokens a handler waits for are those the others hold.
LEMMA LockedTokens ==
    ASSUME NEW h \in Handlers, Unused \cap TokensLocked(h) = {}
    PROVE  \A g \in Handlers : g # h => Unused \cap Holds(g) = {}
  BY DEF TokensLocked, Holds

\* A request for a token takes the unused ones, none of which another holds.
LEMMA BeginRequestSound ==
    ASSUME SessionsInv, NEW h \in Handlers, BeginRequest(h)
    PROVE  SessionsInv'
  <1>1. Unused \subseteq DOMAIN resets /\ Unused \subseteq Nat
    BY SessionsFacts DEF SessionsInv
  <1>2. \A g \in Handlers : g # h => Unused \cap Holds(g) = {}
    BY LockedTokens DEF BeginRequest
  <1>3. Fits(h, [Idle EXCEPT !.step = "request", !.tokens = Unused])
    BY <1>1, <1>2 DEF Fits, Idle, Requests, Steps, Reasons
  <1> QED
    BY <1>3, GoesSound DEF BeginRequest

\* The request of a handler is a record of its type, about rows that exist.
LEMMA HandlerFacts ==
    ASSUME SessionsInv, NEW h \in Handlers
    PROVE  /\ handlers[h] \in Requests
           /\ handlers[h].step \in {"rotate", "expire", "reuse"} => handlers[h].session \in DOMAIN sessions
           /\ handlers[h].step = "consume" => handlers[h].token \in DOMAIN resets
           /\ handlers[h].step = "rehash" => handlers[h].password \in Passwords
           /\ handlers[h].rows \subseteq DOMAIN sessions /\ handlers[h].tokens \subseteq DOMAIN resets
           /\ RequestSound(h)
  BY DEF SessionsInv, TypeOK

\* Logging out everywhere and a change of the password match the live sessions and take no token.
LEMMA MatchAllSound ==
    ASSUME SessionsInv, NEW h \in Handlers, MatchAll(h)
    PROVE  SessionsInv'
  <1>1. Live \subseteq DOMAIN sessions /\ Live \subseteq Nat
    BY SessionsFacts DEF SessionsInv
  <1>2. handlers[h].password \in Passwords \cup {NoPassword}
    BY HandlerFacts DEF Requests
  <1>3. Fits(h, [Idle EXCEPT !.step = "revoke", !.password = handlers[h].password, !.reason = "ENDED",
                             !.rows = Live])
    BY <1>1, <1>2 DEF Fits, Idle, Requests, Steps, Reasons
  <1> QED
    BY <1>3, GoesSound DEF MatchAll

\* A reset takes the unused tokens, its own included, none of which another holds.
LEMMA MatchForResetSound ==
    ASSUME SessionsInv, NEW h \in Handlers, MatchForReset(h)
    PROVE  SessionsInv'
  <1> DEFINE r == [handlers[h] EXCEPT !.step = "revoke", !.reason = "ENDED", !.rows = Live,
                                      !.tokens = Unused]
  <1>1. UNCHANGED <<account, sessions, resets, spent>>
    BY DEF MatchForReset
  <1>2. CASE handlers[h].token \notin Unused /\ Ends(h)
    BY <1>1, <1>2, IdleFits, GoesSound DEF Ends
  <1>3. CASE handlers[h].token \in Unused /\ Unused \cap TokensLocked(h) = {} /\ Goes(h, r)
    <2>1. /\ Live \subseteq DOMAIN sessions /\ Live \subseteq Nat
          /\ Unused \subseteq DOMAIN resets /\ Unused \subseteq Nat
      BY SessionsFacts DEF SessionsInv
    <2>2. \A g \in Handlers : g # h => Unused \cap Holds(g) = {}
      BY <1>3, LockedTokens
    <2>3. handlers[h] \in Requests
      BY HandlerFacts
    <2>4. r \in Requests /\ r.step = "revoke" /\ r.token = handlers[h].token /\ r.tokens = Unused
          /\ r.rows = Live /\ r.reason = "ENDED"
      BY <2>1, <2>3 DEF Requests, Steps, Reasons
    <2> HIDE DEF r
    <2>5. Fits(h, r)
      BY <1>3, <2>1, <2>2, <2>4 DEF Fits
    <2> QED
      BY <1>1, <1>3, <2>5, GoesSound
  <1> QED
    BY <1>2, <1>3 DEF MatchForReset

----------------------------------------------------------------------------
(* Steps that change sessions.                                             *)

\* Rows are only added; a row that is over stays so, for the reason it had, and does not get younger.
Later ==
    /\ DOMAIN sessions \subseteq DOMAIN sessions'
    /\ \A s \in DOMAIN sessions :
          /\ sessions'[s].family = sessions[s].family
          /\ sessions[s].revoked # "no" =>
                sessions'[s].revoked = sessions[s].revoked /\ (sessions'[s].recent => sessions[s].recent)

\* Sessions go on, some handlers end, and no token changes.
LEMMA SessionsSound ==
    ASSUME SessionsInv, TypeOK', Later, FamiliesNeverFork',
           \A s \in DOMAIN sessions' : sessions'[s].revoked = "REUSE_DETECTED" =>
              s \in DOMAIN sessions /\ sessions[s].revoked = "REUSE_DETECTED",
           \A h \in Handlers : handlers'[h] = handlers[h] \/ handlers'[h] = Idle,
           resets' = resets, spent' = spent
    PROVE  SessionsInv'
  <1>1. AlarmsAreTrue'
    <2> SUFFICES ASSUME NEW s \in DOMAIN sessions', sessions'[s].revoked = "REUSE_DETECTED"
                 PROVE  Over(sessions[s].family)'
      BY DEF AlarmsAreTrue
    <2>1. s \in DOMAIN sessions /\ sessions[s].revoked = "REUSE_DETECTED"
      OBVIOUS
    <2>2. sessions'[s].family = sessions[s].family
      BY <2>1 DEF Later
    <2>3. Over(sessions[s].family)
      BY <2>1 DEF SessionsInv, AlarmsAreTrue
    <2> QED
      BY <2>2, <2>3 DEF Over, Later
  <1>2. Unused' = Unused
    BY DEF Unused
  <1>3. \A h \in Handlers : Holds(h)' = Holds(h) \/ Holds(h)' = {}
    BY DEF Holds, Idle
  <1>4. ASSUME NEW h \in Handlers PROVE RequestSound(h)'
    <2>1. CASE handlers'[h] = Idle
      BY <2>1 DEF RequestSound, Holds, Idle
    <2>2. CASE handlers'[h] = handlers[h]
      <3>1. RequestSound(h) /\ handlers[h].rows \subseteq DOMAIN sessions
            /\ (handlers[h].step = "reuse" => handlers[h].session \in DOMAIN sessions)
        BY HandlerFacts
      <3>2. \A s \in DOMAIN sessions : Over(sessions[s].family) => Over(sessions[s].family)'
        <4> SUFFICES ASSUME NEW s \in DOMAIN sessions, Over(sessions[s].family)
                     PROVE  Over(sessions[s].family)'
          OBVIOUS
        <4>1. sessions'[s].family = sessions[s].family
          BY DEF Later
        <4> QED
          BY <4>1 DEF Over, Later
      <3>3. Holds(h)' = Holds(h)
        BY <2>2 DEF Holds
      <3> QED
        BY <1>2, <2>2, <3>1, <3>2, <3>3 DEF RequestSound
    <2> QED
      BY <2>1, <2>2
  <1>5. \A h1, h2 \in Handlers : h1 # h2 => Holds(h1)' \cap Holds(h2)' = {}
    BY <1>3 DEF SessionsInv
  <1>6. \A t \in DOMAIN spent' : spent'[t] <= 1 /\ (spent'[t] = 1 => t \in DOMAIN resets' \ Unused')
    BY <1>2 DEF SessionsInv
  <1> QED
    BY <1>1, <1>4, <1>5, <1>6 DEF SessionsInv

\* A handler that ends, or goes on as it was.
LEMMA EndsType ==
    ASSUME SessionsInv, NEW h \in Handlers, Ends(h)
    PROVE  /\ handlers' \in [Handlers -> Requests]
           /\ \A g \in Handlers : handlers'[g] = handlers[g] \/ handlers'[g] = Idle
  BY IdleFits DEF SessionsInv, TypeOK, Ends, Goes, Fits

\* The variables keep their types when only sessions change and some handlers end.
LEMMA SessionsType ==
    ASSUME SessionsInv, Later, sessions' \in Seq(Sessions),
           \A s \in DOMAIN sessions' : sessions'[s].family \in 1..s,
           handlers' \in [Handlers -> Requests],
           \A g \in Handlers : handlers'[g] = handlers[g] \/ handlers'[g] = Idle,
           resets' = resets, spent' = spent, account' = account
    PROVE  TypeOK'
  BY DEF SessionsInv, TypeOK, Later, Idle

\* One row that was live is changed, and its family is not.
LEMMA OneRowSound ==
    ASSUME SessionsInv, NEW s \in DOMAIN sessions, NEW row \in Sessions,
           row.family = sessions[s].family,
           row.revoked # "REUSE_DETECTED" \/ row.revoked = sessions[s].revoked,
           sessions[s].revoked # "no" =>
              row.revoked = sessions[s].revoked /\ (row.recent => sessions[s].recent),
           sessions' = [sessions EXCEPT ![s] = row],
           handlers' \in [Handlers -> Requests],
           \A g \in Handlers : handlers'[g] = handlers[g] \/ handlers'[g] = Idle,
           resets' = resets, spent' = spent, account' = account
    PROVE  SessionsInv'
  <1>1. sessions \in Seq(Sessions) /\ DOMAIN sessions = 1..Len(sessions) /\ Len(sessions) \in Nat
        /\ \A k \in DOMAIN sessions : sessions[k].family \in 1..k
    BY SessionsFacts DEF SessionsInv, TypeOK
  <1>2. /\ sessions' \in Seq(Sessions) /\ DOMAIN sessions' = DOMAIN sessions
        /\ \A k \in DOMAIN sessions : sessions'[k] = IF k = s THEN row ELSE sessions[k]
    BY <1>1, ExceptSeq
  <1>3. Later
    BY <1>2 DEF Later
  <1>4. FamiliesNeverFork'
    BY <1>2 DEF SessionsInv, FamiliesNeverFork, Live
  <1>5. \A k \in DOMAIN sessions' : sessions'[k].revoked = "REUSE_DETECTED" =>
           k \in DOMAIN sessions /\ sessions[k].revoked = "REUSE_DETECTED"
    BY <1>2
  <1>6. TypeOK'
    BY <1>1, <1>2, <1>3, SessionsType
  <1> QED
    BY <1>3, <1>4, <1>5, <1>6, SessionsSound

\* An expired session is ended unless it is over.
LEMMA ExpireSound ==
    ASSUME SessionsInv, NEW h \in Handlers, Expire(h)
    PROVE  SessionsInv'
  <1> DEFINE s == handlers[h].session
  <1>1. s \in DOMAIN sessions
    BY HandlerFacts DEF Expire
  <1>2. resets' = resets /\ spent' = spent /\ account' = account
    BY DEF Expire
  <1>3. /\ handlers' \in [Handlers -> Requests]
        /\ \A g \in Handlers : handlers'[g] = handlers[g] \/ handlers'[g] = Idle
    BY EndsType DEF Expire
  <1>4. CASE s \in Live
    <2>1. sessions' = [sessions EXCEPT ![s] = RevokedAs(sessions[s], "ENDED")]
      BY <1>1, <1>4 DEF Expire
    <2>2. sessions[s] \in Sessions /\ "ENDED" \in Reasons
      BY <1>1, SessionsFacts DEF SessionsInv, Reasons
    <2>3. sessions[s].revoked = "no"
      BY <1>4 DEF Live
    <2> QED
      BY <1>1, <1>2, <1>3, <2>1, <2>2, <2>3, RevokedAsType, OneRowSound
  <1>5. CASE s \notin Live
    <2>1. sessions' = sessions
      BY <1>5 DEF Expire
    <2>2. Fits(h, Idle) /\ Goes(h, Idle)
      BY IdleFits DEF Expire, Ends
    <2> QED
      BY <1>2, <2>1, <2>2, GoesSound
  <1> QED
    BY <1>4, <1>5

\* Logging out ends one live session.
LEMMA LogoutSound ==
    ASSUME SessionsInv, NEW s \in DOMAIN sessions, Logout(s)
    PROVE  SessionsInv'
  <1>1. sessions' = [sessions EXCEPT ![s] = RevokedAs(sessions[s], "ENDED")]
        /\ sessions[s].revoked = "no"
        /\ resets' = resets /\ spent' = spent /\ account' = account /\ handlers' = handlers
    BY DEF Logout, Live
  <1>2. sessions[s] \in Sessions /\ "ENDED" \in Reasons
    BY SessionsFacts DEF SessionsInv, Reasons
  <1>3. handlers' \in [Handlers -> Requests]
    BY <1>1 DEF SessionsInv, TypeOK
  <1> QED
    BY <1>1, <1>2, <1>3, RevokedAsType, OneRowSound

\* The grace period of a rotated session ends.
LEMMA AgesSound ==
    ASSUME SessionsInv, NEW s \in DOMAIN sessions, Ages(s)
    PROVE  SessionsInv'
  <1>1. sessions' = [sessions EXCEPT ![s] = [sessions[s] EXCEPT !.recent = FALSE]]
        /\ resets' = resets /\ spent' = spent /\ account' = account /\ handlers' = handlers
    BY DEF Ages
  <1>2. sessions[s] \in Sessions
    BY SessionsFacts DEF SessionsInv
  <1>3. handlers' \in [Handlers -> Requests]
    BY <1>1 DEF SessionsInv, TypeOK
  <1>4. /\ [sessions[s] EXCEPT !.recent = FALSE] \in Sessions
        /\ [sessions[s] EXCEPT !.recent = FALSE].family = sessions[s].family
        /\ [sessions[s] EXCEPT !.recent = FALSE].revoked = sessions[s].revoked
        /\ ~[sessions[s] EXCEPT !.recent = FALSE].recent
    BY <1>2 DEF Sessions
  <1> QED
    BY <1>1, <1>3, <1>4, OneRowSound

\* The lifetime of a live session ends.
LEMMA ExpiresSound ==
    ASSUME SessionsInv, NEW s \in DOMAIN sessions, Expires(s)
    PROVE  SessionsInv'
  <1>1. sessions' = [sessions EXCEPT ![s] = [sessions[s] EXCEPT !.expired = TRUE]]
        /\ resets' = resets /\ spent' = spent /\ account' = account /\ handlers' = handlers
    BY DEF Expires
  <1>2. sessions[s] \in Sessions
    BY SessionsFacts DEF SessionsInv
  <1>3. handlers' \in [Handlers -> Requests]
    BY <1>1 DEF SessionsInv, TypeOK
  <1>4. /\ [sessions[s] EXCEPT !.expired = TRUE] \in Sessions
        /\ [sessions[s] EXCEPT !.expired = TRUE].family = sessions[s].family
        /\ [sessions[s] EXCEPT !.expired = TRUE].revoked = sessions[s].revoked
        /\ [sessions[s] EXCEPT !.expired = TRUE].recent = sessions[s].recent
    BY <1>2 DEF Sessions
  <1> QED
    BY <1>1, <1>3, <1>4, OneRowSound

\* A new row is a live session of its family.
LEMMA NewSessionType ==
    ASSUME NEW family \in Nat
    PROVE  /\ NewSession(family) \in Sessions
           /\ NewSession(family).family = family
           /\ NewSession(family).revoked = "no"
  BY DEF NewSession, Sessions

\* A login opens a family of its own.
LEMMA OpenSessionSound ==
    ASSUME SessionsInv, NEW h \in Handlers, OpenSession(h)
    PROVE  SessionsInv'
  <1> DEFINE n == Len(sessions)
             new == NewSession(n + 1)
  <1>1. sessions \in Seq(Sessions) /\ DOMAIN sessions = 1..n /\ n \in Nat
        /\ \A k \in DOMAIN sessions : sessions[k].family \in 1..k
    BY SessionsFacts DEF SessionsInv, TypeOK
  <1>2. new \in Sessions /\ new.family = n + 1 /\ new.revoked = "no"
    BY <1>1, NewSessionType
  <1>3. sessions' = Append(sessions, new) /\ resets' = resets /\ spent' = spent /\ account' = account
    BY DEF OpenSession
  <1>4. /\ handlers' \in [Handlers -> Requests]
        /\ \A g \in Handlers : handlers'[g] = handlers[g] \/ handlers'[g] = Idle
    BY EndsType DEF OpenSession
  <1> HIDE DEF new
  <1>5. /\ sessions' \in Seq(Sessions) /\ DOMAIN sessions' = 1..(n + 1)
        /\ \A k \in 1..n : sessions'[k] = sessions[k]
        /\ sessions'[n + 1] = new
    BY <1>1, <1>2, <1>3, AppendProperties
  <1> HIDE DEF n
  <1>6. \A k \in 1..(n + 1) : k \in 1..n \/ k = n + 1
    BY <1>1
  <1>7. Later
    BY <1>1, <1>5, <1>6 DEF Later
  <1>8. \A k \in DOMAIN sessions' : sessions'[k].family \in 1..k
    BY <1>1, <1>2, <1>5, <1>6
  <1>9. \A k \in 1..n : sessions[k].family # n + 1
    BY <1>1
  <1>10. FamiliesNeverFork'
    BY <1>1, <1>2, <1>5, <1>6, <1>9 DEF SessionsInv, FamiliesNeverFork, Live
  <1>11. \A k \in DOMAIN sessions' : sessions'[k].revoked = "REUSE_DETECTED" =>
            k \in DOMAIN sessions /\ sessions[k].revoked = "REUSE_DETECTED"
    BY <1>1, <1>2, <1>5, <1>6
  <1>12. TypeOK'
    BY <1>3, <1>4, <1>5, <1>7, <1>8, SessionsType
  <1> QED
    BY <1>3, <1>4, <1>7, <1>10, <1>11, <1>12, SessionsSound

\* The session that is consumed was the live one of its family, and its successor replaces it.
LEMMA RotateSound ==
    ASSUME SessionsInv, NEW h \in Handlers, Rotate(h)
    PROVE  SessionsInv'
  <1> DEFINE s == handlers[h].session
             n == Len(sessions)
             old == [sessions EXCEPT ![s] = RevokedAs(sessions[s], "ROTATED")]
             new == NewSession(sessions[s].family)
  <1>1. sessions \in Seq(Sessions) /\ DOMAIN sessions = 1..n /\ n \in Nat
        /\ \A k \in DOMAIN sessions : sessions[k].family \in 1..k
    BY SessionsFacts DEF SessionsInv, TypeOK
  <1>2. s \in 1..n
    BY <1>1, HandlerFacts DEF Rotate
  <1>3. resets' = resets /\ spent' = spent /\ account' = account
    BY DEF Rotate
  <1>4. /\ handlers' \in [Handlers -> Requests]
        /\ \A g \in Handlers : handlers'[g] = handlers[g] \/ handlers'[g] = Idle
    BY EndsType DEF Rotate
  <1>5. CASE UNCHANGED sessions
    <2>1. Fits(h, Idle) /\ Goes(h, Idle)
      BY IdleFits DEF Rotate, Ends
    <2> QED
      BY <1>3, <1>5, <2>1, GoesSound
  <1>6. CASE sessions[s].revoked = "no" /\ sessions' = Append(old, new)
    <2>1. sessions[s] \in Sessions /\ "ROTATED" \in Reasons /\ sessions[s].family \in Nat
          /\ sessions[s].family \in 1..s
      BY <1>1, <1>2, SessionsFacts DEF SessionsInv, Reasons
    <2>2. /\ old \in Seq(Sessions) /\ Len(old) = n
          /\ \A k \in 1..n : old[k] = IF k = s THEN RevokedAs(sessions[s], "ROTATED") ELSE sessions[k]
      BY <1>1, <1>2, <2>1, RevokedAsType, ExceptSeq
    <2>3. new \in Sessions /\ new.family = sessions[s].family /\ new.revoked = "no"
      BY <2>1, NewSessionType
    <2> HIDE DEF old, new
    <2>4. /\ sessions' \in Seq(Sessions) /\ DOMAIN sessions' = 1..(n + 1)
          /\ \A k \in 1..n : sessions'[k] = old[k]
          /\ sessions'[n + 1] = new
      BY <1>6, <2>2, <2>3, AppendProperties
    <2> HIDE DEF n
    <2>5. \A k \in 1..(n + 1) : k \in 1..n \/ k = n + 1
      BY <1>1
    <2>6. /\ \A k \in 1..n : k # s => sessions'[k] = sessions[k]
          /\ sessions'[s].revoked = "ROTATED" /\ sessions'[s].family = sessions[s].family
      BY <1>2, <2>1, <2>2, <2>4, RevokedAsType DEF Reasons
    <2> HIDE DEF s
    <2>7. Later
      BY <1>1, <1>6, <2>4, <2>5, <2>6 DEF Later
    <2>8. \A k \in DOMAIN sessions' : sessions'[k].family \in 1..k
      <3>1. sessions'[n + 1].family \in 1..(n + 1)
        BY <1>1, <1>2, <2>1, <2>3, <2>4
      <3> QED
        BY <1>1, <1>2, <2>4, <2>5, <2>6, <3>1
    <2>9. FamiliesNeverFork'
      <3>1. \A k \in 1..n : k \in Live' => k # s /\ k \in Live /\ sessions'[k].family = sessions[k].family
        BY <1>1, <2>6 DEF Live
      <3>2. s \in Live
        BY <1>1, <1>2, <1>6 DEF Live
      <3>3. \A k \in 1..n : k \in Live' => sessions'[k].family # sessions[s].family
        BY <3>1, <3>2 DEF SessionsInv, FamiliesNeverFork
      <3>4. Live' \subseteq 1..(n + 1)
        BY <2>4 DEF Live
      <3>5. sessions'[n + 1].family = sessions[s].family
        BY <2>3, <2>4
      <3> QED
        BY <2>5, <3>1, <3>3, <3>4, <3>5 DEF SessionsInv, FamiliesNeverFork
    <2>10. \A k \in DOMAIN sessions' : sessions'[k].revoked = "REUSE_DETECTED" =>
              k \in DOMAIN sessions /\ sessions[k].revoked = "REUSE_DETECTED"
      BY <1>1, <2>3, <2>4, <2>5, <2>6
    <2>11. TypeOK'
      BY <1>3, <1>4, <2>4, <2>7, <2>8, SessionsType
    <2> QED
      BY <1>3, <1>4, <2>7, <2>9, <2>10, <2>11, SessionsSound
  <1> QED
    BY <1>5, <1>6 DEF Rotate

----------------------------------------------------------------------------
(* Steps that change the account or the tokens.                            *)

\* A login writes the password it verified and goes on.
LEMMA RehashSound ==
    ASSUME SessionsInv, NEW h \in Handlers, Rehash(h)
    PROVE  SessionsInv'
  <1>1. handlers[h].password \in Passwords
    BY HandlerFacts DEF Rehash
  <1>2. account' \in Accounts
    BY <1>1 DEF Rehash, SessionsInv, TypeOK, Accounts
  <1>3. Fits(h, [Idle EXCEPT !.step = "open"])
    BY DEF Fits, Idle, Requests, Steps, Reasons
  <1> QED
    BY <1>2, <1>3, RequestChanged DEF Rehash

\* Deactivation changes the account only.
LEMMA DeactivateSound ==
    ASSUME SessionsInv, Deactivate
    PROVE  SessionsInv'
  <1>1. account' \in Accounts
    BY DEF Deactivate, SessionsInv, TypeOK, Accounts
  <1>2. sessions' = sessions /\ resets' = resets /\ handlers' = handlers /\ spent' = spent
    BY DEF Deactivate
  <1>3. TypeOK'
    BY <1>1, <1>2 DEF SessionsInv, TypeOK
  <1>4. FamiliesNeverFork'
    BY <1>2 DEF SessionsInv, FamiliesNeverFork, Live
  <1>5. sessions' \in Seq(Sessions)
    BY <1>2 DEF SessionsInv, TypeOK
  <1> QED
    BY <1>2, <1>3, <1>4, SessionsSound DEF Later

\* Sessions stay, a handler ends, and the tokens it held are used at most.
LEMMA TokensSound ==
    ASSUME SessionsInv, NEW h \in Handlers, Ends(h),
           resets' \in Seq(Resets), DOMAIN resets \subseteq DOMAIN resets',
           \A t \in DOMAIN resets : resets'[t].used => resets[t].used \/ t \in Holds(h),
           \A t \in DOMAIN resets : resets[t].used => resets'[t].used,
           sessions' = sessions, spent' = spent, account' = account
    PROVE  SessionsInv'
  <1>1. /\ handlers' \in [Handlers -> Requests]
        /\ \A g \in Handlers : handlers'[g] = IF g = h THEN Idle ELSE handlers[g]
    BY IdleFits DEF SessionsInv, TypeOK, Ends, Goes, Fits
  <1>2. TypeOK'
    BY <1>1 DEF SessionsInv, TypeOK, Idle
  <1>3. FamiliesNeverFork' /\ AlarmsAreTrue' /\ \A family : Over(family)' <=> Over(family)
    BY DEF SessionsInv, FamiliesNeverFork, AlarmsAreTrue, Over, Live
  <1>4. /\ Holds(h)' = {}
        /\ \A g \in Handlers : g # h => Holds(g)' = Holds(g)
    BY <1>1 DEF Holds, Idle
  <1>5. \A g \in Handlers : g # h => Holds(g) \cap Holds(h) = {} /\ Holds(g) \subseteq Unused
    BY HandlerFacts DEF SessionsInv, RequestSound
  <1>6. \A t \in Unused : t \in Holds(h) \/ t \in Unused'
    BY DEF Unused
  <1>7. ASSUME NEW g \in Handlers PROVE RequestSound(g)'
    <2>1. CASE g = h
      BY <1>1, <1>4, <2>1 DEF RequestSound, Idle
    <2>2. CASE g # h
      <3>1. Holds(g)' \subseteq Unused'
        BY <1>4, <1>5, <1>6, <2>2
      <3>2. RequestSound(g)
        BY HandlerFacts
      <3> QED
        BY <1>1, <1>3, <2>2, <3>1, <3>2 DEF RequestSound
    <2> QED
      BY <2>1, <2>2
  <1>8. \A h1, h2 \in Handlers : h1 # h2 => Holds(h1)' \cap Holds(h2)' = {}
    BY <1>4 DEF SessionsInv
  <1>9. \A t \in DOMAIN spent' : spent'[t] <= 1 /\ (spent'[t] = 1 => t \in DOMAIN resets' \ Unused')
    BY DEF SessionsInv, Unused
  <1> QED
    BY <1>2, <1>3, <1>7, <1>8, <1>9 DEF SessionsInv

\* A new token is held by nobody and was never spent.
LEMMA CreateTokenSound ==
    ASSUME SessionsInv, NEW h \in Handlers, CreateToken(h)
    PROVE  SessionsInv'
  <1> DEFINE old == UsedUp(handlers[h].tokens)
             new == [used |-> FALSE, expired |-> FALSE]
             n == Len(resets)
  <1>1. TypeOK /\ handlers[h].step = "request" /\ resets' = Append(old, new)
        /\ sessions' = sessions /\ spent' = spent /\ account' = account /\ Ends(h)
    BY DEF SessionsInv, CreateToken
  <1>2. Holds(h) = handlers[h].tokens
    BY <1>1 DEF Holds
  <1>3. new \in Resets
    BY DEF Resets
  <1>4. /\ old \in Seq(Resets) /\ Len(old) = n /\ n \in Nat /\ DOMAIN resets = 1..n
        /\ \A t \in 1..n : old[t].used = (t \in Holds(h) \/ resets[t].used)
    BY <1>1, <1>2, UsedUpType, SessionsFacts
  <1> HIDE DEF old, new, n
  <1>5. /\ resets' \in Seq(Resets) /\ DOMAIN resets' = 1..(n + 1)
        /\ \A t \in 1..n : resets'[t] = old[t]
    BY <1>1, <1>3, <1>4, AppendProperties
  <1>6. DOMAIN resets \subseteq DOMAIN resets'
    BY <1>4, <1>5
  <1>7. \A t \in DOMAIN resets : resets'[t].used = (t \in Holds(h) \/ resets[t].used)
    BY <1>4, <1>5
  <1> QED
    BY <1>1, <1>5, <1>6, <1>7, TokensSound

\* A token that expires stays as unused as it was.
LEMMA ResetExpiresSound ==
    ASSUME SessionsInv, NEW t \in DOMAIN resets, ResetExpires(t)
    PROVE  SessionsInv'
  <1>1. resets \in Seq(Resets) /\ resets[t] \in Resets /\ DOMAIN resets = 1..Len(resets)
    BY SessionsFacts DEF SessionsInv, TypeOK
  <1>2. [resets[t] EXCEPT !.expired = TRUE] \in Resets
        /\ [resets[t] EXCEPT !.expired = TRUE].used = resets[t].used
    BY <1>1 DEF Resets
  <1>3. resets' = [resets EXCEPT ![t] = [resets[t] EXCEPT !.expired = TRUE]]
        /\ sessions' = sessions /\ spent' = spent /\ account' = account /\ handlers' = handlers
    BY DEF ResetExpires
  <1>4. /\ resets' \in Seq(Resets) /\ DOMAIN resets' = DOMAIN resets
        /\ \A k \in DOMAIN resets : resets'[k].used = resets[k].used
    BY <1>1, <1>2, <1>3, ExceptSeq
  <1>5. Unused' = Unused
    BY <1>4 DEF Unused
  <1>6. TypeOK'
    BY <1>3, <1>4 DEF SessionsInv, TypeOK
  <1>7. FamiliesNeverFork' /\ AlarmsAreTrue' /\ \A family : Over(family)' <=> Over(family)
    BY <1>3 DEF SessionsInv, FamiliesNeverFork, AlarmsAreTrue, Over, Live
  <1>8. \A g \in Handlers : Holds(g)' = Holds(g)
    BY <1>3 DEF Holds
  <1>9. \A g \in Handlers : RequestSound(g)'
    BY <1>3, <1>5, <1>7, <1>8, HandlerFacts DEF RequestSound
  <1> QED
    BY <1>3, <1>4, <1>5, <1>6, <1>7, <1>8, <1>9 DEF SessionsInv

----------------------------------------------------------------------------
(* What ends the requests that revoke.                                     *)

\* The rows a handler matched are revoked unless they were meanwhile.
LEMMA RevokedByFacts ==
    ASSUME SessionsInv, NEW h \in Handlers
    PROVE  /\ RevokedBy(h) \in Seq(Sessions) /\ DOMAIN RevokedBy(h) = DOMAIN sessions
           /\ \A s \in DOMAIN sessions :
                 /\ RevokedBy(h)[s].family = sessions[s].family
                 /\ s \in Live => RevokedBy(h)[s] = sessions[s]
                                  \/ (s \in handlers[h].rows /\ RevokedBy(h)[s].revoked = handlers[h].reason
                                      /\ RevokedBy(h)[s].revoked # "no")
                 /\ s \notin Live => RevokedBy(h)[s] = sessions[s]
  <1>1. handlers[h].reason \in Reasons
    BY HandlerFacts DEF Requests
  <1>2. \A s \in DOMAIN sessions : sessions[s] \in Sessions
    BY SessionsFacts DEF SessionsInv
  <1>3. \A s \in DOMAIN sessions :
           RevokedBy(h)[s] = IF s \in handlers[h].rows \cap Live
                             THEN RevokedAs(sessions[s], handlers[h].reason) ELSE sessions[s]
    BY DEF RevokedBy
  <1>4. \A s \in DOMAIN sessions : RevokedBy(h)[s] \in Sessions
    BY <1>1, <1>2, <1>3, RevokedAsType
  <1>5. RevokedBy(h) \in [1..Len(sessions) -> Sessions]
    BY <1>4, SessionsFacts DEF RevokedBy, SessionsInv
  <1>6. RevokedBy(h) \in Seq(Sessions) /\ DOMAIN RevokedBy(h) = DOMAIN sessions
    BY <1>5, SessionsFacts, Remade DEF SessionsInv
  <1> QED
    BY <1>1, <1>2, <1>3, <1>6, RevokedAsType

\* The tokens a handler marks used were unused until then, the one it spends too.
LEMMA RevokeSound ==
    ASSUME SessionsInv, NEW h \in Handlers, Revoke(h)
    PROVE  SessionsInv'
  <1> DEFINE r == handlers[h]
  <1>1. /\ r.step = "revoke" /\ r \in Requests /\ r.rows \subseteq DOMAIN sessions
        /\ r.tokens \subseteq DOMAIN resets /\ RequestSound(h)
    BY HandlerFacts DEF Revoke
  <1>2. sessions' = RevokedBy(h) /\ resets' = UsedUp(r.tokens) /\ Ends(h)
        /\ spent' = [t \in DOMAIN spent |-> spent[t] + IF t = r.token THEN 1 ELSE 0]
    BY DEF Revoke
  <1>3. account' \in Accounts
    BY <1>1 DEF Revoke, Requests, SessionsInv, TypeOK, Accounts
  <1>4. Holds(h) = r.tokens /\ Holds(h) \subseteq Unused
    BY <1>1 DEF Holds, RequestSound
  <1>5. /\ handlers' \in [Handlers -> Requests]
        /\ \A g \in Handlers : handlers'[g] = IF g = h THEN Idle ELSE handlers[g]
    BY <1>2, IdleFits DEF SessionsInv, TypeOK, Ends, Goes, Fits
  \* The sessions.
  <1>6. /\ sessions' \in Seq(Sessions) /\ DOMAIN sessions' = DOMAIN sessions
        /\ \A s \in DOMAIN sessions :
              /\ sessions'[s].family = sessions[s].family
              /\ s \in Live => sessions'[s] = sessions[s]
                               \/ (s \in r.rows /\ sessions'[s].revoked = r.reason
                                   /\ sessions'[s].revoked # "no")
              /\ s \notin Live => sessions'[s] = sessions[s]
    BY <1>2, RevokedByFacts
  <1>7. Later
    BY <1>6 DEF Later, Live
  <1>8. \A s \in DOMAIN sessions : Over(sessions[s].family) => Over(sessions[s].family)'
    BY <1>6, <1>7 DEF Over, Later
  <1>9. FamiliesNeverFork'
    <2>1. \A s \in Live' : s \in Live /\ sessions'[s].family = sessions[s].family
      BY <1>6 DEF Live
    <2> QED
      BY <2>1 DEF SessionsInv, FamiliesNeverFork
  <1>10. AlarmsAreTrue'
    <2> SUFFICES ASSUME NEW s \in DOMAIN sessions, sessions'[s].revoked = "REUSE_DETECTED"
                 PROVE  Over(sessions[s].family)'
      BY <1>6 DEF AlarmsAreTrue
    <2>1. CASE sessions[s].revoked = "REUSE_DETECTED"
      BY <1>8, <2>1 DEF SessionsInv, AlarmsAreTrue
    <2>2. CASE sessions[s].revoked # "REUSE_DETECTED"
      <3>1. s \in r.rows /\ r.reason = "REUSE_DETECTED"
        BY <1>6, <2>2
      <3>2. Over(sessions[s].family)
        BY <1>1, <3>1 DEF RequestSound
      <3> QED
        BY <1>8, <3>2
    <2> QED
      BY <2>1, <2>2
  \* The tokens.
  <1>11. /\ resets' \in Seq(Resets) /\ DOMAIN resets' = DOMAIN resets
         /\ \A t \in DOMAIN resets : resets'[t].used = (t \in r.tokens \/ resets[t].used)
    BY <1>2, UsedUpType DEF SessionsInv
  <1>12. Unused' = Unused \ r.tokens
    BY <1>11 DEF Unused
  <1>13. /\ spent' \in [1..MaxResets -> Nat]
         /\ \A t \in DOMAIN spent : spent'[t] = spent[t] + IF t = r.token THEN 1 ELSE 0
    BY <1>2 DEF SessionsInv, TypeOK
  <1>14. ASSUME NEW t \in DOMAIN spent'
         PROVE  spent'[t] <= 1 /\ (spent'[t] = 1 => t \in DOMAIN resets' \ Unused')
    <2>1. t \in 1..MaxResets /\ t \in DOMAIN spent /\ spent[t] \in Nat /\ t # 0
      BY <1>13, BoundsAssumption DEF SessionsInv, TypeOK
    <2>2. spent[t] <= 1 /\ (spent[t] = 1 => t \in DOMAIN resets \ Unused)
      BY <2>1 DEF SessionsInv
    <2>3. CASE t = r.token
      <3>1. t \in r.tokens
        BY <1>1, <2>1, <2>3 DEF RequestSound
      <3>2. spent[t] = 0
        BY <1>4, <2>1, <2>2, <3>1
      <3>3. spent'[t] = 1
        BY <1>13, <2>1, <2>3, <3>2
      <3>4. t \in DOMAIN resets' \ Unused'
        BY <1>1, <1>11, <1>12, <3>1
      <3> QED
        BY <3>3, <3>4
    <2>4. CASE t # r.token
      <3>1. spent'[t] = spent[t]
        BY <1>13, <2>1, <2>4
      <3> QED
        BY <1>11, <1>12, <2>2, <3>1
    <2> QED
      BY <2>3, <2>4
  \* The handlers.
  <1>15. TypeOK'
    <2>1. \A s \in DOMAIN sessions : sessions[s].family \in 1..s
      BY DEF SessionsInv, TypeOK
    <2>2. ASSUME NEW g \in Handlers
          PROVE  /\ handlers'[g].step \in {"rotate", "expire", "reuse"} => handlers'[g].session \in DOMAIN sessions'
                 /\ handlers'[g].step = "consume" => handlers'[g].token \in DOMAIN resets'
                 /\ handlers'[g].step = "rehash" => handlers'[g].password \in Passwords
                 /\ handlers'[g].rows \subseteq DOMAIN sessions' /\ handlers'[g].tokens \subseteq DOMAIN resets'
      BY <1>5, <1>6, <1>11, HandlerFacts DEF Idle
    <2> QED
      BY <1>3, <1>5, <1>6, <1>11, <1>13, <2>1, <2>2 DEF TypeOK
  <1>16. /\ Holds(h)' = {}
         /\ \A g \in Handlers : g # h => Holds(g)' = Holds(g)
    BY <1>5 DEF Holds, Idle
  <1>17. ASSUME NEW g \in Handlers PROVE RequestSound(g)'
    <2>1. CASE g = h
      BY <1>5, <1>16, <2>1 DEF RequestSound, Idle
    <2>2. CASE g # h
      <3>1. RequestSound(g) /\ handlers[g].rows \subseteq DOMAIN sessions
            /\ (handlers[g].step = "reuse" => handlers[g].session \in DOMAIN sessions)
        BY HandlerFacts
      <3>2. Holds(g) \cap Holds(h) = {} /\ Holds(g) \subseteq Unused
        BY <2>2, <3>1 DEF SessionsInv, RequestSound
      <3>3. Holds(g)' \subseteq Unused'
        BY <1>4, <1>12, <1>16, <2>2, <3>2
      <3>4. handlers'[g] = handlers[g]
        BY <1>5, <2>2
      <3>5. handlers[g].step = "reuse" => Over(sessions[handlers[g].session].family)'
        BY <1>8, <3>1, <3>4 DEF RequestSound
      <3>6. handlers[g].step = "revoke" /\ handlers[g].reason = "REUSE_DETECTED" =>
               \A s \in handlers[g].rows : Over(sessions[s].family)'
        BY <1>8, <3>1 DEF RequestSound
      <3> QED
        BY <3>1, <3>3, <3>4, <3>5, <3>6 DEF RequestSound
    <2> QED
      BY <2>1, <2>2
  <1>18. \A h1, h2 \in Handlers : h1 # h2 => Holds(h1)' \cap Holds(h2)' = {}
    BY <1>16 DEF SessionsInv
  <1> QED
    BY <1>9, <1>10, <1>14, <1>15, <1>17, <1>18 DEF SessionsInv

----------------------------------------------------------------------------
(* The theorems.                                                           *)

\* At first there is no session and no token.
LEMMA InitSound == Init => SessionsInv
  <1> SUFFICES ASSUME Init PROVE SessionsInv
    OBVIOUS
  <1>1. /\ account \in [password : {FirstPassword}, legacy : BOOLEAN, active : {TRUE}]
        /\ sessions = <<>> /\ resets = <<>>
        /\ handlers = [h \in Handlers |-> Idle] /\ spent = [t \in 1..MaxResets |-> 0]
    BY DEF Init
  <1>2. Idle \in Requests /\ Idle.step = "idle" /\ Idle.rows = {} /\ Idle.tokens = {}
    BY DEF Idle, Requests, Steps, Reasons
  <1>3. account \in Accounts
    BY <1>1, PasswordsAssumption DEF Accounts
  <1>4. spent \in [1..MaxResets -> Nat] /\ \A t \in DOMAIN spent : spent[t] = 0
    BY <1>1
  <1>5. TypeOK
    BY <1>1, <1>2, <1>3, <1>4 DEF TypeOK
  <1>6. FamiliesNeverFork /\ AlarmsAreTrue
    BY <1>1 DEF FamiliesNeverFork, AlarmsAreTrue, Live
  <1>7. \A h \in Handlers : Holds(h) = {} /\ RequestSound(h)
    BY <1>1, <1>2 DEF Holds, RequestSound
  <1> QED
    BY <1>4, <1>5, <1>6, <1>7 DEF SessionsInv

\* Every step keeps the invariant.
LEMMA StepSound == SessionsInv /\ [Next]_vars => SessionsInv'
  <1> SUFFICES ASSUME SessionsInv, [Next]_vars PROVE SessionsInv'
    OBVIOUS
  <1>1. ASSUME NEW h \in Handlers, NEW s \in DOMAIN sessions, BeginRefresh(h, s) PROVE SessionsInv'
    BY <1>1, BeginRefreshSound
  <1>2. ASSUME NEW h \in Handlers, NEW new \in Passwords, BeginChange(h, new) PROVE SessionsInv'
    BY <1>2, BeginChangeSound
  <1>3. ASSUME NEW h \in Handlers, NEW t \in DOMAIN resets, NEW new \in Passwords,
               BeginReset(h, t, new)
        PROVE  SessionsInv'
    BY <1>3, BeginResetSound
  <1>4. ASSUME NEW h \in Handlers, BeginLogin(h) \/ BeginLogoutAll(h) \/ BeginRequest(h) \/ Fail(h)
        PROVE  SessionsInv'
    BY <1>4, BeginLoginSound, BeginLogoutAllSound, BeginRequestSound, FailSound
  <1>5. ASSUME NEW h \in Handlers, Handle(h) PROVE SessionsInv'
    BY <1>5, RehashSound, OpenSessionSound, RotateSound, ExpireSound, MatchFamilySound,
       MatchAllSound, CreateTokenSound, MatchForResetSound, RevokeSound DEF Handle
  <1>6. ASSUME NEW s \in DOMAIN sessions, Logout(s) \/ Ages(s) \/ Expires(s) PROVE SessionsInv'
    BY <1>6, LogoutSound, AgesSound, ExpiresSound
  <1>7. ASSUME NEW t \in DOMAIN resets, ResetExpires(t) PROVE SessionsInv'
    BY <1>7, ResetExpiresSound
  <1>8. CASE UNCHANGED vars
    <2>1. /\ account' = account /\ sessions' = sessions /\ resets' = resets
          /\ handlers' = handlers /\ spent' = spent
      BY <1>8 DEF vars
    <2>2. TypeOK' /\ FamiliesNeverFork' /\ AlarmsAreTrue' /\ Unused' = Unused
      BY <2>1 DEF SessionsInv, TypeOK, FamiliesNeverFork, AlarmsAreTrue, Over, Live, Unused
    <2>3. \A h \in Handlers : Holds(h)' = Holds(h) /\ RequestSound(h)'
      BY <2>1, <2>2, HandlerFacts DEF Holds, RequestSound, Over
    <2> QED
      BY <2>1, <2>2, <2>3 DEF SessionsInv
  <1> QED
    BY <1>1, <1>2, <1>3, <1>4, <1>5, <1>6, <1>7, <1>8, DeactivateSound DEF Next

\* The invariant of all requests at work.
THEOREM SessionsInvariant == Spec => []SessionsInv
  <1> QED
    BY InitSound, StepSound, PTL DEF Spec

\* The rows keep their types whatever requests race, and no request works on a row that is not there.
THEOREM SessionsTypeCorrect == Spec => []TypeOK
  <1>1. SessionsInv => TypeOK
    BY DEF SessionsInv
  <1> QED
    BY <1>1, SessionsInvariant, PTL

\* Rotation never forks a family: at most one session of it is live, whoever presents what when.
THEOREM FamiliesAlwaysUnforked == Spec => []FamiliesNeverFork
  <1>1. SessionsInv => FamiliesNeverFork
    BY DEF SessionsInv
  <1> QED
    BY <1>1, SessionsInvariant, PTL

\* No reset token changes the password twice.
THEOREM TokensAlwaysSpentOnce == Spec => []TokensSpentOnce
  <1>1. SessionsInv => TokensSpentOnce
    BY DEF SessionsInv, TokensSpentOnce
  <1> QED
    BY <1>1, SessionsInvariant, PTL

\* No family is revoked as stolen without a token of it that was over and came back.
THEOREM AlarmsAlwaysTrue == Spec => []AlarmsAreTrue
  <1>1. SessionsInv => AlarmsAreTrue
    BY DEF SessionsInv
  <1> QED
    BY <1>1, SessionsInvariant, PTL

\* Sessions that are over stay so, for the reason they had.
Kept == \A s \in DOMAIN sessions :
           sessions[s].revoked # "no" => sessions'[s].revoked = sessions[s].revoked

\* No step revives a session or gives it another end.
LEMMA StepKeeps ==
    ASSUME SessionsInv, [Next]_vars
    PROVE  Kept
  <1>1. CASE sessions' = sessions
    BY <1>1 DEF Kept
  <1>2. /\ sessions \in Seq(Sessions) /\ DOMAIN sessions = 1..Len(sessions) /\ Len(sessions) \in Nat
        /\ \A s \in DOMAIN sessions : sessions[s] \in Sessions
    BY SessionsFacts DEF SessionsInv, TypeOK
  <1>3. ASSUME NEW s \in DOMAIN sessions, NEW row,
               sessions[s].revoked # "no" => row.revoked = sessions[s].revoked,
               sessions' = [sessions EXCEPT ![s] = row]
        PROVE  Kept
    BY <1>2, <1>3 DEF Kept
  <1>4. ASSUME NEW s \in DOMAIN sessions, Logout(s) PROVE Kept
    BY <1>3, <1>4 DEF Logout, Live
  <1>5. ASSUME NEW s \in DOMAIN sessions, Ages(s) PROVE Kept
    <2>1. [sessions[s] EXCEPT !.recent = FALSE].revoked = sessions[s].revoked
      BY <1>2 DEF Sessions
    <2> QED
      BY <1>3, <1>5, <2>1 DEF Ages
  <1>6. ASSUME NEW s \in DOMAIN sessions, Expires(s) PROVE Kept
    <2>1. [sessions[s] EXCEPT !.expired = TRUE].revoked = sessions[s].revoked
      BY <1>2 DEF Sessions
    <2> QED
      BY <1>3, <1>6, <2>1 DEF Expires
  <1>7. ASSUME NEW h \in Handlers, OpenSession(h) PROVE Kept
    <2>1. sessions' = Append(sessions, NewSession(Len(sessions) + 1))
          /\ NewSession(Len(sessions) + 1) \in Sessions
      BY <1>2, <1>7, NewSessionType DEF OpenSession
    <2>2. \A s \in 1..Len(sessions) : sessions'[s] = sessions[s]
      BY <1>2, <2>1, AppendProperties
    <2> QED
      BY <1>2, <2>2 DEF Kept
  <1>8. ASSUME NEW h \in Handlers, Rotate(h) PROVE Kept
    <2> DEFINE k == handlers[h].session
               old == [sessions EXCEPT ![k] = RevokedAs(sessions[k], "ROTATED")]
               new == NewSession(sessions[k].family)
    <2>1. CASE sessions[k].revoked = "no" /\ sessions' = Append(old, new)
      <3>1. k \in 1..Len(sessions) /\ sessions[k].family \in Nat
        BY <1>2, <1>8, HandlerFacts DEF Rotate, Sessions
      <3>2. RevokedAs(sessions[k], "ROTATED") \in Sessions /\ new \in Sessions
        BY <1>2, <3>1, RevokedAsType, NewSessionType DEF Reasons
      <3>3. /\ old \in Seq(Sessions) /\ Len(old) = Len(sessions)
            /\ \A s \in 1..Len(sessions) :
                  old[s] = IF s = k THEN RevokedAs(sessions[k], "ROTATED") ELSE sessions[s]
        BY <1>2, <3>1, <3>2, ExceptSeq
      <3> HIDE DEF old, new
      <3>4. \A s \in 1..Len(sessions) : sessions'[s] = old[s]
        BY <2>1, <3>2, <3>3, AppendProperties
      <3>5. \A s \in 1..Len(sessions) : s # k => sessions'[s] = sessions[s]
        BY <3>3, <3>4
      <3> QED
        BY <1>2, <2>1, <3>5 DEF Kept
    <2>2. CASE UNCHANGED sessions
      BY <1>1, <2>2
    <2> QED
      BY <1>8, <2>1, <2>2 DEF Rotate
  <1>9. ASSUME NEW h \in Handlers, Expire(h) PROVE Kept
    BY <1>1, <1>3, <1>9, HandlerFacts DEF Expire, Live
  <1>10. ASSUME NEW h \in Handlers, Revoke(h) PROVE Kept
    <2>1. sessions' = RevokedBy(h)
      BY <1>10 DEF Revoke
    <2> QED
      BY <2>1, RevokedByFacts DEF Kept, Live
  <1>11. \/ sessions' = sessions
         \/ \E s \in DOMAIN sessions : Logout(s) \/ Ages(s) \/ Expires(s)
         \/ \E h \in Handlers : OpenSession(h) \/ Rotate(h) \/ Expire(h) \/ Revoke(h)
    BY DEF Next, vars, Handle, BeginLogin, BeginRefresh, BeginChange, BeginReset, BeginLogoutAll,
           BeginRequest, Fail, Rehash, MatchFamily, MatchAll, CreateToken, MatchForReset,
           ResetExpires, Deactivate
  <1> QED
    BY <1>1, <1>4, <1>5, <1>6, <1>7, <1>8, <1>9, <1>10, <1>11

\* A late statement never revives a session nor rewrites the reason it ended for.
THEOREM RevokedAlwaysStaysRevoked == Spec => RevokedStaysRevoked
  <1>1. SessionsInv /\ [Next]_vars => [Kept]_vars
    BY StepKeeps
  <1> QED
    BY <1>1, SessionsInvariant, PTL DEF Spec, RevokedStaysRevoked, Kept

----------------------------------------------------------------------------
(* The batches that are trying a message.                                  *)

\* Counting the batches that try a message is counting a finite set.
LEMMA TryingFinite ==
    ASSUME NEW m
    PROVE  IsFiniteSet(Trying(m)) /\ Cardinality(Trying(m)) \in Nat
  <1>1. Trying(m) \in SUBSET Workers /\ IsFiniteSet(Workers)
    BY LimitsAssumption DEF Trying
  <1> QED
    BY <1>1, FS_Subset, FS_CardinalityType

\* A step of one worker changes their number by one at most, and which way.
LEMMA TryingStep ==
    ASSUME NEW w \in Workers, NEW m, \A v \in Workers \ {w} : workers'[v] = workers[v]
    PROVE  /\ Cardinality(Trying(m)') \in Nat
           /\ Cardinality(Trying(m)') <= Cardinality(Trying(m)) + 1
           /\ Trying(m)' \subseteq Trying(m) => Cardinality(Trying(m)') <= Cardinality(Trying(m))
           /\ w \in Trying(m) /\ w \notin Trying(m)' =>
                Cardinality(Trying(m)') = Cardinality(Trying(m)) - 1
  <1>1. Trying(m)' \in SUBSET Workers /\ IsFiniteSet(Workers)
    BY LimitsAssumption DEF Trying
  <1>2. IsFiniteSet(Trying(m)') /\ Cardinality(Trying(m)') \in Nat
    BY <1>1, FS_Subset, FS_CardinalityType
  <1>3. \A v \in Workers \ {w} : v \in Trying(m)' <=> v \in Trying(m)
    BY DEF Trying, Current
  <1>4. Trying(m) \subseteq Workers
    BY DEF Trying
  <1>5. Trying(m)' \subseteq Trying(m) \cup {w}
    BY <1>1, <1>3
  <1>6. Cardinality(Trying(m)') <= Cardinality(Trying(m)) + 1
    <2>1. /\ IsFiniteSet(Trying(m) \cup {w})
          /\ Cardinality(Trying(m) \cup {w}) <= Cardinality(Trying(m)) + 1
      BY TryingFinite, FS_AddElement
    <2>2. Cardinality(Trying(m)') <= Cardinality(Trying(m) \cup {w})
      BY <1>5, <2>1, FS_Subset
    <2>3. Cardinality(Trying(m) \cup {w}) \in Nat
      BY <2>1, FS_CardinalityType
    <2> QED
      BY <1>2, <2>1, <2>2, <2>3, TryingFinite
  <1>7. ASSUME Trying(m)' \subseteq Trying(m)
        PROVE  Cardinality(Trying(m)') <= Cardinality(Trying(m))
    BY <1>7, TryingFinite, FS_Subset
  <1>8. ASSUME w \in Trying(m), w \notin Trying(m)'
        PROVE  Cardinality(Trying(m)') = Cardinality(Trying(m)) - 1
    <2>1. Trying(m)' = Trying(m) \ {w}
      BY <1>1, <1>3, <1>4, <1>8
    <2> QED
      BY <1>8, <2>1, TryingFinite, FS_RemoveElement
  <1> QED
    BY <1>2, <1>6, <1>7, <1>8

\* A batch that processes a message has one.
LEMMA CurrentType ==
    ASSUME OutboxTypeOK, NEW w \in Workers, workers[w].step \in {"read", "send", "finalize", "fail"}
    PROVE  Current(w) \in Messages
  BY LimitsAssumption DEF OutboxTypeOK, Batches, Current, Messages

\* What a batch does next, with the messages still to claim, is well formed.
LEMMA NextOfType ==
    ASSUME NEW queue \in SUBSET Messages
    PROVE  NextOf(queue) \in Batches /\ NextOf(queue).step \in {"idle", "claim"}
  <1>1. IdleBatch \in Batches
    BY LimitsAssumption DEF IdleBatch, Batches, BatchSteps
  <1> QED
    BY <1>1 DEF NextOf, IdleBatch, Batches, BatchSteps

\* A batch that goes on with its list, or ends, has a well-formed state and tries nothing.
LEMMA ContinuesType ==
    ASSUME OutboxTypeOK, NEW w \in Workers, Continues(w)
    PROVE  /\ workers' \in [Workers -> Batches]
           /\ \A v \in Workers \ {w} : workers'[v] = workers[v]
           /\ workers'[w].step \in {"idle", "claim"}
  <1>1. workers \in [Workers -> Batches] /\ workers[w].queue \in SUBSET Messages
    BY DEF OutboxTypeOK, Batches
  <1>2. NextOf(workers[w].queue) \in Batches /\ NextOf(workers[w].queue).step \in {"idle", "claim"}
    BY <1>1, NextOfType
  <1> QED
    BY <1>1, <1>2 DEF Continues

\* A batch that only changes its step keeps its list.
LEMMA GoesType ==
    ASSUME OutboxTypeOK, NEW w \in Workers, NEW step \in BatchSteps, BatchGoes(w, step)
    PROVE  /\ workers' \in [Workers -> Batches]
           /\ \A v \in Workers \ {w} : workers'[v] = workers[v]
           /\ workers'[w] = [workers[w] EXCEPT !.step = step]
           /\ workers'[w].step = step
           /\ workers'[w].queue = workers[w].queue
           /\ workers'[w].attempts = workers[w].attempts
           /\ Current(w)' = Current(w)
  BY DEF OutboxTypeOK, BatchGoes, Batches, Current

----------------------------------------------------------------------------
(* One lemma per action.                                                   *)

\* What the steps of one batch that neither call the provider nor touch a row must respect.
LEMMA BatchMoves ==
    ASSUME OutboxInv, NEW w \in Workers,
           UNCHANGED <<messages, accepted, calls>>, crashes' \in 0..MaxCrashes,
           workers' \in [Workers -> Batches],
           \A v \in Workers \ {w} : workers'[v] = workers[v],
           workers'[w].step \in {"read", "send", "finalize", "fail"} => Current(w)' # 0,
           workers'[w].step # "finalize",
           workers'[w].step \in {"read", "send"} =>
              workers[w].step \in {"read", "send"} /\ Current(w)' = Current(w),
           workers'[w].step \in {"send", "fail"} /\ HoldsClaim(w, Current(w)') =>
              workers'[w].attempts = messages[Current(w)'].attempts
    PROVE  OutboxInv'
  <1>1. OutboxTypeOK'
    BY DEF OutboxInv, OutboxTypeOK, Current
  <1>2. CallsAreCounted'
    <2> SUFFICES ASSUME NEW m \in Messages
                 PROVE  calls'[m] + Cardinality(Trying(m)') <= messages'[m].attempts
      BY DEF CallsAreCounted
    <2>1. Trying(m)' \subseteq Trying(m)
      BY DEF Trying, Current
    <2>2. Cardinality(Trying(m)') <= Cardinality(Trying(m)) /\ Cardinality(Trying(m)') \in Nat
      BY <2>1, TryingStep
    <2>3. calls[m] + Cardinality(Trying(m)) <= messages[m].attempts
      BY DEF OutboxInv, CallsAreCounted
    <2>4. calls[m] \in Nat /\ messages[m].attempts \in Nat
      BY LimitsAssumption DEF OutboxInv, OutboxTypeOK, Rows
    <2> QED
      BY <2>2, <2>3, <2>4, TryingFinite
  <1>3. BatchesAreCurrent'
    BY DEF OutboxInv, BatchesAreCurrent, HoldsClaim, At, Current
  <1> QED
    BY <1>1, <1>2, <1>3 DEF OutboxInv, EnqueuedFirst, ResultsHold

\* A message that is enqueued starts with no attempt.
LEMMA EnqueueKeepsInv ==
    ASSUME OutboxInv, NEW m \in Messages, Enqueue(m)
    PROVE  OutboxInv'
  <1>1. Enqueued \in Rows
    <2>1. 0 \in 0..maxAttempts
      BY LimitsAssumption
    <2> QED
      BY <2>1, Zenon DEF Enqueued, Rows
  <1>2. messages \in [Messages -> Rows] /\ messages[m] = NotEnqueued
    BY DEF OutboxInv, OutboxTypeOK, EnqueuedFirst, Enqueue
  <1>3. messages' = [messages EXCEPT ![m] = Enqueued]
    BY DEF Enqueue
  <1>4. messages[m].attempts = 0 /\ messages[m].status = "NONE"
    BY <1>2 DEF NotEnqueued
  <1>5. UNCHANGED <<workers, accepted, calls, crashes>>
    BY DEF Enqueue
  <1>6. OutboxTypeOK'
    BY <1>1, <1>2, <1>3, <1>4, <1>5 DEF OutboxInv, OutboxTypeOK, At, Current, Enqueued
  <1>7. CallsAreCounted'
    BY <1>2, <1>3, <1>4, <1>5 DEF OutboxInv, CallsAreCounted, Trying, Current, Enqueued
  <1>8. BatchesAreCurrent' /\ EnqueuedFirst' /\ ResultsHold'
    BY <1>1, <1>2, <1>3, <1>5
       DEF OutboxInv, BatchesAreCurrent, EnqueuedFirst, ResultsHold, HoldsClaim, At, Current, Enqueued
  <1> QED
    BY <1>6, <1>7, <1>8 DEF OutboxInv

\* Recovering a claim takes it from its batch and settles nothing.
LEMMA RecoverKeepsInv ==
    ASSUME OutboxInv, NEW w \in Workers, RecoverStaleClaims(w)
    PROVE  OutboxInv'
  <1>1. OutboxTypeOK /\ BatchGoes(w, "scan") /\ "scan" \in BatchSteps /\ UNCHANGED <<accepted, calls, crashes>>
    BY DEF OutboxInv, RecoverStaleClaims, BatchSteps
  <1>2. /\ workers' \in [Workers -> Batches] /\ workers'[w].step = "scan"
        /\ \A v \in Workers \ {w} : workers'[v] = workers[v]
    BY <1>1, GoesType
  <1>3. \A m \in Messages :
           /\ messages[m] \in Rows
           /\ \/ messages'[m] = messages[m]
              \/ /\ messages[m].status = "PROCESSING"
                 /\ messages'[m] = Unlocked(messages[m], "PENDING")
    BY <1>1 DEF OutboxTypeOK, RecoverStaleClaims
  <1>4. \A m \in Messages :
           /\ messages'[m] \in Rows
           /\ messages'[m].attempts = messages[m].attempts
           /\ \/ messages'[m] = messages[m]
              \/ /\ messages'[m].status = "PENDING" /\ messages'[m].lockedBy = NoWorker
    BY <1>3 DEF Rows, Unlocked
  <1>5. messages' \in [Messages -> Rows]
    BY <1>4 DEF RecoverStaleClaims
  <1>6. OutboxTypeOK'
    BY <1>1, <1>2, <1>4, <1>5 DEF OutboxTypeOK, Current
  <1>7. CallsAreCounted'
    <2> SUFFICES ASSUME NEW m \in Messages
                 PROVE  calls'[m] + Cardinality(Trying(m)') <= messages'[m].attempts
      BY DEF CallsAreCounted
    <2>1. Trying(m)' \subseteq Trying(m)
      BY <1>2 DEF Trying, Current
    <2>2. Cardinality(Trying(m)') <= Cardinality(Trying(m)) /\ Cardinality(Trying(m)') \in Nat
      BY <1>2, <2>1, TryingStep
    <2>3. calls[m] + Cardinality(Trying(m)) <= messages[m].attempts
      BY DEF OutboxInv, CallsAreCounted
    <2>4. calls[m] \in Nat /\ messages[m].attempts \in Nat
      BY LimitsAssumption DEF OutboxInv, OutboxTypeOK, Rows
    <2> QED
      BY <1>1, <1>4, <2>2, <2>3, <2>4, TryingFinite
  <1>8. BatchesAreCurrent'
    <2> SUFFICES ASSUME NEW v \in Workers
                 PROVE  /\ workers'[v].step \in {"send", "finalize", "fail"} /\ HoldsClaim(v, Current(v))'
                             => workers'[v].attempts = messages'[Current(v)'].attempts
                        /\ workers'[v].step = "finalize" => accepted'[Current(v)'] > 0
      BY DEF BatchesAreCurrent, At
    <2>1. CASE v = w
      BY <1>2, <2>1
    <2>2. CASE v # w /\ workers'[v].step \in {"send", "finalize", "fail"}
      <3>1. workers'[v] = workers[v] /\ Current(v)' = Current(v)
        BY <1>2, <2>2 DEF Current
      <3>2. workers[v].step = "finalize" => accepted[Current(v)] > 0
        BY DEF OutboxInv, BatchesAreCurrent, At
      <3>3. ASSUME HoldsClaim(v, Current(v))'
            PROVE  workers'[v].attempts = messages'[Current(v)'].attempts
        <4> DEFINE m == Current(v)
        <4>1. messages'[m].status = "PROCESSING" /\ messages'[m].lockedBy = v
          BY <3>1, <3>3 DEF HoldsClaim
        <4>2. m \in Messages
          BY <1>1, <2>2, <3>1, CurrentType DEF OutboxTypeOK, At
        <4>3. messages'[m] = messages[m]
          BY <1>4, <4>1, <4>2
        <4> QED
          BY <2>2, <3>1, <4>1, <4>3 DEF OutboxInv, BatchesAreCurrent, HoldsClaim
      <3> QED
        BY <1>1, <3>1, <3>2, <3>3
    <2> QED
      BY <2>1, <2>2
  <1>9. EnqueuedFirst' /\ ResultsHold'
    BY <1>1, <1>4 DEF OutboxInv, EnqueuedFirst, ResultsHold
  <1> QED
    BY <1>6, <1>7, <1>8, <1>9 DEF OutboxInv

\* Reading the due messages locks none of them.
LEMMA ScanKeepsInv ==
    ASSUME OutboxInv, NEW w \in Workers, Scan(w)
    PROVE  OutboxInv'
  <1> DEFINE due   == {m \in Messages : Waiting(m) /\ messages[m].due}
             batch == {m \in due : Cardinality({older \in due : older < m}) < batchSize}
  <1>1. OutboxTypeOK /\ batch \in SUBSET Messages
    BY DEF OutboxInv
  <1>2. workers' = [workers EXCEPT ![w] = NextOf(batch)]
    BY DEF Scan
  <1>3. UNCHANGED <<messages, accepted, calls>> /\ crashes' \in 0..MaxCrashes
    BY <1>1 DEF Scan, OutboxTypeOK
  <1> HIDE DEF batch
  <1>4. /\ workers' \in [Workers -> Batches]
        /\ \A v \in Workers \ {w} : workers'[v] = workers[v]
        /\ workers'[w].step \in {"idle", "claim"}
    BY <1>1, <1>2, NextOfType DEF OutboxTypeOK
  <1> QED
    BY <1>3, <1>4, BatchMoves

\* A process that dies leaves the rows alone.
LEMMA CrashKeepsInv ==
    ASSUME OutboxInv, NEW w \in Workers, Crash(w)
    PROVE  OutboxInv'
  <1>1. UNCHANGED <<messages, accepted, calls>> /\ crashes' \in 0..MaxCrashes
    BY LimitsAssumption DEF OutboxInv, OutboxTypeOK, Crash
  <1>2. /\ workers' \in [Workers -> Batches]
        /\ \A v \in Workers \ {w} : workers'[v] = workers[v]
        /\ workers'[w].step = "idle"
    BY LimitsAssumption DEF OutboxInv, OutboxTypeOK, Crash, IdleBatch, Batches, BatchSteps
  <1> QED
    BY <1>1, <1>2, BatchMoves

\* The claim counts the call before it is made, and no batch holds the message when it is claimed.
LEMMA ClaimKeepsInv ==
    ASSUME OutboxInv, NEW w \in Workers, Claim(w)
    PROVE  OutboxInv'
  <1>1. OutboxTypeOK /\ UNCHANGED <<accepted, calls, crashes>> /\ workers[w].step = "claim"
    BY DEF OutboxInv, Claim, At
  <1>2. PICK m \in Messages :
           \/ /\ Waiting(m)
              /\ messages' = [messages EXCEPT ![m] =
                    [messages[m] EXCEPT !.status = "PROCESSING", !.lockedBy = w, !.stale = FALSE,
                                     !.attempts = @ + 1]]
              /\ workers' = Taken(w, m)
           \/ /\ ~Waiting(m)
              /\ workers' = [workers EXCEPT ![w] = NextOf(@.queue \ {m})]
              /\ UNCHANGED messages
    BY DEF Claim
  <1>3. CASE ~Waiting(m)
    <2>1. crashes' \in 0..MaxCrashes /\ UNCHANGED <<messages, accepted, calls>>
      BY <1>1, <1>2, <1>3 DEF OutboxTypeOK
    <2>2. workers[w].queue \ {m} \in SUBSET Messages
      BY <1>1 DEF OutboxTypeOK, Batches
    <2>3. /\ workers' \in [Workers -> Batches]
          /\ \A v \in Workers \ {w} : workers'[v] = workers[v]
          /\ workers'[w].step \in {"idle", "claim"}
      BY <1>1, <1>2, <1>3, <2>2, NextOfType DEF OutboxTypeOK
    <2> QED
      BY <2>1, <2>3, BatchMoves
  <1>4. CASE Waiting(m)
    <2> DEFINE row   == [messages[m] EXCEPT !.status = "PROCESSING", !.lockedBy = w, !.stale = FALSE,
                                           !.attempts = @ + 1]
               batch == [workers[w] EXCEPT !.step = "read", !.queue = @ \ {m}, !.id = m]
    <2>1. messages' = [messages EXCEPT ![m] = row] /\ workers' = [workers EXCEPT ![w] = batch]
      BY <1>2, <1>4 DEF Taken
    <2>2. messages[m] \in Rows /\ messages[m].status \in {"PENDING", "FAILED"} /\ messages[m].attempts < maxAttempts
      BY <1>1, <1>4 DEF OutboxTypeOK, Waiting
    <2>3. /\ row \in Rows /\ row.status = "PROCESSING" /\ row.lockedBy = w
          /\ row.attempts = messages[m].attempts + 1
      <3>1. messages[m].attempts + 1 \in 0..maxAttempts
        BY <2>2, LimitsAssumption DEF Rows
      <3> QED
        BY <2>2, <3>1 DEF Rows
    <2>4. /\ messages' \in [Messages -> Rows] /\ messages'[m] = row
          /\ \A other \in Messages \ {m} : messages'[other] = messages[other]
      BY <1>1, <2>1, <2>3 DEF OutboxTypeOK
    <2>5. /\ workers' \in [Workers -> Batches]
          /\ \A v \in Workers \ {w} : workers'[v] = workers[v]
          /\ workers'[w].step = "read" /\ workers'[w].id = m
      <3>1. m \in 0..Count /\ workers[w] \in Batches
        BY <1>1, LimitsAssumption DEF OutboxTypeOK, Messages
      <3>2. batch \in Batches /\ batch.step = "read" /\ batch.id = m
        BY <3>1 DEF Batches, BatchSteps
      <3> HIDE DEF batch
      <3> QED
        BY <1>1, <2>1, <3>2 DEF OutboxTypeOK
    <2> HIDE DEF row
    <2>6. m # 0 /\ w # NoWorker
      BY LimitsAssumption DEF Messages
    <2>7. OutboxTypeOK'
      BY <1>1, <2>3, <2>4, <2>5, <2>6 DEF OutboxTypeOK, At, Current
    <2>8. CallsAreCounted'
      <3> SUFFICES ASSUME NEW n \in Messages
                   PROVE  calls'[n] + Cardinality(Trying(n)') <= messages'[n].attempts
        BY DEF CallsAreCounted
      <3>1. calls[n] + Cardinality(Trying(n)) <= messages[n].attempts
        BY DEF OutboxInv, CallsAreCounted
      <3>2. calls[n] \in Nat /\ messages[n].attempts \in Nat
        BY <1>1, LimitsAssumption DEF OutboxTypeOK, Rows
      <3>3. CASE n = m
        BY <1>1, <2>3, <2>4, <2>5, <3>1, <3>2, <3>3, TryingStep, TryingFinite
      <3>4. CASE n # m
        <4>1. Trying(n)' \subseteq Trying(n)
          BY <2>5, <3>4 DEF Trying, Current
        <4> QED
          BY <1>1, <2>4, <2>5, <3>1, <3>2, <3>4, <4>1, TryingStep, TryingFinite
      <3> QED
        BY <3>3, <3>4
    <2>9. BatchesAreCurrent'
      <3> SUFFICES ASSUME NEW v \in Workers
                   PROVE  /\ workers'[v].step \in {"send", "finalize", "fail"} /\ HoldsClaim(v, Current(v))'
                               => workers'[v].attempts = messages'[Current(v)'].attempts
                          /\ workers'[v].step = "finalize" => accepted'[Current(v)'] > 0
        BY DEF BatchesAreCurrent, At
      <3>1. CASE v = w
        BY <2>5, <3>1
      <3>2. CASE v # w /\ workers'[v].step \in {"send", "finalize", "fail"}
        <4>1. workers'[v] = workers[v] /\ Current(v)' = Current(v) /\ Current(v) \in Messages
          BY <1>1, <2>5, <3>2, CurrentType DEF Current
        <4>2. CASE Current(v) = m
          BY <1>1, <2>3, <2>4, <3>2, <4>1, <4>2 DEF OutboxInv, BatchesAreCurrent, HoldsClaim, At
        <4>3. CASE Current(v) # m
          BY <1>1, <2>4, <3>2, <4>1, <4>3 DEF OutboxInv, BatchesAreCurrent, HoldsClaim, At
        <4> QED
          BY <4>2, <4>3
      <3> QED
        BY <3>1, <3>2
    <2>10. EnqueuedFirst' /\ ResultsHold'
      BY <1>1, <2>3, <2>4 DEF OutboxInv, EnqueuedFirst, ResultsHold
    <2> QED
      BY <2>7, <2>8, <2>9, <2>10 DEF OutboxInv
  <1> QED
    BY <1>3, <1>4

\* The batch learns the attempts of the message it holds.
LEMMA ReadKeepsInv ==
    ASSUME OutboxInv, NEW w \in Workers, Read(w)
    PROVE  OutboxInv'
  <1>1. OutboxTypeOK /\ UNCHANGED <<messages, accepted, calls>> /\ crashes' \in 0..MaxCrashes
    BY DEF OutboxInv, OutboxTypeOK, Read
  <1>2. workers[w].step = "read" /\ Current(w) \in Messages
    BY <1>1, CurrentType DEF Read, At
  <1>3. CASE Continues(w)
    BY <1>1, <1>3, ContinuesType, BatchMoves
  <1>4. CASE workers' = [workers EXCEPT ![w].step = "send", ![w].attempts = messages[Current(w)].attempts]
    <2>1. messages[Current(w)].attempts \in 0..maxAttempts
      BY <1>1, <1>2 DEF OutboxTypeOK, Rows
    <2>2. /\ workers' \in [Workers -> Batches]
          /\ \A v \in Workers \ {w} : workers'[v] = workers[v]
          /\ workers'[w].step = "send"
          /\ workers'[w].attempts = messages[Current(w)].attempts
          /\ Current(w)' = Current(w)
      BY <1>1, <1>4, <2>1 DEF OutboxTypeOK, Batches, BatchSteps, Current
    <2>3. Current(w) # 0
      BY <1>1, <1>2 DEF OutboxTypeOK
    <2> QED
      BY <1>1, <1>2, <2>2, <2>3, BatchMoves
  <1> QED
    BY <1>3, <1>4 DEF Read

\* A payload that cannot be read is a failed attempt without a call.
LEMMA UnreadableKeepsInv ==
    ASSUME OutboxInv, NEW w \in Workers, Unreadable(w)
    PROVE  OutboxInv'
  <1>1. OutboxTypeOK /\ UNCHANGED <<messages, accepted, calls>> /\ crashes' \in 0..MaxCrashes
    BY DEF OutboxInv, OutboxTypeOK, Unreadable
  <1>2. workers[w].step = "send" /\ BatchGoes(w, "fail") /\ "fail" \in BatchSteps
    BY DEF Unreadable, At, BatchSteps
  <1>3. /\ workers' \in [Workers -> Batches]
        /\ \A v \in Workers \ {w} : workers'[v] = workers[v]
        /\ workers'[w].step = "fail" /\ workers'[w].attempts = workers[w].attempts
        /\ Current(w)' = Current(w)
    BY <1>1, <1>2, GoesType
  <1>4. Current(w) # 0 /\ (HoldsClaim(w, Current(w)) => workers[w].attempts = messages[Current(w)].attempts)
    BY <1>1, <1>2 DEF OutboxInv, OutboxTypeOK, BatchesAreCurrent
  <1> QED
    BY <1>1, <1>3, <1>4, BatchMoves DEF HoldsClaim

\* A call of the provider was counted when its batch claimed the message.
LEMMA SendKeepsInv ==
    ASSUME OutboxInv, NEW w \in Workers, Send(w)
    PROVE  OutboxInv'
  <1> DEFINE m == Current(w)
  <1>1. OutboxTypeOK /\ UNCHANGED <<messages, crashes>> /\ workers[w].step = "send" /\ m \in Messages
    BY CurrentType DEF OutboxInv, Send, At
  <1>2. /\ calls' = [calls EXCEPT ![m] = @ + 1]
        /\ \/ accepted' = [accepted EXCEPT ![m] = @ + 1] /\ BatchGoes(w, "finalize")
           \/ accepted' = [accepted EXCEPT ![m] = @ + 1] /\ BatchGoes(w, "fail")
           \/ accepted' = accepted /\ BatchGoes(w, "fail")
    BY DEF Send
  <1>3. PICK step \in {"finalize", "fail"} :
           BatchGoes(w, step) /\ (step = "finalize" => accepted' = [accepted EXCEPT ![m] = @ + 1])
    BY <1>2
  <1>4. /\ workers' \in [Workers -> Batches]
        /\ \A v \in Workers \ {w} : workers'[v] = workers[v]
        /\ workers'[w].step = step /\ workers'[w].attempts = workers[w].attempts
        /\ Current(w)' = m
    BY <1>1, <1>3, GoesType DEF BatchSteps
  <1>5. /\ calls' \in [Messages -> Nat] /\ accepted' \in [Messages -> Nat]
        /\ \A n \in Messages : accepted'[n] >= accepted[n]
        /\ step = "finalize" => accepted'[m] > 0
        /\ calls'[m] = calls[m] + 1
        /\ \A n \in Messages \ {m} : calls'[n] = calls[n]
    BY <1>1, <1>2, <1>3 DEF OutboxTypeOK
  <1> HIDE DEF m
  <1>6. OutboxTypeOK'
    BY <1>1, <1>4, <1>5 DEF OutboxTypeOK, At, Current, m
  <1>7. CallsAreCounted'
    <2> SUFFICES ASSUME NEW n \in Messages
                 PROVE  calls'[n] + Cardinality(Trying(n)') <= messages'[n].attempts
      BY DEF CallsAreCounted
    <2>1. calls[n] + Cardinality(Trying(n)) <= messages[n].attempts
      BY DEF OutboxInv, CallsAreCounted
    <2>2. calls[n] \in Nat /\ messages[n].attempts \in Nat
      BY <1>1, LimitsAssumption DEF OutboxTypeOK, Rows
    <2>3. CASE n = m
      <3>1. w \in Trying(n) /\ w \notin Trying(n)'
        BY <1>1, <1>3, <1>4, <2>3 DEF Trying, m
      <3>2. Cardinality(Trying(n)') = Cardinality(Trying(n)) - 1
        BY <1>4, <3>1, TryingStep
      <3> QED
        BY <1>1, <1>5, <2>1, <2>2, <2>3, <3>2, TryingFinite
    <2>4. CASE n # m
      <3>1. Trying(n)' \subseteq Trying(n)
        BY <1>4 DEF Trying, Current
      <3> QED
        BY <1>1, <1>4, <1>5, <2>1, <2>2, <2>4, <3>1, TryingStep, TryingFinite
    <2> QED
      BY <2>3, <2>4
  <1>8. BatchesAreCurrent'
    <2> SUFFICES ASSUME NEW v \in Workers
                 PROVE  /\ workers'[v].step \in {"send", "finalize", "fail"} /\ HoldsClaim(v, Current(v))'
                             => workers'[v].attempts = messages'[Current(v)'].attempts
                        /\ workers'[v].step = "finalize" => accepted'[Current(v)'] > 0
      BY DEF BatchesAreCurrent, At
    <2>1. CASE v = w
      BY <1>1, <1>3, <1>4, <1>5, <2>1 DEF OutboxInv, BatchesAreCurrent, HoldsClaim, At, m
    <2>2. CASE v # w /\ workers'[v].step \in {"send", "finalize", "fail"}
      <3>1. workers'[v] = workers[v] /\ Current(v)' = Current(v) /\ Current(v) \in Messages
        BY <1>1, <1>4, <2>2, CurrentType DEF Current
      <3>2. accepted'[Current(v)] >= accepted[Current(v)] /\ accepted[Current(v)] \in Nat /\ accepted'[Current(v)] \in Nat
        BY <1>1, <1>5, <3>1 DEF OutboxTypeOK
      <3> QED
        BY <1>1, <2>2, <3>1, <3>2 DEF OutboxInv, BatchesAreCurrent, HoldsClaim, At
    <2> QED
      BY <2>1, <2>2
  <1>9. EnqueuedFirst'
    BY <1>1 DEF OutboxInv, EnqueuedFirst
  <1>10. ResultsHold'
    BY <1>1, <1>5 DEF OutboxInv, ResultsHold, OutboxTypeOK
  <1> QED
    BY <1>6, <1>7, <1>8, <1>9, <1>10 DEF OutboxInv

\* A batch that still holds its message settles it, or returns it; it tries nothing afterwards.
LEMMA SettleKeepsInv ==
    ASSUME OutboxInv, NEW w \in Workers, workers[w].step \in {"finalize", "fail"}, Continues(w),
           UNCHANGED <<accepted, calls, crashes>>,
           NEW row, row \in Rows, HoldsClaim(w, Current(w)), messages' = [messages EXCEPT ![Current(w)] = row],
           row.status \in {"PENDING", "SENT", "FAILED"}, row.lockedBy = NoWorker,
           row.attempts = messages[Current(w)].attempts,
           row.status = "SENT" => accepted[Current(w)] > 0,
           row.status = "FAILED" => row.attempts = maxAttempts
    PROVE  OutboxInv'
  <1> DEFINE m == Current(w)
  <1>1. OutboxTypeOK /\ m \in Messages
    BY CurrentType DEF OutboxInv
  <1>2. /\ workers' \in [Workers -> Batches]
        /\ \A v \in Workers \ {w} : workers'[v] = workers[v]
        /\ workers'[w].step \in {"idle", "claim"}
    BY <1>1, ContinuesType
  <1>3. /\ messages' \in [Messages -> Rows] /\ messages'[m] = row
        /\ \A n \in Messages \ {m} : messages'[n] = messages[n]
    BY <1>1 DEF OutboxTypeOK
  <1> HIDE DEF m
  <1>4. OutboxTypeOK'
    BY <1>1, <1>2, <1>3 DEF OutboxTypeOK, At, Current
  <1>5. CallsAreCounted'
    <2> SUFFICES ASSUME NEW n \in Messages
                 PROVE  calls'[n] + Cardinality(Trying(n)') <= messages'[n].attempts
      BY DEF CallsAreCounted
    <2>1. calls[n] + Cardinality(Trying(n)) <= messages[n].attempts
      BY DEF OutboxInv, CallsAreCounted
    <2>2. calls[n] \in Nat /\ messages[n].attempts \in Nat /\ messages'[n].attempts = messages[n].attempts
      BY <1>1, <1>3, LimitsAssumption DEF OutboxTypeOK, Rows, m
    <2>3. Trying(n)' \subseteq Trying(n)
      BY <1>2 DEF Trying, Current
    <2> QED
      BY <1>2, <2>1, <2>2, <2>3, TryingStep, TryingFinite
  <1>6. BatchesAreCurrent'
    <2> SUFFICES ASSUME NEW v \in Workers
                 PROVE  /\ workers'[v].step \in {"send", "finalize", "fail"} /\ HoldsClaim(v, Current(v))'
                             => workers'[v].attempts = messages'[Current(v)'].attempts
                        /\ workers'[v].step = "finalize" => accepted'[Current(v)'] > 0
      BY DEF BatchesAreCurrent, At
    <2>1. CASE v = w
      BY <1>2, <2>1
    <2>2. CASE v # w /\ workers'[v].step \in {"send", "finalize", "fail"}
      <3>1. workers'[v] = workers[v] /\ Current(v)' = Current(v) /\ Current(v) \in Messages
        BY <1>1, <1>2, <2>2, CurrentType DEF Current
      <3>2. CASE Current(v) = m
        BY <1>3, <2>2, <3>1, <3>2 DEF OutboxInv, BatchesAreCurrent, HoldsClaim, At
      <3>3. CASE Current(v) # m
        BY <1>3, <2>2, <3>1, <3>3 DEF OutboxInv, BatchesAreCurrent, HoldsClaim, At
      <3> QED
        BY <3>2, <3>3
    <2> QED
      BY <2>1, <2>2
  <1>7. EnqueuedFirst' /\ ResultsHold'
    BY <1>1, <1>3 DEF OutboxInv, EnqueuedFirst, ResultsHold, m
  <1> QED
    BY <1>4, <1>5, <1>6, <1>7 DEF OutboxInv

\* Unlocking changes neither the attempts nor the form of a row.
LEMMA UnlockedType ==
    ASSUME NEW row \in Rows, NEW status \in {"PENDING", "SENT", "FAILED"}
    PROVE  /\ Unlocked(row, status) \in Rows
           /\ Unlocked(row, status).status = status
           /\ Unlocked(row, status).lockedBy = NoWorker
           /\ Unlocked(row, status).attempts = row.attempts
  BY DEF Unlocked, Rows

\* A batch that lost its message changes nothing of it.
LEMMA FinalizeKeepsInv ==
    ASSUME OutboxInv, NEW w \in Workers, Finalize(w)
    PROVE  OutboxInv'
  <1> DEFINE m == Current(w)
  <1>1. OutboxTypeOK /\ UNCHANGED <<accepted, calls, crashes>> /\ workers[w].step = "finalize" /\ m \in Messages
    BY CurrentType DEF OutboxInv, Finalize, At
  <1>2. messages[m] \in Rows /\ crashes' \in 0..MaxCrashes /\ m # 0
    BY <1>1 DEF OutboxTypeOK
  <1>3. CASE BatchGoes(w, "fail") /\ UNCHANGED messages
    <2>1. /\ workers' \in [Workers -> Batches]
          /\ \A v \in Workers \ {w} : workers'[v] = workers[v]
          /\ workers'[w].step = "fail" /\ workers'[w].attempts = workers[w].attempts
          /\ Current(w)' = Current(w)
      BY <1>1, <1>3, GoesType DEF BatchSteps
    <2>2. HoldsClaim(w, m) => workers[w].attempts = messages[m].attempts
      BY <1>1 DEF OutboxInv, BatchesAreCurrent
    <2> QED
      BY <1>1, <1>2, <1>3, <2>1, <2>2, BatchMoves DEF HoldsClaim
  <1>4. CASE Continues(w) /\ ~HoldsClaim(w, m) /\ messages' = messages
    BY <1>1, <1>2, <1>4, ContinuesType, BatchMoves
  <1>5. CASE Continues(w) /\ HoldsClaim(w, m) /\ messages' = [messages EXCEPT ![m] = Unlocked(@, "SENT")]
    <2>1. accepted[m] > 0
      BY <1>1 DEF OutboxInv, BatchesAreCurrent, At
    <2>2. messages' = [messages EXCEPT ![m] = Unlocked(messages[m], "SENT")]
      BY <1>5
    <2> QED
      BY <1>1, <1>2, <1>5, <2>1, <2>2, UnlockedType, SettleKeepsInv
  <1> QED
    BY <1>3, <1>4, <1>5 DEF Finalize

\* A failure is the last one exactly when the attempts of the row are used up.
LEMMA FailKeepsInv ==
    ASSUME OutboxInv, NEW w \in Workers, RecordFailure(w)
    PROVE  OutboxInv'
  <1> DEFINE m == Current(w)
             status == AfterFailure(workers[w].attempts)
             row == [Unlocked(messages[m], status) EXCEPT !.due = FALSE]
  <1>1. /\ OutboxTypeOK /\ UNCHANGED <<accepted, calls, crashes>> /\ Continues(w)
        /\ workers[w].step = "fail" /\ m \in Messages
    BY CurrentType DEF OutboxInv, RecordFailure, At
  <1>2. messages[m] \in Rows /\ crashes' \in 0..MaxCrashes
    BY <1>1 DEF OutboxTypeOK
  <1>3. CASE ~HoldsClaim(w, m) /\ messages' = messages
    BY <1>1, <1>2, <1>3, ContinuesType, BatchMoves
  <1>4. CASE HoldsClaim(w, m) /\ messages' = [messages EXCEPT ![m] = row]
    <2>1. workers[w].attempts = messages[m].attempts /\ messages[m].attempts \in 0..maxAttempts
      BY <1>1, <1>2, <1>4 DEF OutboxInv, BatchesAreCurrent, Rows
    <2>2. status \in {"PENDING", "FAILED"} /\ (status = "FAILED" => messages[m].attempts = maxAttempts)
      BY <2>1, LimitsAssumption DEF AfterFailure
    <2> HIDE DEF status
    <2>3. /\ row \in Rows /\ row.status = status /\ row.lockedBy = NoWorker
          /\ row.attempts = messages[m].attempts
      <3>1. /\ Unlocked(messages[m], status) \in Rows /\ Unlocked(messages[m], status).status = status
            /\ Unlocked(messages[m], status).lockedBy = NoWorker
            /\ Unlocked(messages[m], status).attempts = messages[m].attempts
        BY <1>2, <2>2, UnlockedType
      <3> QED
        BY <3>1 DEF Rows
    <2> HIDE DEF row
    <2> QED
      BY <1>1, <1>2, <1>4, <2>1, <2>2, <2>3, SettleKeepsInv
  <1> QED
    BY <1>3, <1>4 DEF RecordFailure

\* Time changes no result.
LEMMA TimeKeepsInv ==
    ASSUME OutboxInv, NEW m \in Messages, BecomesDue(m) \/ BecomesStale(m)
    PROVE  OutboxInv'
  <1>1. OutboxTypeOK /\ UNCHANGED <<workers, accepted, calls, crashes>> /\ messages[m] \in Rows
    BY DEF OutboxInv, OutboxTypeOK, BecomesDue, BecomesStale
  <1>2. PICK row \in Rows : /\ messages' = [messages EXCEPT ![m] = row]
                            /\ row.status = messages[m].status /\ row.status # "NONE"
                            /\ row.attempts = messages[m].attempts
                            /\ row.lockedBy = messages[m].lockedBy
    <2>1. CASE BecomesDue(m)
      <3>1. messages' = [messages EXCEPT ![m] = [messages[m] EXCEPT !.due = TRUE]]
        BY <2>1 DEF BecomesDue
      <3>2. [messages[m] EXCEPT !.due = TRUE] \in Rows
        BY <1>1 DEF Rows
      <3> QED
        BY <1>1, <2>1, <3>1, <3>2 DEF BecomesDue, Waiting, Rows
    <2>2. CASE BecomesStale(m)
      <3>1. messages' = [messages EXCEPT ![m] = [messages[m] EXCEPT !.stale = TRUE]]
        BY <2>2 DEF BecomesStale
      <3>2. [messages[m] EXCEPT !.stale = TRUE] \in Rows
        BY <1>1 DEF Rows
      <3> QED
        BY <1>1, <2>2, <3>1, <3>2 DEF BecomesStale, Rows
    <2> QED
      BY <2>1, <2>2
  <1>3. OutboxTypeOK'
    BY <1>1, <1>2 DEF OutboxTypeOK, At, Current
  <1>4. CallsAreCounted'
    BY <1>1, <1>2 DEF OutboxInv, CallsAreCounted, OutboxTypeOK, Trying, Current
  <1>5. BatchesAreCurrent'
    BY <1>1, <1>2 DEF OutboxInv, BatchesAreCurrent, OutboxTypeOK, HoldsClaim, At, Current
  <1>6. EnqueuedFirst' /\ ResultsHold'
    BY <1>1, <1>2 DEF OutboxInv, EnqueuedFirst, ResultsHold, OutboxTypeOK
  <1> QED
    BY <1>3, <1>4, <1>5, <1>6 DEF OutboxInv

----------------------------------------------------------------------------
(* The invariant and what follows from it.                                 *)

\* Nothing is enqueued at first and nobody tries anything.
LEMMA InitHasInv == OutboxInit => OutboxInv
  <1> SUFFICES ASSUME OutboxInit PROVE OutboxInv
    OBVIOUS
  <1>1. NotEnqueued \in Rows
    <2>1. 0 \in 0..maxAttempts
      BY LimitsAssumption
    <2> QED
      BY <2>1, Zenon DEF NotEnqueued, Rows
  <1>2. IdleBatch \in Batches
    BY LimitsAssumption DEF IdleBatch, Batches, BatchSteps
  <1>3. OutboxTypeOK
    BY <1>1, <1>2, LimitsAssumption DEF OutboxInit, OutboxTypeOK, NotEnqueued, IdleBatch, At, Current
  <1>4. CallsAreCounted
    <2>1. \A m \in Messages : Trying(m) = {}
      BY DEF OutboxInit, Trying, IdleBatch
    <2> QED
      <3>1. \A m \in Messages : calls[m] = 0 /\ messages[m].attempts = 0 /\ Cardinality(Trying(m)) = 0
        BY <2>1, FS_EmptySet DEF OutboxInit, NotEnqueued
      <3> QED
        BY <3>1 DEF CallsAreCounted
  <1>5. BatchesAreCurrent /\ EnqueuedFirst /\ ResultsHold
    BY DEF OutboxInit, BatchesAreCurrent, EnqueuedFirst, ResultsHold, NotEnqueued, IdleBatch, At
  <1> QED
    BY <1>3, <1>4, <1>5 DEF OutboxInv

\* Every step keeps it.
LEMMA NextKeepsInv == OutboxInv /\ [OutboxNext]_outboxVars => OutboxInv'
  <1> SUFFICES ASSUME OutboxInv, [OutboxNext]_outboxVars PROVE OutboxInv'
    OBVIOUS
  <1>1. CASE UNCHANGED outboxVars
    BY <1>1 DEF outboxVars, OutboxInv, OutboxTypeOK, CallsAreCounted, BatchesAreCurrent, EnqueuedFirst, ResultsHold,
                Trying, HoldsClaim, At, Current
  <1>2. ASSUME NEW m \in Messages, Enqueue(m) \/ BecomesDue(m) \/ BecomesStale(m)
        PROVE  OutboxInv'
    BY <1>2, EnqueueKeepsInv, TimeKeepsInv
  <1>3. ASSUME NEW w \in Workers, Batch(w) \/ Crash(w)
        PROVE  OutboxInv'
    BY <1>3, RecoverKeepsInv, ScanKeepsInv, ClaimKeepsInv, ReadKeepsInv, SendKeepsInv, UnreadableKeepsInv,
       FinalizeKeepsInv, FailKeepsInv, CrashKeepsInv DEF Batch
  <1> QED
    BY <1>1, <1>2, <1>3 DEF OutboxNext

\* The invariant holds of every behaviour, whatever the workers and the timers do.
THEOREM OutboxInvariant == OutboxSpec => []OutboxInv
  BY InitHasInv, NextKeepsInv, PTL DEF OutboxSpec

\* Rows and batches keep their form.
THEOREM OutboxTypeCorrect == OutboxSpec => []OutboxTypeOK
  <1>1. OutboxInv => OutboxTypeOK
    BY DEF OutboxInv
  <1> QED
    BY <1>1, OutboxInvariant, PTL

\* The provider is called for a message at most maxAttempts times, for any number of workers,
\* crashes and stale claims.
THEOREM RetriesAlwaysBounded == OutboxSpec => []RetriesAreBounded
  <1>1. OutboxInv => RetriesAreBounded
    <2> SUFFICES ASSUME OutboxInv, NEW m \in Messages PROVE calls[m] <= maxAttempts
      BY DEF RetriesAreBounded
    <2>1. calls[m] + Cardinality(Trying(m)) <= messages[m].attempts /\ Cardinality(Trying(m)) \in Nat
      BY TryingFinite DEF OutboxInv, CallsAreCounted
    <2>2. calls[m] \in Nat /\ messages[m].attempts \in 0..maxAttempts
      BY DEF OutboxInv, OutboxTypeOK, Rows
    <2> QED
      BY <2>1, <2>2, LimitsAssumption
  <1> QED
    BY <1>1, OutboxInvariant, PTL

\* A row that stays as it is may.
LEMMA SameRow ==
    ASSUME NEW m \in Messages
    PROVE  MayBecome(m, messages[m])
  BY DEF MayBecome

\* Finalize records SENT for the attempt it holds, or leaves every row alone.
LEMMA FinalizeRecords ==
    ASSUME OutboxInv, NEW w \in Workers, Finalize(w), NEW m \in Messages
    PROVE  MayBecome(m, messages'[m])
  <1>1. /\ OutboxTypeOK /\ workers[w].step = "finalize" /\ Current(w) \in Messages /\ accepted[Current(w)] > 0
        /\ HoldsClaim(w, Current(w)) => workers[w].attempts = messages[Current(w)].attempts
    BY CurrentType DEF OutboxInv, BatchesAreCurrent, Finalize, At
  <1>2. messages \in [Messages -> Rows]
    BY <1>1 DEF OutboxTypeOK
  <1>3. CASE messages' = messages
    BY <1>3, SameRow
  <1>4. CASE Continues(w) /\ HoldsClaim(w, Current(w)) /\ messages' = [messages EXCEPT ![Current(w)] = Unlocked(@, "SENT")]
    <2>1. workers'[w] # workers[w]
      BY <1>1, <1>4, ContinuesType
    <2>2. CASE Current(w) # m
      BY <1>2, <1>4, <2>2, SameRow
    <2>3. CASE Current(w) = m
      <3>1. messages[m].status = "PROCESSING" /\ messages[m].lockedBy = w /\ messages[m] \in Rows
        BY <1>2, <1>4, <2>3 DEF HoldsClaim
      <3>2. messages'[m].status = "SENT"
        BY <1>2, <1>4, <2>3, <3>1, UnlockedType
      <3>3. RecordedByClaimant(m, w, "SENT")
        BY <1>1, <1>4, <2>1, <2>3, <3>1 DEF RecordedByClaimant, StepsFrom, At
      <3> QED
        BY <3>1, <3>2, <3>3 DEF MayBecome
    <2> QED
      BY <2>2, <2>3
  <1> QED
    BY <1>3, <1>4 DEF Finalize

\* So does the catch, with the status that attempt calls for.
LEMMA FailRecords ==
    ASSUME OutboxInv, NEW w \in Workers, RecordFailure(w), NEW m \in Messages
    PROVE  MayBecome(m, messages'[m])
  <1> DEFINE status == AfterFailure(workers[w].attempts)
  <1>1. /\ OutboxTypeOK /\ workers[w].step = "fail" /\ Current(w) \in Messages /\ Continues(w)
        /\ HoldsClaim(w, Current(w)) => workers[w].attempts = messages[Current(w)].attempts
    BY CurrentType DEF OutboxInv, BatchesAreCurrent, RecordFailure, At
  <1>2. messages \in [Messages -> Rows]
    BY <1>1 DEF OutboxTypeOK
  <1>3. CASE messages' = messages
    BY <1>3, SameRow
  <1>4. CASE HoldsClaim(w, Current(w)) /\ messages' = [messages EXCEPT ![Current(w)] = [Unlocked(@, status) EXCEPT !.due = FALSE]]
    <2>1. workers'[w] # workers[w]
      BY <1>1, ContinuesType
    <2>2. CASE Current(w) # m
      BY <1>2, <1>4, <2>2, SameRow
    <2>3. CASE Current(w) = m
      <3>1. messages[m].status = "PROCESSING" /\ messages[m].lockedBy = w /\ messages[m] \in Rows
        BY <1>2, <1>4, <2>3 DEF HoldsClaim
      <3>2. messages[m].attempts \in 0..maxAttempts /\ workers[w].attempts = messages[m].attempts
        BY <1>1, <1>4, <2>3, <3>1 DEF Rows
      <3>3. status = IF messages[m].attempts = maxAttempts THEN "FAILED" ELSE "PENDING"
        BY <3>2, LimitsAssumption DEF AfterFailure
      <3> HIDE DEF status
      <3>4. messages'[m] = [Unlocked(messages[m], status) EXCEPT !.due = FALSE]
        BY <1>2, <1>4, <2>3
      <3>5. Unlocked(messages[m], status) \in Rows /\ Unlocked(messages[m], status).status = status
        BY <3>1, <3>3, UnlockedType
      <3>6. messages'[m].status = status
        BY <3>4, <3>5 DEF Rows
      <3>7. RecordedByClaimant(m, w, status)
        BY <1>1, <2>1, <2>3, <3>1, <3>2, <3>3 DEF RecordedByClaimant, StepsFrom, At
      <3> QED
        BY <3>1, <3>6, <3>7 DEF MayBecome
    <2> QED
      BY <2>2, <2>3
  <1> QED
    BY <1>3, <1>4 DEF RecordFailure

\* A recovery unlocks stale rows and no others.
LEMMA RecoverRecords ==
    ASSUME OutboxInv, NEW w \in Workers, RecoverStaleClaims(w), NEW m \in Messages
    PROVE  MayBecome(m, messages'[m])
  <1>1. OutboxTypeOK /\ messages \in [Messages -> Rows] /\ At(w, "idle") /\ BatchGoes(w, "scan")
    BY DEF OutboxInv, OutboxTypeOK, RecoverStaleClaims
  <1>2. StepsFrom(w, "idle")
    BY <1>1, GoesType DEF StepsFrom, At, BatchSteps
  <1>3. CASE messages[m].status = "PROCESSING" /\ messages[m].stale
    <2>1. messages'[m].status = "PENDING"
      BY <1>1, <1>3, UnlockedType DEF RecoverStaleClaims
    <2> QED
      BY <1>2, <1>3, <2>1 DEF MayBecome, RecoveredFromStale
  <1>4. CASE ~(messages[m].status = "PROCESSING" /\ messages[m].stale)
    <2>1. messages'[m] = messages[m]
      BY <1>4 DEF RecoverStaleClaims
    <2> QED
      BY <2>1, SameRow
  <1> QED
    BY <1>3, <1>4

\* The other steps touch rows that have no result and give none: an enqueued message, one that is claimed or comes
\* due, a claim that gets old.
LEMMA OthersRecordNothing ==
    ASSUME OutboxInv, NEW m \in Messages,
           \/ \E n \in Messages : Enqueue(n) \/ BecomesDue(n) \/ BecomesStale(n)
           \/ \E w \in Workers : Claim(w)
    PROVE  MayBecome(m, messages'[m])
  <1>1. OutboxTypeOK /\ messages \in [Messages -> Rows]
    BY DEF OutboxInv, OutboxTypeOK
  <1>2. ASSUME NEW n \in Messages, Enqueue(n) PROVE MayBecome(m, messages'[m])
    <2>1. CASE n = m
      BY <1>1, <1>2, <2>1 DEF Enqueue, Enqueued, MayBecome
    <2> QED
      BY <1>1, <1>2, <2>1, SameRow DEF Enqueue
  <1>3. ASSUME NEW n \in Messages, BecomesDue(n) \/ BecomesStale(n) PROVE MayBecome(m, messages'[m])
    <2>1. CASE n = m
      <3>1. /\ messages[m].status \in {"PENDING", "PROCESSING", "FAILED"} /\ messages'[m].status = messages[m].status
            /\ messages[m].status = "FAILED" => messages[m].attempts < maxAttempts
        BY <1>1, <1>3, <2>1 DEF BecomesDue, BecomesStale, Waiting, Rows
      <3>2. messages[m].status # "FAILED"
        BY <3>1, LimitsAssumption DEF OutboxInv, ResultsHold
      <3> QED
        BY <3>1, <3>2 DEF MayBecome
    <2> QED
      BY <1>1, <1>3, <2>1, SameRow DEF BecomesDue, BecomesStale
  <1>4. ASSUME NEW w \in Workers, Claim(w) PROVE MayBecome(m, messages'[m])
    <2>1. PICK n \in Messages :
             \/ messages' = messages
             \/ /\ Waiting(n)
                /\ messages' = [messages EXCEPT ![n] =
                      [messages[n] EXCEPT !.status = "PROCESSING", !.lockedBy = w, !.stale = FALSE, !.attempts = @ + 1]]
      BY <1>4 DEF Claim
    <2>2. CASE messages'[m] = messages[m]
      BY <2>2, SameRow
    <2>3. CASE messages'[m] # messages[m]
      <3>1. Waiting(m) /\ messages'[m].status = "PROCESSING"
        BY <1>1, <2>1, <2>3 DEF Rows
      <3>2. messages[m].status = "PENDING"
        BY <3>1, LimitsAssumption DEF Waiting, OutboxInv, ResultsHold
      <3> QED
        BY <3>1, <3>2 DEF MayBecome
    <2> QED
      BY <2>2, <2>3
  <1> QED
    BY <1>2, <1>3, <1>4

\* Results are recorded by the worker whose claim the row carries, for the attempt it counted, and are final.
THEOREM ResultsAlwaysTrue == OutboxSpec => ResultsAreTrue
  <1>1. OutboxInv /\ [OutboxNext]_outboxVars => [\A m \in Messages : MayBecome(m, messages'[m])]_outboxVars
    <2> SUFFICES ASSUME OutboxInv, OutboxNext, NEW m \in Messages PROVE MayBecome(m, messages'[m])
      OBVIOUS
    <2>1. ASSUME messages' = messages PROVE MayBecome(m, messages'[m])
      BY <2>1, SameRow
    <2>2. ASSUME NEW w \in Workers, Batch(w) \/ Crash(w) PROVE MayBecome(m, messages'[m])
      <3>1. CASE Scan(w) \/ Read(w) \/ Send(w) \/ Unreadable(w) \/ Crash(w)
        BY <2>1, <3>1 DEF Scan, Read, Send, Unreadable, Crash
      <3> QED
        BY <2>2, <3>1, FinalizeRecords, FailRecords, RecoverRecords, OthersRecordNothing DEF Batch
    <2> QED
      BY <2>2, OthersRecordNothing DEF OutboxNext
  <1> QED
    BY <1>1, OutboxInvariant, PTL DEF OutboxSpec, ResultsAreTrue
=============================================================================
