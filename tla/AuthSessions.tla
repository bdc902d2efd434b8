---------------------------- MODULE AuthSessions ----------------------------
(***************************************************************************)
(* The sessions, password and reset tokens of one user: AuthService.login, *)
(* refresh, logout, logoutAll, changePassword, requestPasswordReset and    *)
(* resetPassword, and UserService.deactivate.  No WHERE clause of these    *)
(* statements matches rows of two users, so one is enough.                 *)
(*                                                                         *)
(* The handlers run at READ COMMITTED.  What a handler has read is old by  *)
(* the time it writes, and an updateMany that waits for a row lock, or is  *)
(* slow, works on the rows it matched when it began: it checks again that  *)
(* each of them still matches, and does not see rows created since.  So    *)
(* every such statement is two steps, matching and writing.  A transaction *)
(* keeps the rows it has updated locked until it ends.                     *)
(***************************************************************************)
EXTENDS Sequences, Naturals

CONSTANTS
    Handlers,      \* requests that run at the same time
    Passwords,
    FirstPassword, \* the password at first
    NoPassword,    \* no new password is to be written
    MaxSessions,   \* bound: session rows
    MaxResets      \* bound: reset token rows

ASSUME PasswordsAssumption == FirstPassword \in Passwords /\ NoPassword \notin Passwords
ASSUME BoundsAssumption == MaxSessions \in Nat /\ MaxResets \in Nat

VARIABLES
    account,   \* the user row: passwordHash, its algorithm, isActive
    sessions,  \* the RefreshSession rows; a client that presents the n-th token presents n
    resets,    \* the PasswordResetToken rows
    handlers,  \* handlers[h]: what handler h has read and does next
    spent      \* spent[t]: how many resets were done with the t-th token (no code reads it)

vars == <<account, sessions, resets, handlers, spent>>

Accounts == [password : Passwords, legacy : BOOLEAN, active : BOOLEAN]

\* ENDED: EXPIRED, LOGOUT, LOGOUT_ALL, PASSWORD_CHANGED or PASSWORD_RESET, which no code tells apart.
Reasons == {"ROTATED", "REUSE_DETECTED", "ENDED"}

\* family: the first session of the family.  revoked: the reason, "no" while revokedAt is null.
\* recent: rotated less than refreshReuseGraceSeconds ago.
Sessions == [family : Nat, revoked : Reasons \cup {"no"}, recent : BOOLEAN, expired : BOOLEAN]

Resets == [used : BOOLEAN, expired : BOOLEAN]

Steps == {"idle", "rehash", "open", "rotate", "expire", "reuse", "all", "consume", "revoke", "request"}

\* rows, tokens: the sessions and reset tokens the running statements matched.
Requests == [step : Steps, session : Nat, token : Nat, password : Passwords \cup {NoPassword},
             rows : SUBSET Nat, tokens : SUBSET Nat, reason : Reasons]

Idle == [step |-> "idle", session |-> 0, token |-> 0, password |-> NoPassword,
         rows |-> {}, tokens |-> {}, reason |-> "ROTATED"]

Init ==
    /\ account \in [password : {FirstPassword}, legacy : BOOLEAN, active : {TRUE}]
    /\ sessions = <<>>
    /\ resets = <<>>
    /\ handlers = [h \in Handlers |-> Idle]
    /\ spent = [t \in 1..MaxResets |-> 0]

----------------------------------------------------------------------------

Live == {s \in DOMAIN sessions : sessions[s].revoked = "no"}

Unused == {t \in DOMAIN resets : ~resets[t].used}

NewSession(family) == [family |-> family, revoked |-> "no", recent |-> FALSE, expired |-> FALSE]

RevokedAs(row, reason) == [row EXCEPT !.revoked = reason, !.recent = (reason = "ROTATED")]

Goes(h, request) == handlers' = [handlers EXCEPT ![h] = request]

Ends(h) == Goes(h, Idle)

\* Another transaction has updated the user row and has not ended.
AccountLocked(h) ==
    \E other \in Handlers \ {h} : handlers[other].step = "revoke" /\ handlers[other].password # NoPassword

\* The reset tokens other transactions have updated.
TokensLocked(h) ==
    UNION {handlers[other].tokens : other \in {o \in Handlers \ {h} : handlers[o].step \in {"revoke", "request"}}}

----------------------------------------------------------------------------
(* login                                                                   *)

\* The password the client gave was the right one.
BeginLogin(h) ==
    /\ handlers[h] = Idle
    /\ account.active
    /\ IF account.legacy THEN Goes(h, [Idle EXCEPT !.step = "rehash", !.password = account.password])
       ELSE Goes(h, [Idle EXCEPT !.step = "open"])
    /\ UNCHANGED <<account, sessions, resets, spent>>

\* The stored hash is replaced by a new hash of the password the login was verified with.
Rehash(h) ==
    /\ handlers[h].step = "rehash" /\ ~AccountLocked(h)
    /\ account' = [account EXCEPT !.password = handlers[h].password, !.legacy = FALSE]
    /\ Goes(h, [Idle EXCEPT !.step = "open"])
    /\ UNCHANGED <<sessions, resets, spent>>

OpenSession(h) ==
    /\ handlers[h].step = "open" /\ Len(sessions) < MaxSessions
    /\ sessions' = Append(sessions, NewSession(Len(sessions) + 1))
    /\ Ends(h)
    /\ UNCHANGED <<account, resets, spent>>

----------------------------------------------------------------------------
(* refresh                                                                 *)

\* What if a rotated token was never forgiven?
BugRotatedLately(s) == FALSE

\* A rotated token may come from another tab that was a moment too late.
RotatedLately(s) == sessions[s].recent

\* The session is read; what follows depends on what it is at this moment.
BeginRefresh(h, s) ==
    /\ handlers[h] = Idle
    /\ ~RotatedLately(s)
    /\ \/ sessions[s].revoked # "no" /\ Goes(h, [Idle EXCEPT !.step = "reuse", !.session = s])
       \/ /\ sessions[s].revoked = "no" /\ sessions[s].expired
          /\ Goes(h, [Idle EXCEPT !.step = "expire", !.session = s])
       \/ /\ sessions[s].revoked = "no" /\ ~sessions[s].expired /\ account.active
          /\ Goes(h, [Idle EXCEPT !.step = "rotate", !.session = s])
    /\ UNCHANGED <<account, sessions, resets, spent>>

\* What if the transaction consumed the session without looking whether it was still live?
BugRotateUnchecked(h) ==
    LET s == handlers[h].session
    IN  /\ handlers[h].step = "rotate" /\ Len(sessions) < MaxSessions
        /\ sessions' = Append([sessions EXCEPT ![s] = RevokedAs(@, "ROTATED")], NewSession(sessions[s].family))
        /\ Ends(h)
        /\ UNCHANGED <<account, resets, spent>>

\* The transaction: the session is consumed and has its successor, or the refresh is refused.
Rotate(h) ==
    LET s == handlers[h].session
    IN  /\ handlers[h].step = "rotate"
        /\ \/ /\ sessions[s].revoked = "no" /\ Len(sessions) < MaxSessions
              /\ sessions' = Append([sessions EXCEPT ![s] = RevokedAs(@, "ROTATED")],
                                    NewSession(sessions[s].family))
           \/ sessions[s].revoked # "no" /\ UNCHANGED sessions
        /\ Ends(h)
        /\ UNCHANGED <<account, resets, spent>>

Expire(h) ==
    LET s == handlers[h].session
    IN  /\ handlers[h].step = "expire"
        /\ sessions' = IF s \in Live THEN [sessions EXCEPT ![s] = RevokedAs(@, "ENDED")] ELSE sessions
        /\ Ends(h)
        /\ UNCHANGED <<account, resets, spent>>

\* Reuse detected: the statement matches what is live of the family.
MatchFamily(h) ==
    /\ handlers[h].step = "reuse"
    /\ Goes(h, [Idle EXCEPT !.step = "revoke", !.reason = "REUSE_DETECTED",
                            !.rows = {s \in Live : sessions[s].family = sessions[handlers[h].session].family}])
    /\ UNCHANGED <<account, sessions, resets, spent>>

----------------------------------------------------------------------------
(* logout, logoutAll, changePassword                                       *)

Logout(s) ==
    /\ s \in Live
    /\ sessions' = [sessions EXCEPT ![s] = RevokedAs(@, "ENDED")]
    /\ UNCHANGED <<account, resets, handlers, spent>>

BeginLogoutAll(h) ==
    /\ handlers[h] = Idle /\ account.active
    /\ Goes(h, [Idle EXCEPT !.step = "all"])
    /\ UNCHANGED <<account, sessions, resets, spent>>

BeginChange(h, new) ==
    /\ handlers[h] = Idle /\ account.active
    /\ Goes(h, [Idle EXCEPT !.step = "all", !.password = new])
    /\ UNCHANGED <<account, sessions, resets, spent>>

\* A transaction that changes the password updates the user first; all live sessions are matched.
MatchAll(h) ==
    /\ handlers[h].step = "all"
    /\ handlers[h].password # NoPassword => ~AccountLocked(h)
    /\ Goes(h, [Idle EXCEPT !.step = "revoke", !.password = handlers[h].password, !.reason = "ENDED",
                            !.rows = Live])
    /\ UNCHANGED <<account, sessions, resets, spent>>

----------------------------------------------------------------------------
(* requestPasswordReset, resetPassword                                     *)

BeginRequest(h) ==
    /\ handlers[h] = Idle
    /\ Unused \cap TokensLocked(h) = {}
    /\ Goes(h, [Idle EXCEPT !.step = "request", !.tokens = Unused])
    /\ UNCHANGED <<account, sessions, resets, spent>>

UsedUp(tokens) ==
    [t \in DOMAIN resets |-> IF t \in tokens THEN [resets[t] EXCEPT !.used = TRUE] ELSE resets[t]]

CreateToken(h) ==
    /\ handlers[h].step = "request" /\ Len(resets) < MaxResets
    /\ resets' = Append(UsedUp(handlers[h].tokens), [used |-> FALSE, expired |-> FALSE])
    /\ Ends(h)
    /\ UNCHANGED <<account, sessions, spent>>

BeginReset(h, t, new) ==
    /\ handlers[h] = Idle
    /\ ~resets[t].used /\ ~resets[t].expired
    /\ Goes(h, [Idle EXCEPT !.step = "consume", !.token = t, !.password = new])
    /\ UNCHANGED <<account, sessions, resets, spent>>

\* What if the transaction did not look whether the token was still unused?
BugMatchForResetUnchecked(h) ==
    /\ handlers[h].step = "consume"
    /\ ~AccountLocked(h) /\ (Unused \cup {handlers[h].token}) \cap TokensLocked(h) = {}
    /\ Goes(h, [handlers[h] EXCEPT !.step = "revoke", !.reason = "ENDED", !.rows = Live,
                                   !.tokens = Unused \cup {handlers[h].token}])
    /\ UNCHANGED <<account, sessions, resets, spent>>

\* The transaction consumes the token, updates the user and matches the other tokens and the
\* sessions, or the reset is refused.
MatchForReset(h) ==
    /\ handlers[h].step = "consume"
    /\ \/ /\ handlers[h].token \in Unused
          /\ ~AccountLocked(h) /\ Unused \cap TokensLocked(h) = {}
          /\ Goes(h, [handlers[h] EXCEPT !.step = "revoke", !.reason = "ENDED", !.rows = Live,
                                         !.tokens = Unused])
       \/ handlers[h].token \notin Unused /\ Ends(h)
    /\ UNCHANGED <<account, sessions, resets, spent>>

----------------------------------------------------------------------------
(* What ends the requests that revoke sessions.                            *)

\* What if the statement did not check again what it had matched?
BugRevokedBy(h) ==
    [s \in DOMAIN sessions |->
        IF s \in handlers[h].rows THEN RevokedAs(sessions[s], handlers[h].reason) ELSE sessions[s]]

RevokedBy(h) ==
    [s \in DOMAIN sessions |->
        IF s \in handlers[h].rows \cap Live THEN RevokedAs(sessions[s], handlers[h].reason)
        ELSE sessions[s]]

\* The matched sessions are revoked and the transaction, if there is one, commits.
Revoke(h) ==
    LET r == handlers[h]
    IN  /\ r.step = "revoke"
        /\ sessions' = RevokedBy(h)
        /\ account' = IF r.password = NoPassword THEN account
                      ELSE [account EXCEPT !.password = r.password, !.legacy = FALSE]
        /\ resets' = UsedUp(r.tokens)
        /\ spent' = [t \in DOMAIN spent |-> spent[t] + IF t = r.token THEN 1 ELSE 0]
        /\ Ends(h)

----------------------------------------------------------------------------

\* UserService.deactivate: no session is revoked.
Deactivate ==
    /\ account.active /\ \A h \in Handlers : ~AccountLocked(h)
    /\ account' = [account EXCEPT !.active = FALSE]
    /\ UNCHANGED <<sessions, resets, handlers, spent>>

\* The handler dies, or the database ends its transaction (a deadlock, a lost connection).
Fail(h) ==
    /\ handlers[h] # Idle
    /\ Ends(h)
    /\ UNCHANGED <<account, sessions, resets, spent>>

\* Time passes: the grace period of a revoked session, the lifetime of a session or a token.
Ages(s) ==
    /\ sessions[s].recent
    /\ sessions' = [sessions EXCEPT ![s].recent = FALSE]
    /\ UNCHANGED <<account, resets, handlers, spent>>

Expires(s) ==
    /\ s \in Live /\ ~sessions[s].expired
    /\ sessions' = [sessions EXCEPT ![s].expired = TRUE]
    /\ UNCHANGED <<account, resets, handlers, spent>>

ResetExpires(t) ==
    /\ t \in Unused /\ ~resets[t].expired
    /\ resets' = [resets EXCEPT ![t].expired = TRUE]
    /\ UNCHANGED <<account, sessions, handlers, spent>>

Handle(h) ==
    \/ Rehash(h) \/ OpenSession(h) \/ Rotate(h) \/ Expire(h) \/ MatchFamily(h)
    \/ MatchAll(h) \/ CreateToken(h) \/ MatchForReset(h) \/ Revoke(h)

Next ==
    \/ \E h \in Handlers, s \in DOMAIN sessions : BeginRefresh(h, s)
    \/ \E h \in Handlers, new \in Passwords : BeginChange(h, new)
    \/ \E h \in Handlers, t \in DOMAIN resets, new \in Passwords : BeginReset(h, t, new)
    \/ \E h \in Handlers : BeginLogin(h) \/ BeginLogoutAll(h) \/ BeginRequest(h) \/ Handle(h) \/ Fail(h)
    \/ \E s \in DOMAIN sessions : Logout(s) \/ Ages(s) \/ Expires(s)
    \/ \E t \in DOMAIN resets : ResetExpires(t)
    \/ Deactivate

Spec == Init /\ [][Next]_vars

\* A request that has begun goes on.
FairSpec == Spec /\ \A h \in Handlers : WF_vars(Handle(h))

----------------------------------------------------------------------------
(* Properties.                                                             *)

\* The rows hold what their tables allow; a handler works on rows that exist.
TypeOK ==
    /\ account \in Accounts
    /\ sessions \in Seq(Sessions) /\ resets \in Seq(Resets)
    /\ handlers \in [Handlers -> Requests]
    /\ spent \in [1..MaxResets -> Nat]
    /\ \A s \in DOMAIN sessions : sessions[s].family \in 1..s
    /\ \A h \in Handlers :
          /\ handlers[h].step \in {"rotate", "expire", "reuse"} => handlers[h].session \in DOMAIN sessions
          /\ handlers[h].step = "consume" => handlers[h].token \in DOMAIN resets
          /\ handlers[h].step = "rehash" => handlers[h].password \in Passwords
          /\ handlers[h].rows \subseteq DOMAIN sessions /\ handlers[h].tokens \subseteq DOMAIN resets

\* "Every successful refresh atomically revokes the presented session and creates its successor in the
\* same family" (ADR-0012): whatever tabs present the same token at once, a family never forks.
FamiliesNeverFork ==
    \A s1, s2 \in Live : sessions[s1].family = sessions[s2].family => s1 = s2

\* A late statement never revives a session or rewrites why it ended.
RevokedStaysRevoked ==
    [][\A s \in DOMAIN sessions :
          sessions[s].revoked # "no" => sessions'[s].revoked = sessions[s].revoked]_vars

\* "Password reset MUST use a single-use ... token" (SRS AUTH-03): however many requests present a
\* token at once, it changes the password once.
TokensSpentOnce == \A t \in DOMAIN spent : spent[t] <= 1

\* A session of the family was over, and not for a moment only: its token should not come back.
Over(family) ==
    \E s \in DOMAIN sessions : /\ sessions[s].family = family
                               /\ sessions[s].revoked \notin {"no", "REUSE_DETECTED"}
                               /\ ~sessions[s].recent

\* A family is taken for stolen only when a token of it came back after the grace period or after
\* its session had ended otherwise: two tabs that refresh at once do not log their user out.
AlarmsAreTrue ==
    \A s \in DOMAIN sessions : sessions[s].revoked = "REUSE_DETECTED" => Over(sessions[s].family)

----------------------------------------------------------------------------
(* The inductive invariant of AuthSessions_proofs.                          *)

\* The token rows that handler h has updated, or is about to.
Holds(h) == IF handlers[h].step \in {"revoke", "request"} THEN handlers[h].tokens ELSE {}

\* What a handler is about to mark used is unused, the token it spends included; what it is about
\* to revoke as stolen is of a family that gave reason to.
RequestSound(h) ==
    /\ Holds(h) \subseteq Unused
    /\ handlers[h].step = "revoke" /\ handlers[h].token # 0 => handlers[h].token \in handlers[h].tokens
    /\ handlers[h].step = "reuse" => Over(sessions[handlers[h].session].family)
    /\ handlers[h].step = "revoke" /\ handlers[h].reason = "REUSE_DETECTED" =>
          \A s \in handlers[h].rows : Over(sessions[s].family)

\* No two transactions hold one token, and a spent token is used: so none is spent again.
SessionsInv ==
    /\ TypeOK
    /\ FamiliesNeverFork
    /\ AlarmsAreTrue
    /\ \A h \in Handlers : RequestSound(h)
    /\ \A h1, h2 \in Handlers : h1 # h2 => Holds(h1) \cap Holds(h2) = {}
    /\ \A t \in DOMAIN spent : spent[t] <= 1 /\ (spent[t] = 1 => t \in DOMAIN resets \ Unused)
=============================================================================
