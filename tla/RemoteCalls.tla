---------------------------- MODULE RemoteCalls ----------------------------
(***************************************************************************)
(* What utils/api.ts promises a page about api.get, post, put, patch and   *)
(* delete: a call is applied by the server at most once, it resolves only  *)
(* when it has been applied, and it is reported as an expired session only *)
(* when it has not been and will not be.  A call that fails in another way *)
(* may have been applied, or be applied later: a page cannot tell.         *)
(***************************************************************************)
EXTENDS Naturals

CONSTANT Calls

VARIABLE remote    \* remote[c]: the state of call c and how often the server has applied it

Init == remote = [c \in Calls |-> [state |-> "idle", applied |-> 0]]

Becomes(c, state) == remote' = [remote EXCEPT ![c].state = state]

Start(c) == remote[c].state = "idle" /\ Becomes(c, "open")

Apply(c) ==
    /\ remote[c].state \in {"open", "failed"} /\ remote[c].applied = 0
    /\ remote' = [remote EXCEPT ![c].applied = 1]

Resolve(c) == remote[c].state = "open" /\ remote[c].applied = 1 /\ Becomes(c, "ok")

Fail(c) == remote[c].state = "open" /\ Becomes(c, "failed")

\* When a session ends, every call that was waiting for it ends.
Expire ==
    \E expired, dropped \in SUBSET Calls :
        /\ \A c \in expired : remote[c].applied = 0
        /\ \A c \in expired \cup dropped : remote[c].state = "open"
        /\ remote' = [c \in Calls |->
                         IF c \in expired THEN [remote[c] EXCEPT !.state = "expired"]
                         ELSE IF c \in dropped THEN [remote[c] EXCEPT !.state = "failed"]
                         ELSE remote[c]]

Next ==
    \/ \E c \in Calls : Start(c) \/ Apply(c) \/ Resolve(c) \/ Fail(c)
    \/ Expire

Spec == Init /\ [][Next]_remote
=============================================================================
