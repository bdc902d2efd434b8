--------------------------- MODULE MCAuthSessions ---------------------------
(***************************************************************************)
(* AuthSessions with two requests at a time.                               *)
(***************************************************************************)
EXTENDS AuthSessions, TLC

Symmetry == Permutations(Handlers)
=============================================================================
