---------------------------- MODULE MCEmailOutbox ----------------------------
(***************************************************************************)
(* EmailOutbox with an old and a new API process while one replaces the    *)
(* other.  Liveness is checked too, so the processes are not declared      *)
(* symmetric although they are.                                            *)
(***************************************************************************)
EXTENDS EmailOutbox
=============================================================================
