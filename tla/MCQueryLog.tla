----------------------------- MODULE MCQueryLog -----------------------------
(***************************************************************************)
(* Small instances of module QueryLog.                                     *)
(***************************************************************************)
EXTENDS QueryLog
=============================================================================
