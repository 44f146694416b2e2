----------------------------- MODULE MCUpstream -----------------------------
(***************************************************************************)
(* Small instances of UpstreamRate.                                        *)
(***************************************************************************)
EXTENDS UpstreamRate, TLC

CONSTANTS c1, c2, c3, s1, s2, example

\* A list of one server, and one in which that server is the failover.
MCServerLists == {<<s1>>, <<s2, s1>>}

\* A caller's identity does not matter to resolve().
Symmetry == Permutations(Callers)
=============================================================================
