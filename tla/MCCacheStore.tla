---------------------------- MODULE MCCacheStore ----------------------------
(***************************************************************************)
(* Small instances of module CacheStore.                                   *)
(***************************************************************************)
EXTENDS CacheStore

CONSTANTS k1, k2

Answer(nx, ttls) == [nxdomain |-> nx, ttls |-> ttls]

\* A negative answer, an empty one, and one with two records of which the
\* shorter counts.
MCAnswers == {Answer(TRUE, {1}), Answer(FALSE, {}), Answer(FALSE, {0, 3})}

\* Records of one TTL.
MCShort == {Answer(FALSE, {1})}
=============================================================================
