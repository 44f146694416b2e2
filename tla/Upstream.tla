------------------------------ MODULE Upstream ------------------------------
(***************************************************************************)
(* Upstream::resolve of upstream.rs: a query is forwarded to the upstream  *)
(* servers, in order, under a concurrency cap (a tokio semaphore) and a    *)
(* rate limit (governor's token bucket).  A caller is a task of the query  *)
(* pipeline that runs resolve(); what calls it and what becomes of the     *)
(* answer is module Pipeline's business.                                   *)
(*                                                                         *)
(* Every attempt opens a fresh socket, so a late answer to one attempt     *)
(* never reaches another one: an attempt sees one reply, chosen freely, or *)
(* an error.  Time only appears as the refill of the bucket: module        *)
(* UpstreamRate adds the clock and counts.                                 *)
(***************************************************************************)
EXTENDS Integers, Sequences, FiniteSets

CONSTANTS Callers,         \* tasks that may run resolve()
          Servers,         \* upstream addresses
          ServerLists,     \* the lists an operator may configure
          Ids,             \* DNS transaction ids
          Questions,       \* (name, type, class) triples
          None,            \* "no value"
          max_concurrent,  \* upstream.max_concurrent of config.toml
          max_qps          \* upstream.max_qps of config.toml

ASSUME UpstreamAssumption ==
    /\ ServerLists \subseteq Seq(Servers)
    /\ IsFiniteSet(Callers)
    /\ max_concurrent \in Nat
    /\ max_qps \in Nat

\* cfg.max_concurrent.max(1) and cfg.max_qps.max(1): zero is not "no traffic".
AtLeastOne(n) == IF n = 0 THEN 1 ELSE n

Permits == AtLeastOne(max_concurrent)
Quota   == AtLeastOne(max_qps)

\* What travels to and from a server.  An unparseable packet is one that no
\* check of ValidResponse accepts, as is a message without a question.
Query   == [id : Ids, question : Questions]
Message == [response : BOOLEAN, id : Ids, question : Questions]

VARIABLES servers,  \* Upstream.servers (ArcSwap)
          permits,  \* free permits of Upstream.semaphore
          tokens,   \* cells the rate limiter can hand out now
          upc,      \* where each caller is inside resolve()
          query,    \* the query each caller forwards
          rest,     \* the servers of its snapshot a caller has not given up on
          wire      \* the reply a successful call returns

vars == <<servers, permits, tokens, upc, query, rest, wire>>

\* "dial": bind, connect, send; "udp": recv; "tcp": connect and write;
\* "tcpread": read the reply.
Holding == {"limit", "dial", "udp", "tcp", "tcpread"}
Points  == {"idle", "sem", "ok", "err"} \cup Holding

TypeOK ==
    /\ servers \in Seq(Servers)
    /\ permits \in 0 .. Permits
    /\ tokens \in 0 .. Quota
    /\ upc \in [Callers -> Points]
    /\ query \in [Callers -> Query \cup {None}]
    /\ rest \in [Callers -> Seq(Servers)]
    /\ wire \in [Callers -> Message \cup {None}]

\* A configured address that does not parse is skipped at startup, so the
\* process may also start with no server at all.
Init ==
    /\ servers \in ServerLists \cup {<<>>}
    /\ permits = Permits
    /\ tokens = Quota
    /\ upc = [c \in Callers |-> "idle"]
    /\ query = [c \in Callers |-> None]
    /\ rest = [c \in Callers |-> <<>>]
    /\ wire = [c \in Callers |-> None]

-----------------------------------------------------------------------------
\* Mutant of ValidResponse: the question is not compared.
IgnoreQuestion(q, m) ==
    /\ m.response
    /\ m.id = q.id

\* valid_response: a response, to our transaction, about our question.
ValidResponse(q, m) ==
    /\ m.response
    /\ m.id = q.id
    /\ m.question = q.question

-----------------------------------------------------------------------------
\* resolve() is called and queues for a permit.
Resolve(c, q) ==
    /\ upc[c] = "idle"
    /\ upc' = [upc EXCEPT ![c] = "sem"]
    /\ query' = [query EXCEPT ![c] = q]
    /\ UNCHANGED <<servers, permits, tokens, rest, wire>>

Acquire(c) ==
    /\ upc[c] = "sem"
    /\ permits > 0
    /\ permits' = permits - 1
    /\ upc' = [upc EXCEPT ![c] = "limit"]
    /\ UNCHANGED <<servers, tokens, query, rest, wire>>

\* Mutant of UntilReady: the early error return forgets the permit.
UntilReadyKeepsPermit(c) ==
    /\ upc[c] = "limit"
    /\ tokens > 0
    /\ tokens' = tokens - 1
    /\ \/ servers = <<>> /\ upc' = [upc EXCEPT ![c] = "err"] /\ UNCHANGED rest
       \/ /\ servers # <<>>
          /\ upc' = [upc EXCEPT ![c] = "dial"]
          /\ rest' = [rest EXCEPT ![c] = servers]
    /\ UNCHANGED <<servers, permits, query, wire>>

\* Mutant of UntilReady: the future of until_ready() is never awaited.
UntilReadyNotAwaited(c) ==
    /\ upc[c] = "limit"
    /\ \/ /\ servers = <<>>
          /\ upc' = [upc EXCEPT ![c] = "err"]
          /\ permits' = permits + 1
          /\ UNCHANGED rest
       \/ /\ servers # <<>>
          /\ upc' = [upc EXCEPT ![c] = "dial"]
          /\ rest' = [rest EXCEPT ![c] = servers]
          /\ UNCHANGED permits
    /\ UNCHANGED <<servers, tokens, query, wire>>

\* until_ready() returns and the server list is loaded.  An empty list is an
\* immediate error, and returning drops the permit.
UntilReady(c) ==
    /\ upc[c] = "limit"
    /\ tokens > 0
    /\ tokens' = tokens - 1
    /\ \/ /\ servers = <<>>
          /\ upc' = [upc EXCEPT ![c] = "err"]
          /\ permits' = permits + 1
          /\ UNCHANGED rest
       \/ /\ servers # <<>>
          /\ upc' = [upc EXCEPT ![c] = "dial"]
          /\ rest' = [rest EXCEPT ![c] = servers]
          /\ UNCHANGED permits
    /\ UNCHANGED <<servers, query, wire>>

\* query_udp puts the query on the wire.
SendUdp(c) ==
    /\ upc[c] = "dial"
    /\ upc' = [upc EXCEPT ![c] = "udp"]
    /\ UNCHANGED <<servers, permits, tokens, query, rest, wire>>

\* The UDP reply has the TC bit set: query_tcp asks the same server again.
Truncated(c) ==
    /\ upc[c] = "udp"
    /\ upc' = [upc EXCEPT ![c] = "tcp"]
    /\ UNCHANGED <<servers, permits, tokens, query, rest, wire>>

SendTcp(c) ==
    /\ upc[c] = "tcp"
    /\ upc' = [upc EXCEPT ![c] = "tcpread"]
    /\ UNCHANGED <<servers, permits, tokens, query, rest, wire>>

\* A reply that passes valid_response ends the call.
Accept(c, m) ==
    /\ upc[c] \in {"udp", "tcpread"}
    /\ ValidResponse(query[c], m)
    /\ upc' = [upc EXCEPT ![c] = "ok"]
    /\ permits' = permits + 1
    /\ rest' = [rest EXCEPT ![c] = <<>>]
    /\ wire' = [wire EXCEPT ![c] = m]
    /\ UNCHANGED <<servers, tokens, query>>

\* Mutant of GiveUp: the permit is dropped before the next server is tried.
GiveUpReleasesEarly(c) ==
    /\ upc[c] \in {"dial", "udp", "tcp", "tcpread"}
    /\ rest' = [rest EXCEPT ![c] = Tail(@)]
    /\ permits' = permits + 1
    /\ upc' = [upc EXCEPT ![c] = IF Len(rest[c]) > 1 THEN "dial" ELSE "err"]
    /\ UNCHANGED <<servers, tokens, query, wire>>

\* Mutant of GiveUp: the first server of the list is tried again and again.
GiveUpRetriesFirst(c) ==
    /\ upc[c] \in {"dial", "udp", "tcp", "tcpread"}
    /\ upc' = [upc EXCEPT ![c] = "dial"]
    /\ UNCHANGED <<servers, permits, tokens, query, rest, wire>>

\* Mutant of GiveUp: the second attempt looks its server up in the list as it
\* is now.
GiveUpReloads(c) ==
    /\ upc[c] \in {"dial", "udp", "tcp", "tcpread"}
    /\ rest' = [rest EXCEPT ![c] = IF Len(@) > 1 THEN SubSeq(servers, 2, Len(servers))
                                               ELSE <<>>]
    /\ \/ /\ rest'[c] # <<>>
          /\ upc' = [upc EXCEPT ![c] = "dial"]
          /\ UNCHANGED permits
       \/ /\ rest'[c] = <<>>
          /\ upc' = [upc EXCEPT ![c] = "err"]
          /\ permits' = permits + 1
    /\ UNCHANGED <<servers, tokens, query, wire>>

\* A socket error, a timeout or a reply that does not match: the next server
\* of the snapshot is tried, and after the last one the call fails.
GiveUp(c) ==
    /\ upc[c] \in {"dial", "udp", "tcp", "tcpread"}
    /\ rest' = [rest EXCEPT ![c] = Tail(@)]
    /\ \/ /\ Len(rest[c]) > 1
          /\ upc' = [upc EXCEPT ![c] = "dial"]
          /\ UNCHANGED permits
       \/ /\ Len(rest[c]) = 1
          /\ upc' = [upc EXCEPT ![c] = "err"]
          /\ permits' = permits + 1
    /\ UNCHANGED <<servers, tokens, query, wire>>

\* The caller takes the result.
Return(c) ==
    /\ upc[c] \in {"ok", "err"}
    /\ upc' = [upc EXCEPT ![c] = "idle"]
    /\ query' = [query EXCEPT ![c] = None]
    /\ wire' = [wire EXCEPT ![c] = None]
    /\ UNCHANGED <<servers, permits, tokens, rest>>

\* set_servers: the web UI swaps the list under the callers' feet.
SetServers(list) ==
    /\ servers' = list
    /\ UNCHANGED <<permits, tokens, upc, query, rest, wire>>

\* Quota::per_second(Quota): one cell every 1/Quota second, a burst of Quota.
Replenish ==
    /\ tokens < Quota
    /\ tokens' = tokens + 1
    /\ UNCHANGED <<servers, permits, upc, query, rest, wire>>

\* The steps resolve() takes on its own.
Progress(c) ==
    \/ Acquire(c)
    \/ UntilReady(c)
    \/ SendUdp(c)
    \/ Truncated(c)
    \/ SendTcp(c)
    \/ \E m \in Message : Accept(c, m)
    \/ GiveUp(c)

Next ==
    \/ \E c \in Callers :
          \/ \E q \in Query : Resolve(c, q)
          \/ Progress(c)
          \/ Return(c)
    \/ \E list \in ServerLists : SetServers(list)
    \/ Replenish

Spec == Init /\ [][Next]_vars

-----------------------------------------------------------------------------
\* Every permit of the semaphore is either free or held by a caller between
\* its acquire and its return, whichever of resolve()'s returns it takes: an
\* error path that leaks a permit ends in a resolver that forwards nothing.
PermitsConserved ==
    permits + Cardinality({c \in Callers : upc[c] \in Holding}) = Permits

=============================================================================
