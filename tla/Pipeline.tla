------------------------------ MODULE Pipeline ------------------------------
(***************************************************************************)
(* The query pipeline of dns.rs: the UDP workers and the TCP connections   *)
(* admit packets under the in-flight cap, handle() takes each one through  *)
(* parse, blocklist, cache and forward, and the reply goes back.  Misses   *)
(* for one key share a single upstream call (moka's try_get_with), which   *)
(* module Upstream models step by step.  Meanwhile the admin API swaps the *)
(* blocklist, the sinkhole mode and the upstream servers.                  *)
(*                                                                         *)
(* A task is one spawned UDP handler or one TCP connection.  The persist   *)
(* and query-log channels appear as their lengths; what happens to their   *)
(* contents is the business of the writers behind them.                    *)
(***************************************************************************)
EXTENDS Integers, Sequences, FiniteSets

CONSTANTS UdpTasks, Conns,         \* handlers of packets, TCP connections
          Requests,                \* the well-formed queries clients send
          Malformed,               \* a packet that has no parseable question
          Blocklists,              \* sets of names an operator may block
          Servers, ServerLists, Ids, Questions, None,
          max_concurrent, max_qps, max_inflight,
          PERSIST_CHANNEL_CAP, LOG_CHANNEL_CAP,
          UpstreamError,           \* the error resolve() returns
          MaxArrivals,             \* bound: packets received in a behaviour
          MaxEdits                 \* bound: admin requests in a behaviour

Tasks == UdpTasks \cup Conns

VARIABLES servers, permits, tokens, upc, query, rest, wire,  \* Upstream
          inflight,   \* free permits of AppState.inflight
          pc,         \* where each task is
          req,        \* the packet a task handles
          cfg,        \* the sinkhole mode in the snapshot handle() loaded
          outcome,    \* what try_get_with returned: an error or a message
          reply,      \* the response handle() returned
          flight,     \* the task that runs the init future of a key
          cache,      \* AppState.cache
          stats,      \* the counters of Stats
          persist,    \* messages in the persist channel
          log,        \* records in the query-log channel
          blocklist,  \* names AppState.blocklist blocks
          mode,       \* dns.sinkhole_mode of AppState.config
          edit,       \* the mode a running set_config has yet to store
          arrivals,   \* packets received so far
          edits,      \* admin requests served so far
          seen        \* history: <<blocked?, mode>> in force since admission

upvars == <<servers, permits, tokens, upc, query, rest, wire>>
taskvars == <<pc, req, cfg, outcome, reply, seen>>
chans == <<persist, log>>
admin == <<blocklist, mode, edit, edits>>
vars == <<upvars, taskvars, inflight, flight, cache, stats, chans, admin, arrivals>>

Up == INSTANCE Upstream WITH Callers <- Tasks

\* cfg.dns.max_inflight.max(1)
Inflight == IF max_inflight = 0 THEN 1 ELSE max_inflight

\* The key of the cache: the lower-cased name and the type, not the class.
CacheKey(q) == [name |-> q.name, rtype |-> q.rtype]
Keys == {CacheKey(q) : q \in Questions}
Key(t) == CacheKey(req[t].question)

Names == {q.name : q \in Questions}
Modes == {"zero_ip", "nxdomain"}
Kinds == {"nxdomain", "address", "empty", "servfail", "answer"}
Reply == [kind : Kinds, id : Ids, question : Questions]
Counters == {"queries", "blocked", "cache_hits", "forwarded", "upstream_errors",
             "dropped"}

ASSUME PipelineAssumption ==
    /\ UdpTasks \cap Conns = {}
    /\ IsFiniteSet(UdpTasks) /\ IsFiniteSet(Conns)
    /\ Requests \subseteq [id : Ids, question : Questions]
    /\ Malformed \notin Requests
    /\ None \notin Tasks /\ None \notin Requests /\ None \notin Reply
    /\ ServerLists \subseteq Seq(Servers)
    /\ max_concurrent \in Nat
    /\ max_qps \in Nat
    /\ max_inflight \in Nat
    /\ PERSIST_CHANNEL_CAP \in Nat
    /\ LOG_CHANNEL_CAP \in Nat
    /\ MaxArrivals \in Nat
    /\ MaxEdits \in Nat

\* "parse" .. "woken" are inside handle(); "read" is an open connection that
\* waits for a message, "send" a reply on its way out.
Counted  == {"check", "lookup", "join", "lead", "wait", "woken"}
Handling == {"parse"} \cup Counted
Points   == {"idle", "read", "send"} \cup Handling

\* A UDP handler keeps its permit until the reply is sent, a connection drops
\* it as soon as handle() returns.
Occupies(t) == pc[t] \in Handling \/ (t \in UdpTasks /\ pc[t] = "send")

TypeOK ==
    /\ Up!TypeOK
    /\ inflight \in 0 .. Inflight
    /\ pc \in [Tasks -> Points]
    /\ req \in [Tasks -> Requests \cup {Malformed, None}]
    /\ cfg \in [Tasks -> Modes \cup {None}]
    /\ outcome \in [Tasks -> Up!Message \cup {UpstreamError, None}]
    /\ reply \in [Tasks -> Reply \cup {None}]
    /\ flight \in [Keys -> Tasks \cup {None}]
    /\ cache \in [Keys -> Up!Message \cup {None}]
    /\ stats \in [Counters -> Nat]
    /\ persist \in 0 .. PERSIST_CHANNEL_CAP
    /\ log \in 0 .. LOG_CHANNEL_CAP
    /\ blocklist \in Blocklists
    /\ mode \in Modes
    /\ edit \in Modes \cup {None}
    /\ arrivals \in 0 .. MaxArrivals
    /\ edits \in 0 .. MaxEdits
    /\ seen \in [Tasks -> SUBSET (BOOLEAN \X Modes)]

\* The cache may be warm: rows of an earlier process, each under its own key.
Init ==
    /\ Up!Init
    /\ inflight = Inflight
    /\ pc = [t \in Tasks |-> "idle"]
    /\ req = [t \in Tasks |-> None]
    /\ cfg = [t \in Tasks |-> None]
    /\ outcome = [t \in Tasks |-> None]
    /\ reply = [t \in Tasks |-> None]
    /\ flight = [k \in Keys |-> None]
    /\ \/ cache = [k \in Keys |-> None]
       \/ \E r \in Requests :
             cache = [k \in Keys |-> IF k = CacheKey(r.question)
                                       THEN [response |-> TRUE, id |-> r.id,
                                             question |-> r.question]
                                       ELSE None]
    /\ stats = [n \in Counters |-> 0]
    /\ persist = 0
    /\ log = 0
    /\ blocklist \in Blocklists
    /\ mode \in Modes
    /\ edit = None
    /\ arrivals = 0
    /\ edits = 0
    /\ seen = [t \in Tasks |-> {}]

-----------------------------------------------------------------------------
\* Helpers.

Bump(n) == stats' = [stats EXCEPT ![n] = @ + 1]

IsBlocked(q) == q.name \in blocklist

\* What is in force for a packet right now.
InForce(r) ==
    IF r = Malformed THEN {} ELSE {<<IsBlocked(r.question), mode>>}

\* Mutant of TrySend: an unbounded channel.
SendUnbounded(len, cap) == len + 1

\* try_send: a full channel refuses the message, and nobody is told.
TrySend(len, cap) == IF len < cap THEN len + 1 ELSE len

\* build_blocked: the sinkhole answer for a type under a mode.
BuildBlocked(m, rtype) ==
    IF m = "nxdomain" THEN "nxdomain"
    ELSE IF rtype \in {"A", "AAAA"} THEN "address" ELSE "empty"

\* Mutant of PatchId: the cached transaction id is sent back as it is.
NoPatch(w, id) == [kind |-> "answer", id |-> w.id, question |-> w.question]

\* patch_id: a stored wire message under this client's transaction id.
PatchId(w, id) == [kind |-> "answer", id |-> id, question |-> w.question]

\* base_response: the question is echoed from the request itself.
Own(t, kind) == [kind |-> kind, id |-> req[t].id, question |-> req[t].question]

\* handle() returns: one counter is bumped, a log record is offered to the
\* query log, and a connection gives its permit back.  Without a query log
\* (state.qlog is None) the record goes nowhere, as with a channel of size 0.
Finish(t, counter, r) ==
    /\ Bump(counter)
    /\ log' = TrySend(log, LOG_CHANNEL_CAP)
    /\ reply' = [reply EXCEPT ![t] = r]
    /\ pc' = [pc EXCEPT ![t] = "send"]
    /\ inflight' = IF t \in Conns THEN inflight + 1 ELSE inflight
    /\ outcome' = [outcome EXCEPT ![t] = None]

-----------------------------------------------------------------------------
\* Listeners.

Admit(t, p) ==
    /\ inflight > 0
    /\ inflight' = inflight - 1
    /\ pc' = [pc EXCEPT ![t] = "parse"]
    /\ req' = [req EXCEPT ![t] = p]
    /\ seen' = [seen EXCEPT ![t] = InForce(p)]
    /\ arrivals' = arrivals + 1
    /\ UNCHANGED <<upvars, cfg, outcome, reply, flight, cache, stats, chans, admin>>

\* udp_worker: recv_from, a permit, spawn.
UdpRecv(t, p) == t \in UdpTasks /\ pc[t] = "idle" /\ Admit(t, p)

\* udp_worker: the pool is full, the packet is dropped.
UdpDrop ==
    /\ inflight = 0
    /\ arrivals' = arrivals + 1
    /\ Bump("dropped")
    /\ UNCHANGED <<upvars, taskvars, inflight, flight, cache, chans, admin>>

\* spawn_tcp accepts a connection.
TcpAccept(t) ==
    /\ t \in Conns
    /\ pc[t] = "idle"
    /\ pc' = [pc EXCEPT ![t] = "read"]
    /\ UNCHANGED <<upvars, req, cfg, outcome, reply, seen, inflight, flight, cache,
                   stats, chans, admin, arrivals>>

TcpRecv(t, p) == t \in Conns /\ pc[t] = "read" /\ Admit(t, p)

\* tcp_conn: the pool is full, the connection is closed.
TcpDrop(t) ==
    /\ t \in Conns
    /\ pc[t] = "read"
    /\ inflight = 0
    /\ arrivals' = arrivals + 1
    /\ Bump("dropped")
    /\ pc' = [pc EXCEPT ![t] = "idle"]
    /\ UNCHANGED <<upvars, req, cfg, outcome, reply, seen, inflight, flight, cache,
                   chans, admin>>

\* tcp_conn: the peer closes, or stalls for TCP_TIMEOUT.
TcpClose(t) ==
    /\ t \in Conns
    /\ pc[t] = "read"
    /\ pc' = [pc EXCEPT ![t] = "idle"]
    /\ UNCHANGED <<upvars, req, cfg, outcome, reply, seen, inflight, flight, cache,
                   stats, chans, admin, arrivals>>

Forget(t) ==
    /\ req' = [req EXCEPT ![t] = None]
    /\ cfg' = [cfg EXCEPT ![t] = None]
    /\ reply' = [reply EXCEPT ![t] = None]
    /\ seen' = [seen EXCEPT ![t] = {}]

\* send_to, whose result is ignored; the task ends and drops its permit.
UdpSend(t) ==
    /\ t \in UdpTasks
    /\ pc[t] = "send"
    /\ pc' = [pc EXCEPT ![t] = "idle"]
    /\ inflight' = inflight + 1
    /\ Forget(t)
    /\ UNCHANGED <<upvars, outcome, flight, cache, stats, chans, admin, arrivals>>

\* The reply is written and the next message awaited, or the write fails or
\* takes TCP_TIMEOUT and the connection is closed.
TcpSend(t) ==
    /\ t \in Conns
    /\ pc[t] = "send"
    /\ \E next \in {"read", "idle"} : pc' = [pc EXCEPT ![t] = next]
    /\ Forget(t)
    /\ UNCHANGED <<upvars, outcome, inflight, flight, cache, stats, chans, admin,
                   arrivals>>

-----------------------------------------------------------------------------
\* handle().

\* Mutant of Reject: the early return keeps the permit.
RejectLeaks(t) ==
    /\ pc[t] = "parse"
    /\ req[t] = Malformed
    /\ pc' = [pc EXCEPT ![t] = IF t \in Conns THEN "read" ELSE "idle"]
    /\ Forget(t)
    /\ UNCHANGED <<upvars, outcome, inflight, flight, cache, stats, chans, admin,
                   arrivals>>

\* from_vec and queries.first() fail: no reply.  The permit comes back and a
\* connection reads on.
Reject(t) ==
    /\ pc[t] = "parse"
    /\ req[t] = Malformed
    /\ pc' = [pc EXCEPT ![t] = IF t \in Conns THEN "read" ELSE "idle"]
    /\ inflight' = inflight + 1
    /\ Forget(t)
    /\ UNCHANGED <<upvars, outcome, flight, cache, stats, chans, admin, arrivals>>

\* Mutant of Parse: the cache is asked before the blocklist.
ParseSkipsBlocklist(t) ==
    /\ pc[t] = "parse"
    /\ req[t] # Malformed
    /\ Bump("queries")
    /\ cfg' = [cfg EXCEPT ![t] = mode]
    /\ pc' = [pc EXCEPT ![t] = "lookup"]
    /\ UNCHANGED <<upvars, req, outcome, reply, seen, inflight, flight, cache, chans,
                   admin, arrivals>>

Parse(t) ==
    /\ pc[t] = "parse"
    /\ req[t] # Malformed
    /\ Bump("queries")
    /\ cfg' = [cfg EXCEPT ![t] = mode]
    /\ pc' = [pc EXCEPT ![t] = "check"]
    /\ UNCHANGED <<upvars, req, outcome, reply, seen, inflight, flight, cache, chans,
                   admin, arrivals>>

\* blocklist.load().is_blocked(name) says yes.
Blocked(t) ==
    /\ pc[t] = "check"
    /\ IsBlocked(req[t].question)
    /\ Finish(t, "blocked", Own(t, BuildBlocked(cfg[t], req[t].question.rtype)))
    /\ UNCHANGED <<upvars, req, cfg, seen, flight, cache, persist, admin, arrivals>>

Allowed(t) ==
    /\ pc[t] = "check"
    /\ ~IsBlocked(req[t].question)
    /\ pc' = [pc EXCEPT ![t] = "lookup"]
    /\ UNCHANGED <<upvars, req, cfg, outcome, reply, seen, inflight, flight, cache,
                   stats, chans, admin, arrivals>>

\* cache.get
Hit(t) ==
    /\ pc[t] = "lookup"
    /\ cache[Key(t)] # None
    /\ Finish(t, "cache_hits", PatchId(cache[Key(t)], req[t].id))
    /\ UNCHANGED <<upvars, req, cfg, seen, flight, cache, persist, admin, arrivals>>

Miss(t) ==
    /\ pc[t] = "lookup"
    /\ cache[Key(t)] = None
    /\ pc' = [pc EXCEPT ![t] = "join"]
    /\ UNCHANGED <<upvars, req, cfg, outcome, reply, seen, inflight, flight, cache,
                   stats, chans, admin, arrivals>>

\* try_get_with finds a value that arrived since the miss.
JoinLate(t) ==
    /\ pc[t] = "join"
    /\ cache[Key(t)] # None
    /\ outcome' = [outcome EXCEPT ![t] = cache[Key(t)]]
    /\ pc' = [pc EXCEPT ![t] = "woken"]
    /\ UNCHANGED <<upvars, req, cfg, reply, seen, inflight, flight, cache, stats,
                   chans, admin, arrivals>>

\* Mutant of Lead: every miss starts an upstream call of its own.
LeadAlways(t) ==
    /\ pc[t] = "join"
    /\ cache[Key(t)] = None
    /\ Up!Resolve(t, req[t])
    /\ flight' = [flight EXCEPT ![Key(t)] = t]
    /\ pc' = [pc EXCEPT ![t] = "lead"]
    /\ UNCHANGED <<req, cfg, outcome, reply, seen, inflight, cache, stats, chans,
                   admin, arrivals>>

\* try_get_with runs the init future: this task's own packet is forwarded.
Lead(t) ==
    /\ pc[t] = "join"
    /\ cache[Key(t)] = None
    /\ flight[Key(t)] = None
    /\ Up!Resolve(t, req[t])
    /\ flight' = [flight EXCEPT ![Key(t)] = t]
    /\ pc' = [pc EXCEPT ![t] = "lead"]
    /\ UNCHANGED <<req, cfg, outcome, reply, seen, inflight, cache, stats, chans,
                   admin, arrivals>>

\* Another task already runs the init future of the key.
Follow(t) ==
    /\ pc[t] = "join"
    /\ cache[Key(t)] = None
    /\ flight[Key(t)] # None
    /\ pc' = [pc EXCEPT ![t] = "wait"]
    /\ UNCHANGED <<upvars, req, cfg, outcome, reply, seen, inflight, flight, cache,
                   stats, chans, admin, arrivals>>

\* A step of resolve().
Forward(t) ==
    /\ pc[t] = "lead"
    /\ Up!Progress(t)
    /\ UNCHANGED <<taskvars, inflight, flight, cache, stats, chans, admin, arrivals>>

\* The leader and the followers of its key get the same result.
Sharing(t) ==
    {t} \cup {u \in Tasks : pc[u] = "wait" /\ Key(u) = Key(t)}

Settle(t, result) ==
    /\ outcome' = [u \in Tasks |-> IF u \in Sharing(t) THEN result ELSE outcome[u]]
    /\ pc' = [u \in Tasks |-> IF u \in Sharing(t) THEN "woken" ELSE pc[u]]
    /\ flight' = [flight EXCEPT ![Key(t)] = None]

\* resolve() succeeded: the entry is offered to the persister and cached.
Complete(t) ==
    /\ pc[t] = "lead"
    /\ upc[t] = "ok"
    /\ Settle(t, wire[t])
    /\ cache' = [cache EXCEPT ![Key(t)] = wire[t]]
    /\ persist' = TrySend(persist, PERSIST_CHANNEL_CAP)
    /\ Up!Return(t)
    /\ UNCHANGED <<req, cfg, reply, seen, inflight, stats, log, admin, arrivals>>

\* Mutant of Fail: only the leader learns of the error.
FailLeaderOnly(t) ==
    /\ pc[t] = "lead"
    /\ upc[t] = "err"
    /\ outcome' = [outcome EXCEPT ![t] = UpstreamError]
    /\ pc' = [pc EXCEPT ![t] = "woken"]
    /\ flight' = [flight EXCEPT ![Key(t)] = None]
    /\ Up!Return(t)
    /\ UNCHANGED <<req, cfg, reply, seen, inflight, cache, stats, chans, admin,
                   arrivals>>

\* resolve() failed: nothing is cached.
Fail(t) ==
    /\ pc[t] = "lead"
    /\ upc[t] = "err"
    /\ Settle(t, UpstreamError)
    /\ Up!Return(t)
    /\ UNCHANGED <<req, cfg, reply, seen, inflight, cache, stats, chans, admin,
                   arrivals>>

\* Mutant of Wake: an error is answered but not counted.
WakeUncounted(t) ==
    /\ pc[t] = "woken"
    /\ \/ /\ outcome[t] = UpstreamError
          /\ reply' = [reply EXCEPT ![t] = Own(t, "servfail")]
          /\ pc' = [pc EXCEPT ![t] = "send"]
          /\ inflight' = IF t \in Conns THEN inflight + 1 ELSE inflight
          /\ outcome' = [outcome EXCEPT ![t] = None]
          /\ UNCHANGED <<stats, log>>
       \/ /\ outcome[t] # UpstreamError
          /\ Finish(t, "forwarded", PatchId(outcome[t], req[t].id))
    /\ UNCHANGED <<upvars, req, cfg, seen, flight, cache, persist, admin, arrivals>>

\* try_get_with returned.
Wake(t) ==
    /\ pc[t] = "woken"
    /\ \/ /\ outcome[t] = UpstreamError
          /\ Finish(t, "upstream_errors", Own(t, "servfail"))
       \/ /\ outcome[t] # UpstreamError
          /\ Finish(t, "forwarded", PatchId(outcome[t], req[t].id))
    /\ UNCHANGED <<upvars, req, cfg, seen, flight, cache, persist, admin, arrivals>>

-----------------------------------------------------------------------------
\* The rest of the process.

\* An entry outlives its TTL or is evicted.
Expire(k) ==
    /\ cache[k] # None
    /\ cache' = [cache EXCEPT ![k] = None]
    /\ UNCHANGED <<upvars, taskvars, inflight, flight, stats, chans, admin, arrivals>>

\* The writers behind the channels take a message: all that handle() can see of
\* them.  Modules CacheStore and QueryLog have the writers themselves.
Drain ==
    /\ \/ persist > 0 /\ persist' = persist - 1 /\ UNCHANGED log
       \/ log > 0 /\ log' = log - 1 /\ UNCHANGED persist
    /\ UNCHANGED <<upvars, taskvars, inflight, flight, cache, stats, admin, arrivals>>

Refill ==
    /\ Up!Replenish
    /\ UNCHANGED <<taskvars, inflight, flight, cache, stats, chans, admin, arrivals>>

\* What an admin's step leaves in force is seen by every packet being handled.
Witness ==
    seen' = [t \in Tasks |->
                IF pc[t] \in Handling /\ req[t] # Malformed
                  THEN seen[t] \cup {<<req[t].question.name \in blocklist', mode'>>}
                  ELSE seen[t]]

\* set_blocklist: the new list takes effect.
SetBlocklist(names) ==
    /\ edits < MaxEdits
    /\ edits' = edits + 1
    /\ blocklist' = names
    /\ UNCHANGED <<mode, edit>>
    /\ Witness
    /\ UNCHANGED <<upvars, pc, req, cfg, outcome, reply, inflight, flight, cache,
                   stats, chans, arrivals>>

\* set_config: set_servers first, then config.store.
SetServers(list, m) ==
    /\ edits < MaxEdits
    /\ edits' = edits + 1
    /\ edit = None
    /\ edit' = m
    /\ Up!SetServers(list)
    /\ UNCHANGED <<taskvars, inflight, flight, cache, stats, chans, blocklist, mode,
                   arrivals>>

StoreConfig ==
    /\ edit # None
    /\ mode' = edit
    /\ edit' = None
    /\ UNCHANGED <<blocklist, edits>>
    /\ Witness
    /\ UNCHANGED <<upvars, pc, req, cfg, outcome, reply, inflight, flight, cache,
                   stats, chans, arrivals>>

-----------------------------------------------------------------------------
\* What the runtime does for a task without anybody's help.
Step(t) ==
    \/ Reject(t) \/ Parse(t)
    \/ Blocked(t) \/ Allowed(t)
    \/ Hit(t) \/ Miss(t)
    \/ JoinLate(t) \/ Lead(t) \/ Follow(t)
    \/ Forward(t)
    \/ Complete(t) \/ Fail(t)
    \/ Wake(t)
    \/ UdpSend(t) \/ TcpSend(t)

Arrive ==
    /\ arrivals < MaxArrivals
    /\ \/ \E t \in Tasks, p \in Requests \cup {Malformed} : UdpRecv(t, p) \/ TcpRecv(t, p)
       \/ UdpDrop
       \/ \E t \in Tasks : TcpDrop(t)

Next ==
    \/ Arrive
    \/ \E t \in Tasks : TcpAccept(t) \/ TcpClose(t) \/ Step(t)
    \/ \E k \in Keys : Expire(k)
    \/ Drain
    \/ Refill
    \/ \E names \in Blocklists : SetBlocklist(names)
    \/ \E list \in ServerLists, m \in Modes : SetServers(list, m)
    \/ StoreConfig

Spec == Init /\ [][Next]_vars

\* The runtime runs every task that can go on, and time passes.  Nothing is
\* assumed of clients, of the admin or of the writers behind the channels.
FairSpec ==
    /\ Spec
    /\ \A t \in Tasks : WF_vars(Step(t))
    /\ WF_vars(Refill)

-----------------------------------------------------------------------------
\* The in-flight pool: each permit is free or held by exactly one task that
\* handles a packet, on every way out of handle() and of the listeners.
InflightConserved ==
    inflight + Cardinality({t \in Tasks : Occupies(t)}) = Inflight

\* Two misses for one key never ask the upstream at the same time.
SingleFlight ==
    \A t, u \in Tasks :
        t # u /\ upc[t] # "idle" /\ upc[u] # "idle"
            => CacheKey(query[t].question) # CacheKey(query[u].question)

\* A task that waits for somebody else's upstream call has somebody to wait
\* for: the leader of its key, who is still inside resolve().
NoOrphans ==
    \A t \in Tasks : pc[t] = "wait" =>
        \E u \in Tasks : /\ flight[Key(t)] = u
                         /\ pc[u] = "lead"
                         /\ Key(u) = Key(t)
                         /\ upc[u] # "idle"

\* A client gets its own transaction id back, and an answer for the name and
\* type it asked for, whoever's query fetched it.
ReplyForAsker ==
    \A t \in Tasks : reply[t] # None =>
        /\ reply[t].id = req[t].id
        /\ CacheKey(reply[t].question) = Key(t)

\* README: upstream replies are validated before caching.  Whatever the
\* upstream sends, an entry is a response about the key it is stored under.
CacheHoldsOwnKey ==
    \A k \in Keys : cache[k] # None =>
        cache[k].response /\ CacheKey(cache[k].question) = k

\* The dashboard adds up: every counted query is in exactly one of the
\* outcome counters or still inside handle().
StatsAddUp ==
    stats["queries"] = stats["blocked"] + stats["cache_hits"] + stats["forwarded"]
                         + stats["upstream_errors"]
                         + Cardinality({t \in Tasks : pc[t] \in Counted})

Service == INSTANCE DnsService
             WITH Clients <- Tasks, asked <- req, answer <- reply, inforce <- seen,
                  Replies <- Reply, Sinkhole <- BuildBlocked

\* The pipeline keeps the promise of DnsService.  In particular edits apply
\* live: a name that is blocked throughout is never answered from a cache that
\* was filled before it was blocked, nor one that never was with a sinkhole; and
\* a client gets one reply, with its own id, about the name and type it asked
\* for, whoever's query fetched it.
ServesClients == Service!Spec

\* Every admitted packet leaves handle(), even when the upstream never
\* answers and the writers behind the channels never run: no follower is
\* forgotten, and neither a full channel nor a full limiter stops the path.
EveryPacketLeaves ==
    \A t \in Tasks : pc[t] = "parse" ~> pc[t] \notin Handling

=============================================================================
