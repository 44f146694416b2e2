--------------------------- MODULE PipelineProofs ---------------------------
(***************************************************************************)
(* Proofs about Pipeline, for any number of UDP handlers and connections,  *)
(* any requests, upstream replies, live edits and limits.                  *)
(*                                                                         *)
(* The invariant is built up in parts, each inductive given those before   *)
(* it.  Control says where a packet may be.  It is enough to show that     *)
(* every step is one of Upstream's, so that the theorems about resolve()   *)
(* hold of the calls made here.  Flights ties a key to the one task inside *)
(* resolve() for it, Globals has the counters and channels, Answers says   *)
(* that what a task holds and what the cache holds belong to their keys,   *)
(* Ledgers counts permits and queries, and Seen relates what a task loaded *)
(* to what was in force since its packet came.  The last is what the       *)
(* refinement of DnsService needs.                                         *)
(***************************************************************************)
EXTENDS Pipeline, FiniteSetTheorems, TLAPS

Res == INSTANCE UpstreamProofs WITH Callers <- Tasks

\* The tasks can be counted.
LEMMA TasksFinite == IsFiniteSet(Tasks)
  BY PipelineAssumption, FS_Union DEF Tasks

-----------------------------------------------------------------------------
\* A task has a packet exactly while it handles one, and only a packet that
\* parsed gets past the parser.
Control ==
    /\ pc \in [Tasks -> Points]
    /\ req \in [Tasks -> Requests \cup {Malformed, None}]
    /\ \A t \in Tasks :
          /\ pc[t] \in Counted \cup {"send"} => req[t] \in Requests
          /\ pc[t] = "parse" => req[t] \in Requests \cup {Malformed}
          /\ pc[t] \in {"idle", "read"} => req[t] = None

\* No task has anything to do.
LEMMA InitControl == Init => Control
  BY DEF Init, Control, Points, Handling, Counted

\* A task that moves on with the packet it has.
LEMMA MoveControl ==
  ASSUME Control, NEW t \in Tasks, NEW p \in Points,
         pc' = [pc EXCEPT ![t] = p], req' = req,
         p \in Counted \cup {"send"} => req[t] \in Requests,
         p = "parse" => req[t] \in Requests \cup {Malformed},
         p \in {"idle", "read"} => req[t] = None
  PROVE  Control'
  BY DEF Control

\* A task that is done with its packet.
LEMMA ForgetControl ==
  ASSUME Control, NEW t \in Tasks, NEW p \in {"idle", "read"},
         pc' = [pc EXCEPT ![t] = p], req' = [req EXCEPT ![t] = None]
  PROVE  Control'
  BY DEF Control, Points, Handling, Counted

\* One step per action that moves a task.
LEMMA NextControl == Control /\ [Next]_vars => Control'
<1> SUFFICES ASSUME Control, [Next]_vars PROVE Control'
  OBVIOUS
<1>1. ASSUME NEW t \in Tasks, NEW p \in Requests \cup {Malformed},
             UdpRecv(t, p) \/ TcpRecv(t, p)
      PROVE  Control'
  <2>1. /\ pc' = [pc EXCEPT ![t] = "parse"]
        /\ req' = [req EXCEPT ![t] = p]
    BY <1>1 DEF UdpRecv, TcpRecv, Admit
  <2> QED
    BY <2>1 DEF Control, Points, Handling, Counted
<1>2. ASSUME NEW t \in Tasks, TcpDrop(t) \/ TcpAccept(t) \/ TcpClose(t)
      PROVE  Control'
  <2>1. PICK p \in {"idle", "read"} :
           pc' = [pc EXCEPT ![t] = p] /\ req' = req /\ pc[t] \in {"idle", "read"}
    BY <1>2 DEF TcpDrop, TcpAccept, TcpClose
  <2>2. req[t] = None
    BY <2>1 DEF Control
  <2> QED
    BY <2>1, <2>2, MoveControl DEF Points, Handling, Counted
<1>3. ASSUME NEW t \in Tasks, Reject(t) \/ UdpSend(t) \/ TcpSend(t)
      PROVE  Control'
  <2>1. PICK p \in {"idle", "read"} :
           pc' = [pc EXCEPT ![t] = p] /\ req' = [req EXCEPT ![t] = None]
    BY <1>3 DEF Reject, UdpSend, TcpSend, Forget
  <2> QED
    BY <2>1, ForgetControl
<1>4. ASSUME NEW t \in Tasks, Parse(t) PROVE Control'
  <2>1. /\ pc' = [pc EXCEPT ![t] = "check"] /\ req' = req
        /\ req[t] \in Requests
    BY <1>4 DEF Parse, Control
  <2> QED
    BY <2>1, MoveControl DEF Points, Handling, Counted
<1>5. ASSUME NEW t \in Tasks,
             \/ Blocked(t) \/ Allowed(t) \/ Hit(t) \/ Miss(t) \/ JoinLate(t)
             \/ Lead(t) \/ Follow(t) \/ Wake(t)
      PROVE  Control'
  <2>1. PICK p \in Counted \cup {"send"} :
           pc' = [pc EXCEPT ![t] = p] /\ req' = req /\ pc[t] \in Counted
    BY <1>5 DEF Blocked, Allowed, Hit, Miss, JoinLate, Lead, Follow, Wake, Finish,
                Counted
  <2>2. req[t] \in Requests
    BY <2>1 DEF Control
  <2> QED
    BY <2>1, <2>2, MoveControl DEF Points, Handling, Counted
<1>6. ASSUME NEW t \in Tasks, Complete(t) \/ Fail(t) PROVE Control'
  <2>1. /\ pc' = [u \in Tasks |-> IF u \in Sharing(t) THEN "woken" ELSE pc[u]]
        /\ req' = req
        /\ pc[t] = "lead"
    BY <1>6 DEF Complete, Fail, Settle
  <2>2. \A u \in Sharing(t) : u \in Tasks /\ pc[u] \in Counted
    BY <2>1 DEF Sharing, Counted
  <2> QED
    BY <2>1, <2>2 DEF Control, Points, Handling, Counted
<1>7. ASSUME UNCHANGED <<pc, req>> PROVE Control'
  BY <1>7 DEF Control
<1> QED
  BY <1>1, <1>2, <1>3, <1>4, <1>5, <1>6, <1>7
  DEF Next, Arrive, Step, UdpDrop, Forward, Expire, Drain, Refill, SetBlocklist,
      SetServers, StoreConfig, taskvars, vars

\* A task always knows what it handles.
LEMMA AlwaysControl == Spec => []Control
  BY InitControl, NextControl, PTL DEF Spec

-----------------------------------------------------------------------------
\* What resolve() assumes of its parameters holds in the pipeline.
LEMMA ResAssumption == Res!UpstreamAssumption
  BY PipelineAssumption, TasksFinite
  DEF Res!UpstreamAssumption, IsFiniteSet, Res!IsFiniteSet

\* Every step of the pipeline is a step of resolve(), of its limiter or of
\* set_servers, or leaves the upstream alone.
LEMMA UpstreamStep == Control /\ [Next]_vars => [Up!Next]_Up!vars
<1> SUFFICES ASSUME Control, [Next]_vars PROVE [Up!Next]_Up!vars
  OBVIOUS
<1>1. ASSUME NEW t \in Tasks, Lead(t) PROVE Up!Next
  <2>1. req[t] \in Up!Query
    BY <1>1, PipelineAssumption DEF Lead, Control, Counted, Up!Query
  <2> QED
    BY <1>1, <2>1 DEF Lead, Up!Next
<1>2. ASSUME NEW t \in Tasks, Forward(t) PROVE Up!Next
  BY <1>2 DEF Forward, Up!Next
<1>3. ASSUME NEW t \in Tasks, Complete(t) \/ Fail(t) PROVE Up!Next
  BY <1>3 DEF Complete, Fail, Up!Next
<1>4. ASSUME Refill PROVE Up!Next
  BY <1>4 DEF Refill, Up!Next
<1>5. ASSUME NEW list \in ServerLists, NEW m \in Modes, SetServers(list, m)
      PROVE  Up!Next
  BY <1>5 DEF SetServers, Up!Next
<1>6. ASSUME UNCHANGED upvars PROVE UNCHANGED Up!vars
  BY <1>6 DEF upvars, Up!vars
<1>7. ASSUME Arrive PROVE UNCHANGED upvars
  BY <1>7 DEF Arrive, UdpRecv, TcpRecv, Admit, UdpDrop, TcpDrop
<1>8. ASSUME NEW t \in Tasks, TcpAccept(t) \/ TcpClose(t) PROVE UNCHANGED upvars
  BY <1>8 DEF TcpAccept, TcpClose
<1>9. ASSUME NEW t \in Tasks,
             \/ Reject(t) \/ Parse(t) \/ Blocked(t) \/ Allowed(t) \/ Hit(t)
             \/ Miss(t) \/ JoinLate(t) \/ Follow(t) \/ Wake(t)
             \/ UdpSend(t) \/ TcpSend(t)
      PROVE  UNCHANGED upvars
  BY <1>9 DEF Reject, Parse, Blocked, Allowed, Hit, Miss, JoinLate, Follow, Wake,
              UdpSend, TcpSend
<1>10. ASSUME \/ \E k \in Keys : Expire(k)
              \/ Drain
              \/ \E names \in Blocklists : SetBlocklist(names)
              \/ StoreConfig
              \/ UNCHANGED vars
       PROVE  UNCHANGED upvars
  BY <1>10 DEF Expire, Drain, SetBlocklist, StoreConfig, vars
<1> QED
  BY <1>1, <1>2, <1>3, <1>4, <1>5, <1>6, <1>7, <1>8, <1>9, <1>10 DEF Next, Step

\* The pipeline only uses resolve() the way module Upstream allows: one call
\* at a time per task, on a packet that parsed, its result taken when it is
\* there.
LEMMA PipelineUsesUpstream == Spec => Up!Spec
<1>1. Init => Up!Init
  BY DEF Init
<1>2. Control /\ [Next]_vars => [Up!Next]_Up!vars
  BY UpstreamStep
<1> QED
  BY <1>1, <1>2, AlwaysControl, PTL DEF Spec, Up!Spec

\* The two instances of module Upstream are the same specification.
LEMMA SameUpstream == Up!Spec => Res!Spec
<1>1. Up!Init => Res!Init
  BY DEF Up!Init, Res!Init, Up!Permits, Res!Permits, Up!Quota, Res!Quota,
         Up!AtLeastOne, Res!AtLeastOne
<1>2. [Up!Next]_Up!vars => [Res!Next]_Res!vars
  BY DEF Res!Next, Up!Next, Res!vars, Up!vars, Res!Progress, Up!Progress,
         Res!Query, Up!Query, Res!Message, Up!Message, Res!Resolve, Up!Resolve,
         Res!Acquire, Up!Acquire, Res!UntilReady, Up!UntilReady,
         Res!SendUdp, Up!SendUdp, Res!Truncated, Up!Truncated,
         Res!SendTcp, Up!SendTcp, Res!Accept, Up!Accept,
         Res!ValidResponse, Up!ValidResponse, Res!GiveUp, Up!GiveUp,
         Res!Return, Up!Return, Res!SetServers, Up!SetServers,
         Res!Replenish, Up!Replenish, Res!Quota, Up!Quota,
         Res!AtLeastOne, Up!AtLeastOne
<1> QED
  BY <1>1, <1>2, PTL DEF Up!Spec, Res!Spec

\* What the pipeline relies on: a call that succeeded has a response to the
\* packet it was called with.
CallsOK ==
    \A t \in Tasks :
        /\ upc[t] # "idle" => query[t] \in Up!Query
        /\ upc[t] = "ok" => /\ wire[t] \in Up!Message
                            /\ Up!ValidResponse(query[t], wire[t])

\* So what is proved of resolve() holds inside the pipeline.
LEMMA AlwaysUpstream == Spec => [](Up!TypeOK /\ CallsOK)
<1>1. Res!Spec => [](Res!TypeOK /\ Res!PermitsConserved)
  BY Res!UpstreamInvariant, ResAssumption
<1>2. Res!Spec => []Res!CallsOK
  BY Res!ResolveAnswers, ResAssumption
<1>3. Res!TypeOK => Up!TypeOK
  BY DEF Res!TypeOK, Up!TypeOK, Res!Permits, Up!Permits, Res!Quota, Up!Quota,
         Res!AtLeastOne, Up!AtLeastOne, Res!Points, Up!Points,
         Res!Holding, Up!Holding, Res!Query, Up!Query, Res!Message, Up!Message
<1>4. Res!CallsOK => CallsOK
  BY DEF Res!CallsOK, Res!CallOK, CallsOK, Res!Query, Up!Query,
         Res!Message, Up!Message, Res!ValidResponse, Up!ValidResponse
<1> QED
  BY <1>1, <1>2, <1>3, <1>4, PipelineUsesUpstream, SameUpstream, PTL

-----------------------------------------------------------------------------
\* The flights: a key has a leader exactly while a task is inside resolve()
\* for it, the leader forwards its own packet, and nobody waits for nothing.
Flights ==
    /\ flight \in [Keys -> Tasks \cup {None}]
    /\ \A t \in Tasks :
          /\ pc[t] = "lead" => /\ flight[Key(t)] = t
                               /\ upc[t] # "idle"
                               /\ query[t] = req[t]
          /\ pc[t] # "lead" => upc[t] = "idle"
          /\ pc[t] = "wait" => flight[Key(t)] # None
    /\ \A k \in Keys : flight[k] # None =>
          /\ pc[flight[k]] = "lead"
          /\ Key(flight[k]) = k

\* The packet of a task past the parser, and its key.
LEMMA Packet ==
  ASSUME Control, NEW t \in Tasks, pc[t] \in Counted \cup {"send"}
  PROVE  /\ req[t] \in Requests
         /\ req[t].id \in Ids
         /\ req[t].question \in Questions
         /\ Key(t) \in Keys
<1>1. req[t] \in Requests
  BY DEF Control
<1>2. req[t].id \in Ids /\ req[t].question \in Questions
  BY <1>1, PipelineAssumption
<1> QED
  BY <1>1, <1>2 DEF Key, Keys

\* No call is under way.
LEMMA InitFlights == Init => Flights
  BY DEF Init, Up!Init, Flights

\* A step inside resolve() stays inside resolve(), with the same packet.
LEMMA ProgressInside ==
  ASSUME Up!TypeOK, NEW t \in Tasks, Up!Progress(t)
  PROVE  /\ upc'[t] # "idle"
         /\ \A u \in Tasks \ {t} : upc'[u] = upc[u]
         /\ query' = query
  BY DEF Up!TypeOK, Up!Progress, Up!Acquire, Up!UntilReady, Up!SendUdp, Up!Truncated,
         Up!SendTcp, Up!Accept, Up!GiveUp

\* A task that neither leads nor waits, before and after its step.
LEMMA QuietFlights ==
  ASSUME Control, Flights, NEW t \in Tasks, NEW p, p \notin {"lead", "wait"},
         pc[t] \notin {"lead", "wait"},
         pc' = [pc EXCEPT ![t] = p],
         \A u \in Tasks \ {t} : req'[u] = req[u],
         UNCHANGED <<flight, upc, query>>
  PROVE  Flights'
<1>1. \A u \in Tasks \ {t} : pc'[u] = pc[u] /\ Key(u)' = Key(u)
  BY DEF Control, Key
<1>2. pc'[t] = p
  BY DEF Control
<1>3. \A k \in Keys : flight[k] # None => flight[k] \in Tasks /\ flight[k] # t
  BY DEF Flights
<1>4. ASSUME NEW u \in Tasks
      PROVE  /\ pc'[u] = "lead" => /\ flight'[Key(u)'] = u
                                   /\ upc'[u] # "idle"
                                   /\ query'[u] = req'[u]
             /\ pc'[u] # "lead" => upc'[u] = "idle"
             /\ pc'[u] = "wait" => flight'[Key(u)'] # None
  <2>1. CASE u = t
    BY <1>2, <2>1 DEF Flights
  <2>2. CASE u # t
    BY <1>1, <2>2 DEF Flights
  <2> QED
    BY <2>1, <2>2
<1>5. ASSUME NEW k \in Keys, flight'[k] # None
      PROVE  pc'[flight'[k]] = "lead" /\ Key(flight[k])' = k
  BY <1>1, <1>3, <1>5 DEF Flights, Key
<1> QED
  BY <1>4, <1>5 DEF Flights

\* One step per action that starts, follows, advances or settles a flight.
LEMMA NextFlights ==
  Control /\ Up!TypeOK /\ Flights /\ [Next]_vars => Flights'
<1> SUFFICES ASSUME Control, Up!TypeOK, Flights, [Next]_vars PROVE Flights'
  OBVIOUS
<1>t. /\ pc \in [Tasks -> Points] /\ flight \in [Keys -> Tasks \cup {None}]
      /\ req \in [Tasks -> Requests \cup {Malformed, None}]
      /\ upc \in [Tasks -> Up!Points] /\ query \in [Tasks -> Up!Query \cup {None}]
  BY DEF Control, Flights, Up!TypeOK
<1>1. ASSUME NEW t \in Tasks, NEW p \in Requests \cup {Malformed},
             UdpRecv(t, p) \/ TcpRecv(t, p)
      PROVE  Flights'
  <2>1. /\ pc' = [pc EXCEPT ![t] = "parse"] /\ pc[t] \notin {"lead", "wait"}
        /\ req' = [req EXCEPT ![t] = p] /\ UNCHANGED <<flight, upc, query>>
    BY <1>1 DEF UdpRecv, TcpRecv, Admit, upvars
  <2> QED
    BY <1>t, <2>1, QuietFlights
<1>2. ASSUME NEW t \in Tasks, TcpDrop(t) \/ TcpAccept(t) \/ TcpClose(t)
      PROVE  Flights'
  <2>1. PICK p \in {"idle", "read"} :
           /\ pc' = [pc EXCEPT ![t] = p] /\ req' = req
           /\ pc[t] \in {"idle", "read"} /\ UNCHANGED <<flight, upc, query>>
    BY <1>2 DEF TcpDrop, TcpAccept, TcpClose, upvars
  <2> QED
    BY <2>1, QuietFlights
<1>3. ASSUME NEW t \in Tasks, Reject(t) \/ UdpSend(t) \/ TcpSend(t)
      PROVE  Flights'
  <2>1. PICK p \in {"idle", "read"} :
           /\ pc' = [pc EXCEPT ![t] = p] /\ req' = [req EXCEPT ![t] = None]
           /\ pc[t] \in {"parse", "send"} /\ UNCHANGED <<flight, upc, query>>
    BY <1>3 DEF Reject, UdpSend, TcpSend, Forget, upvars
  <2> QED
    BY <1>t, <2>1, QuietFlights
<1>4. ASSUME NEW t \in Tasks,
             \/ Parse(t) \/ Blocked(t) \/ Allowed(t) \/ Hit(t) \/ Miss(t)
             \/ JoinLate(t) \/ Wake(t)
      PROVE  Flights'
  <2>1. PICK p \in {"check", "lookup", "join", "woken", "send"} :
           /\ pc' = [pc EXCEPT ![t] = p] /\ req' = req
           /\ pc[t] \notin {"lead", "wait"} /\ UNCHANGED <<flight, upc, query>>
    BY <1>4 DEF Parse, Blocked, Allowed, Hit, Miss, JoinLate, Wake, Finish, upvars
  <2> QED
    BY <2>1, QuietFlights
<1>5. ASSUME NEW t \in Tasks, Lead(t) PROVE Flights'
  <2>1. /\ pc' = [pc EXCEPT ![t] = "lead"] /\ req' = req
        /\ pc[t] = "join" /\ flight[Key(t)] = None
        /\ flight' = [flight EXCEPT ![Key(t)] = t]
        /\ upc' = [upc EXCEPT ![t] = "sem"]
        /\ query' = [query EXCEPT ![t] = req[t]]
    BY <1>5 DEF Lead, Up!Resolve
  <2>2. Key(t) \in Keys
    BY <2>1, Packet DEF Counted
  <2>3. \A u \in Tasks : Key(u)' = Key(u)
    BY <2>1 DEF Key
  <2>4. None \notin Tasks
    BY PipelineAssumption
  <2>5. ASSUME NEW u \in Tasks
        PROVE  /\ pc'[u] = "lead" => /\ flight'[Key(u)'] = u
                                     /\ upc'[u] # "idle"
                                     /\ query'[u] = req'[u]
               /\ pc'[u] # "lead" => upc'[u] = "idle"
               /\ pc'[u] = "wait" => flight'[Key(u)'] # None
    <3>1. CASE u = t
      BY <1>t, <2>1, <2>2, <2>3, <3>1
    <3>2. CASE u # t
      <4>1. pc'[u] = pc[u] /\ upc'[u] = upc[u] /\ query'[u] = query[u]
        BY <1>t, <2>1, <3>2
      <4>2. flight'[Key(u)] = IF Key(u) = Key(t) THEN t ELSE flight[Key(u)]
        BY <1>t, <2>1, <2>2, <2>4 DEF Flights
      <4>3. pc[u] = "lead" => Key(u) # Key(t)
        BY <2>1, <2>4 DEF Flights
      <4> QED
        BY <2>1, <2>3, <2>4, <4>1, <4>2, <4>3 DEF Flights
    <3> QED
      BY <3>1, <3>2
  <2>6. ASSUME NEW k \in Keys, flight'[k] # None
        PROVE  pc'[flight'[k]] = "lead" /\ Key(flight[k])' = k
    <3>1. CASE k = Key(t)
      BY <1>t, <2>1, <2>2, <2>3, <3>1
    <3>2. CASE k # Key(t)
      <4>1. flight'[k] = flight[k] /\ flight[k] \in Tasks
        BY <1>t, <2>1, <2>6, <3>2
      <4>2. pc[flight[k]] = "lead" /\ Key(flight[k]) = k
        BY <2>6, <4>1 DEF Flights
      <4> QED
        BY <1>t, <2>1, <2>3, <4>1, <4>2
    <3> QED
      BY <3>1, <3>2
  <2>7. flight' \in [Keys -> Tasks \cup {None}]
    BY <1>t, <2>1
  <2> QED
    BY <2>5, <2>6, <2>7 DEF Flights
<1>6. ASSUME NEW t \in Tasks, Follow(t) PROVE Flights'
  <2>1. /\ pc' = [pc EXCEPT ![t] = "wait"] /\ req' = req
        /\ pc[t] = "join" /\ flight[Key(t)] # None
        /\ UNCHANGED <<flight, upc, query>>
    BY <1>6 DEF Follow, upvars
  <2>2. \A u \in Tasks : Key(u)' = Key(u)
    BY <2>1 DEF Key
  <2>3. \A k \in Keys : flight[k] # None => flight[k] \in Tasks /\ flight[k] # t
    BY <2>1 DEF Flights
  <2> QED
    BY <1>t, <2>1, <2>2, <2>3 DEF Flights
<1>7. ASSUME NEW t \in Tasks, Forward(t) PROVE Flights'
  <2>1. /\ upc'[t] # "idle"
        /\ \A u \in Tasks \ {t} : upc'[u] = upc[u]
        /\ query' = query
    BY <1>7, ProgressInside DEF Forward
  <2>2. pc[t] = "lead" /\ UNCHANGED <<pc, req, flight>>
    BY <1>7 DEF Forward, taskvars
  <2>3. \A u \in Tasks : Key(u)' = Key(u)
    BY <2>2 DEF Key
  <2> QED
    BY <1>t, <2>1, <2>2, <2>3 DEF Flights
<1>8. ASSUME NEW t \in Tasks, Complete(t) \/ Fail(t) PROVE Flights'
  <2>1. /\ pc' = [u \in Tasks |-> IF u \in Sharing(t) THEN "woken" ELSE pc[u]]
        /\ flight' = [flight EXCEPT ![Key(t)] = None]
        /\ req' = req /\ pc[t] = "lead"
        /\ upc' = [upc EXCEPT ![t] = "idle"]
        /\ query' = [query EXCEPT ![t] = None]
    BY <1>8 DEF Complete, Fail, Settle, Up!Return
  <2>2. \A u \in Tasks : Key(u)' = Key(u)
    BY <2>1 DEF Key
  <2>3. Key(t) \in Keys /\ flight[Key(t)] = t
    BY <2>1, Packet DEF Flights, Counted
  <2>4. ASSUME NEW u \in Tasks
        PROVE  /\ pc'[u] = "lead" => /\ flight'[Key(u)'] = u
                                     /\ upc'[u] # "idle"
                                     /\ query'[u] = req'[u]
               /\ pc'[u] # "lead" => upc'[u] = "idle"
               /\ pc'[u] = "wait" => flight'[Key(u)'] # None
    <3>1. CASE u \in Sharing(t)
      <4>1. pc'[u] = "woken"
        BY <2>1, <3>1
      <4>2. upc'[u] = "idle"
        BY <1>t, <2>1, <3>1 DEF Sharing, Flights
      <4> QED
        BY <4>1, <4>2
    <3>2. CASE u \notin Sharing(t)
      <4>1. /\ u # t /\ pc'[u] = pc[u] /\ upc'[u] = upc[u] /\ query'[u] = query[u]
            /\ (pc[u] = "wait" => Key(u) # Key(t))
        BY <1>t, <2>1, <3>2 DEF Sharing
      <4>2. pc[u] = "lead" => Key(u) # Key(t)
        BY <2>3, <4>1 DEF Flights
      <4>3. pc[u] \in {"lead", "wait"} => Key(u) \in Keys
        BY Packet DEF Counted
      <4>4. pc[u] \in {"lead", "wait"} => flight'[Key(u)] = flight[Key(u)]
        BY <1>t, <2>1, <4>1, <4>2, <4>3
      <4> QED
        BY <2>1, <2>2, <4>1, <4>4 DEF Flights
    <3> QED
      BY <3>1, <3>2
  <2>5. ASSUME NEW k \in Keys, flight'[k] # None
        PROVE  pc'[flight'[k]] = "lead" /\ Key(flight[k])' = k
    <3>1. k # Key(t) /\ flight'[k] = flight[k] /\ flight[k] \in Tasks
      BY <1>t, <2>1, <2>3, <2>5
    <3>2. pc[flight[k]] = "lead" /\ Key(flight[k]) = k
      BY <2>5, <3>1 DEF Flights
    <3>3. flight[k] \notin Sharing(t)
      BY <3>1, <3>2 DEF Sharing
    <3> QED
      BY <2>1, <2>2, <3>1, <3>2, <3>3
  <2>6. flight' \in [Keys -> Tasks \cup {None}]
    BY <1>t, <2>1
  <2> QED
    BY <2>4, <2>5, <2>6 DEF Flights
<1>9. ASSUME UNCHANGED <<pc, req, flight, upc, query>> PROVE Flights'
  BY <1>9 DEF Flights, Key
<1> QED
  BY <1>1, <1>2, <1>3, <1>4, <1>5, <1>6, <1>7, <1>8, <1>9
  DEF Next, Arrive, Step, UdpDrop, Expire, Drain, Refill, SetBlocklist, SetServers,
      StoreConfig, Up!Replenish, Up!SetServers, taskvars, upvars, vars

\* The flights are in order in every reachable state.
LEMMA AlwaysFlights == Spec => []Flights
  BY InitFlights, NextFlights, AlwaysControl, AlwaysUpstream, PTL DEF Spec

\* Two misses for one key never ask the upstream at the same time.
THEOREM PipelineSingleFlight == Spec => []SingleFlight
<1>1. Control /\ Flights => SingleFlight
  <2> SUFFICES ASSUME Control, Flights, NEW t \in Tasks, NEW u \in Tasks, t # u,
                      upc[t] # "idle", upc[u] # "idle"
               PROVE  CacheKey(query[t].question) # CacheKey(query[u].question)
    BY DEF SingleFlight
  <2>1. pc[t] = "lead" /\ pc[u] = "lead"
    BY DEF Flights
  <2>2. Key(t) # Key(u)
    BY <2>1 DEF Flights
  <2>3. query[t] = req[t] /\ query[u] = req[u]
    BY <2>1 DEF Flights
  <2> QED
    BY <2>2, <2>3 DEF Key
<1> QED
  BY <1>1, AlwaysControl, AlwaysFlights, PTL

\* A task that waits has a leader of its key to wait for, still in resolve().
THEOREM PipelineNoOrphans == Spec => []NoOrphans
<1>1. Control /\ Flights => NoOrphans
  <2> SUFFICES ASSUME Control, Flights, NEW t \in Tasks, pc[t] = "wait"
               PROVE  \E u \in Tasks : /\ flight[Key(t)] = u
                                       /\ pc[u] = "lead"
                                       /\ Key(u) = Key(t)
                                       /\ upc[u] # "idle"
    BY DEF NoOrphans
  <2>1. Key(t) \in Keys
    BY Packet DEF Counted
  <2>2. flight[Key(t)] \in Tasks /\ flight[Key(t)] # None
    BY <2>1 DEF Flights
  <2>3. pc[flight[Key(t)]] = "lead" /\ Key(flight[Key(t)]) = Key(t)
    BY <2>1, <2>2 DEF Flights
  <2> QED
    BY <2>2, <2>3 DEF Flights
<1> QED
  BY <1>1, AlwaysControl, AlwaysFlights, PTL

-----------------------------------------------------------------------------
\* The counters, the lengths of the channels and what the admin API writes.
Globals ==
    /\ stats \in [Counters -> Nat]
    /\ persist \in 0 .. PERSIST_CHANNEL_CAP
    /\ log \in 0 .. LOG_CHANNEL_CAP
    /\ blocklist \in Blocklists
    /\ mode \in Modes
    /\ edit \in Modes \cup {None}
    /\ arrivals \in 0 .. MaxArrivals
    /\ edits \in 0 .. MaxEdits

\* Nothing is counted or queued yet.
LEMMA InitGlobals == Init => Globals
  BY PipelineAssumption DEF Init, Globals

\* A full channel takes no more.
LEMMA TrySendBounded ==
  ASSUME NEW cap \in Nat, NEW len \in 0 .. cap
  PROVE  TrySend(len, cap) \in 0 .. cap
  BY DEF TrySend

\* A counter counts.
LEMMA BumpType ==
  ASSUME stats \in [Counters -> Nat], NEW n \in Counters, Bump(n)
  PROVE  stats' \in [Counters -> Nat]
  BY DEF Bump

\* One step per group of actions that write the same globals.
LEMMA NextGlobals == Globals /\ [Next]_vars => Globals'
<1> SUFFICES ASSUME Globals, [Next]_vars PROVE Globals'
  OBVIOUS
<1> USE PipelineAssumption
<1>1. ASSUME NEW t \in Tasks, NEW p \in Requests \cup {Malformed},
             arrivals < MaxArrivals, UdpRecv(t, p) \/ TcpRecv(t, p)
      PROVE  Globals'
  <2>1. arrivals' = arrivals + 1 /\ UNCHANGED <<stats, chans, admin>>
    BY <1>1 DEF UdpRecv, TcpRecv, Admit
  <2> QED
    BY <1>1, <2>1 DEF Globals, chans, admin
<1>2. ASSUME arrivals < MaxArrivals, UdpDrop \/ \E t \in Tasks : TcpDrop(t)
      PROVE  Globals'
  <2>1. arrivals' = arrivals + 1 /\ Bump("dropped") /\ UNCHANGED <<chans, admin>>
    BY <1>2 DEF UdpDrop, TcpDrop
  <2>2. stats' \in [Counters -> Nat]
    BY <2>1, BumpType DEF Globals, Counters
  <2> QED
    BY <1>2, <2>1, <2>2 DEF Globals, chans, admin
<1>3. ASSUME NEW t \in Tasks, Parse(t) PROVE Globals'
  <2>1. Bump("queries") /\ UNCHANGED <<chans, admin, arrivals>>
    BY <1>3 DEF Parse
  <2>2. stats' \in [Counters -> Nat]
    BY <2>1, BumpType DEF Globals, Counters
  <2> QED
    BY <2>1, <2>2 DEF Globals, chans, admin
<1>4. ASSUME NEW t \in Tasks, Blocked(t) \/ Hit(t) \/ Wake(t) PROVE Globals'
  <2>1. PICK n \in Counters : Bump(n) /\ log' = TrySend(log, LOG_CHANNEL_CAP)
    BY <1>4 DEF Blocked, Hit, Wake, Finish, Counters
  <2>2. UNCHANGED <<persist, admin, arrivals>>
    BY <1>4 DEF Blocked, Hit, Wake
  <2>3. stats' \in [Counters -> Nat]
    BY <2>1, BumpType DEF Globals
  <2>4. log' \in 0 .. LOG_CHANNEL_CAP
    BY <2>1, TrySendBounded DEF Globals
  <2> QED
    BY <2>2, <2>3, <2>4 DEF Globals, admin
<1>5. ASSUME NEW t \in Tasks, Complete(t) PROVE Globals'
  <2>1. /\ persist' = TrySend(persist, PERSIST_CHANNEL_CAP)
        /\ UNCHANGED <<stats, log, admin, arrivals>>
    BY <1>5 DEF Complete
  <2>2. persist' \in 0 .. PERSIST_CHANNEL_CAP
    BY <2>1, TrySendBounded DEF Globals
  <2> QED
    BY <2>1, <2>2 DEF Globals, admin
<1>6. ASSUME Drain PROVE Globals'
  BY <1>6 DEF Drain, Globals, admin
<1>7. ASSUME NEW names \in Blocklists, SetBlocklist(names) PROVE Globals'
  BY <1>7 DEF SetBlocklist, Globals, chans
<1>8. ASSUME NEW list \in ServerLists, NEW m \in Modes, SetServers(list, m)
      PROVE  Globals'
  BY <1>8 DEF SetServers, Globals, chans
<1>9. ASSUME StoreConfig PROVE Globals'
  BY <1>9 DEF StoreConfig, Globals, chans
<1>10. ASSUME UNCHANGED <<stats, chans, admin, arrivals>> PROVE Globals'
  BY <1>10 DEF Globals, chans, admin
<1>11. ASSUME NEW t \in Tasks,
              \/ TcpAccept(t) \/ TcpClose(t) \/ Reject(t) \/ Allowed(t) \/ Miss(t)
              \/ JoinLate(t) \/ Lead(t) \/ Follow(t) \/ Forward(t) \/ Fail(t)
              \/ UdpSend(t) \/ TcpSend(t)
       PROVE  UNCHANGED <<stats, chans, admin, arrivals>>
  BY <1>11 DEF TcpAccept, TcpClose, Reject, Allowed, Miss, JoinLate, Lead, Follow,
               Forward, Fail, UdpSend, TcpSend
<1>12. ASSUME (\E k \in Keys : Expire(k)) \/ Refill \/ UNCHANGED vars
       PROVE  UNCHANGED <<stats, chans, admin, arrivals>>
  BY <1>12 DEF Expire, Refill, vars
<1> QED
  BY <1>1, <1>2, <1>3, <1>4, <1>5, <1>6, <1>7, <1>8, <1>9, <1>10, <1>11, <1>12
  DEF Next, Arrive, Step

\* The counters and the channels stay within their bounds.
LEMMA AlwaysGlobals == Spec => []Globals
  BY InitGlobals, NextGlobals, PTL DEF Spec

-----------------------------------------------------------------------------
\* What a task has in hand: the mode it loaded, what try_get_with gave it and
\* the reply it is about to send belong to its own packet.
AnswerOK(t) ==
    /\ pc[t] \in Counted => cfg[t] \in Modes
    /\ pc[t] = "woken" /\ outcome[t] # UpstreamError =>
          /\ outcome[t] \in Up!Message
          /\ CacheKey(outcome[t].question) = Key(t)
    /\ pc[t] = "send" => /\ reply[t] \in Reply
                         /\ reply[t].id = req[t].id
                         /\ CacheKey(reply[t].question) = Key(t)
    /\ pc[t] # "send" => reply[t] = None

Answers ==
    /\ cfg \in [Tasks -> Modes \cup {None}]
    /\ outcome \in [Tasks -> Up!Message \cup {UpstreamError, None}]
    /\ reply \in [Tasks -> Reply \cup {None}]
    /\ cache \in [Keys -> Up!Message \cup {None}]
    /\ CacheHoldsOwnKey
    /\ \A t \in Tasks : AnswerOK(t)

\* Rows of an earlier process are under their own keys.
LEMMA InitAnswers == Init => Answers
<1> SUFFICES ASSUME Init PROVE Answers
  OBVIOUS
<1>1. cache \in [Keys -> Up!Message \cup {None}] /\ CacheHoldsOwnKey
  <2>1. CASE cache = [k \in Keys |-> None]
    BY <2>1 DEF CacheHoldsOwnKey
  <2>2. ASSUME NEW r \in Requests,
               cache = [k \in Keys |-> IF k = CacheKey(r.question)
                                         THEN [response |-> TRUE, id |-> r.id,
                                               question |-> r.question]
                                         ELSE None]
        PROVE  cache \in [Keys -> Up!Message \cup {None}] /\ CacheHoldsOwnKey
    <3>1. r.id \in Ids /\ r.question \in Questions
      BY PipelineAssumption
    <3>2. [response |-> TRUE, id |-> r.id, question |-> r.question] \in Up!Message
      BY <3>1 DEF Up!Message
    <3> QED
      BY <2>2, <3>2 DEF CacheHoldsOwnKey
  <2> QED
    BY <2>1, <2>2 DEF Init
<1>2. \A t \in Tasks : AnswerOK(t)
  BY DEF Init, AnswerOK, Counted
<1> QED
  BY <1>1, <1>2 DEF Init, Answers

\* A step of one task that changes what it has in hand.
LEMMA OneAnswer ==
  ASSUME Control, Answers, NEW t \in Tasks, NEW p,
         pc' = [pc EXCEPT ![t] = p],
         \A u \in Tasks \ {t} : /\ req'[u] = req[u] /\ cfg'[u] = cfg[u]
                                /\ outcome'[u] = outcome[u] /\ reply'[u] = reply[u],
         cfg' \in [Tasks -> Modes \cup {None}],
         outcome' \in [Tasks -> Up!Message \cup {UpstreamError, None}],
         reply' \in [Tasks -> Reply \cup {None}],
         cache' = cache,
         AnswerOK(t)'
  PROVE  Answers'
<1>1. ASSUME NEW u \in Tasks, u # t PROVE AnswerOK(u)'
  <2>1. pc'[u] = pc[u] /\ Key(u)' = Key(u)
    BY <1>1 DEF Control, Key
  <2>2. AnswerOK(u)
    BY DEF Answers
  <2> QED
    BY <1>1, <2>1, <2>2 DEF AnswerOK
<1>2. cache' \in [Keys -> Up!Message \cup {None}] /\ CacheHoldsOwnKey'
  BY DEF Answers, CacheHoldsOwnKey
<1> QED
  BY <1>1, <1>2 DEF Answers

\* handle() returns with a reply to the packet it was given.
LEMMA FinishAnswers ==
  ASSUME Control, Answers, NEW t \in Tasks, NEW n, NEW r \in Reply,
         pc[t] \in Counted, Finish(t, n, r), UNCHANGED <<req, cfg, cache>>,
         r.id = req[t].id, CacheKey(r.question) = Key(t)
  PROVE  Answers'
<1>1. /\ pc' = [pc EXCEPT ![t] = "send"]
      /\ reply' = [reply EXCEPT ![t] = r]
      /\ outcome' = [outcome EXCEPT ![t] = None]
  BY DEF Finish
<1>2. /\ cfg \in [Tasks -> Modes \cup {None}]
      /\ outcome \in [Tasks -> Up!Message \cup {UpstreamError, None}]
      /\ reply \in [Tasks -> Reply \cup {None}]
      /\ pc \in [Tasks -> Points]
  BY DEF Answers, Control
<1>3. AnswerOK(t)'
  BY <1>1, <1>2 DEF AnswerOK, Key, Counted
<1> QED
  BY <1>1, <1>2, <1>3, OneAnswer

\* One step per action; Complete and Fail hand one result to several tasks.
LEMMA NextAnswers ==
  Control /\ CallsOK /\ Flights /\ Globals /\ Answers /\ [Next]_vars => Answers'
<1> SUFFICES ASSUME Control, CallsOK, Flights, Globals, Answers, [Next]_vars
             PROVE  Answers'
  OBVIOUS
<1>t. /\ cfg \in [Tasks -> Modes \cup {None}]
      /\ outcome \in [Tasks -> Up!Message \cup {UpstreamError, None}]
      /\ reply \in [Tasks -> Reply \cup {None}]
      /\ cache \in [Keys -> Up!Message \cup {None}]
      /\ CacheHoldsOwnKey
      /\ pc \in [Tasks -> Points]
      /\ req \in [Tasks -> Requests \cup {Malformed, None}]
  BY DEF Answers, Control
<1>1. ASSUME NEW t \in Tasks, NEW p \in Requests \cup {Malformed},
             UdpRecv(t, p) \/ TcpRecv(t, p)
      PROVE  Answers'
  <2>1. /\ pc' = [pc EXCEPT ![t] = "parse"] /\ pc[t] \in {"idle", "read"}
        /\ req' = [req EXCEPT ![t] = p] /\ UNCHANGED <<cfg, outcome, reply, cache>>
    BY <1>1 DEF UdpRecv, TcpRecv, Admit
  <2>2. AnswerOK(t)'
    BY <1>t, <2>1 DEF Answers, AnswerOK, Counted
  <2> QED
    BY <1>t, <2>1, <2>2, OneAnswer
<1>2. ASSUME NEW t \in Tasks, TcpDrop(t) \/ TcpAccept(t) \/ TcpClose(t)
      PROVE  Answers'
  <2>1. PICK p \in {"idle", "read"} :
           /\ pc' = [pc EXCEPT ![t] = p] /\ pc[t] \in {"idle", "read"}
           /\ UNCHANGED <<req, cfg, outcome, reply, cache>>
    BY <1>2 DEF TcpDrop, TcpAccept, TcpClose
  <2>2. AnswerOK(t)'
    BY <1>t, <2>1 DEF Answers, AnswerOK, Counted
  <2> QED
    BY <1>t, <2>1, <2>2, OneAnswer
<1>3. ASSUME NEW t \in Tasks, Reject(t) \/ UdpSend(t) \/ TcpSend(t)
      PROVE  Answers'
  <2>1. PICK p \in {"idle", "read"} :
           /\ pc' = [pc EXCEPT ![t] = p]
           /\ req' = [req EXCEPT ![t] = None] /\ cfg' = [cfg EXCEPT ![t] = None]
           /\ reply' = [reply EXCEPT ![t] = None] /\ UNCHANGED <<outcome, cache>>
    BY <1>3 DEF Reject, UdpSend, TcpSend, Forget
  <2>2. AnswerOK(t)'
    BY <1>t, <2>1 DEF AnswerOK, Counted
  <2> QED
    BY <1>t, <2>1, <2>2, OneAnswer
<1>4. ASSUME NEW t \in Tasks, Parse(t) PROVE Answers'
  <2>1. /\ pc' = [pc EXCEPT ![t] = "check"] /\ pc[t] = "parse"
        /\ cfg' = [cfg EXCEPT ![t] = mode] /\ mode \in Modes
        /\ UNCHANGED <<req, outcome, reply, cache>>
    BY <1>4 DEF Parse, Globals
  <2>2. AnswerOK(t)'
    BY <1>t, <2>1 DEF Answers, AnswerOK, Counted
  <2> QED
    BY <1>t, <2>1, <2>2, OneAnswer
<1>5. ASSUME NEW t \in Tasks, Blocked(t) PROVE Answers'
  <2> DEFINE kind == BuildBlocked(cfg[t], req[t].question.rtype)
  <2>1. /\ pc[t] = "check" /\ Finish(t, "blocked", Own(t, kind))
        /\ UNCHANGED <<req, cfg, cache>>
    BY <1>5 DEF Blocked
  <2>2. kind \in Kinds
    BY DEF BuildBlocked, Kinds
  <2>3. /\ Own(t, kind) \in Reply
        /\ Own(t, kind).id = req[t].id
        /\ CacheKey(Own(t, kind).question) = Key(t)
    BY <2>1, <2>2, Packet DEF Own, Reply, Counted, Key
  <2> HIDE DEF kind
  <2> QED
    BY <2>1, <2>3, FinishAnswers DEF Counted
<1>6. ASSUME NEW t \in Tasks, Allowed(t) \/ Miss(t) \/ Follow(t) \/ Lead(t)
      PROVE  Answers'
  <2>1. PICK p \in {"lookup", "join", "wait", "lead"} :
           /\ pc' = [pc EXCEPT ![t] = p] /\ pc[t] \in Counted
           /\ UNCHANGED <<req, cfg, outcome, reply, cache>>
    BY <1>6 DEF Allowed, Miss, Follow, Lead, Counted
  <2>2. AnswerOK(t)'
    BY <1>t, <2>1 DEF Answers, AnswerOK, Counted
  <2> QED
    BY <1>t, <2>1, <2>2, OneAnswer
<1>7. ASSUME NEW t \in Tasks, Hit(t) PROVE Answers'
  <2> DEFINE r == PatchId(cache[Key(t)], req[t].id)
  <2>1. /\ pc[t] = "lookup" /\ Finish(t, "cache_hits", r)
        /\ cache[Key(t)] # None /\ UNCHANGED <<req, cfg, cache>>
    BY <1>7 DEF Hit
  <2>2. Key(t) \in Keys /\ req[t].id \in Ids
    BY <2>1, Packet DEF Counted
  <2>3. /\ cache[Key(t)] \in Up!Message
        /\ CacheKey(cache[Key(t)].question) = Key(t)
    BY <1>t, <2>1, <2>2 DEF CacheHoldsOwnKey
  <2>4. r \in Reply /\ r.id = req[t].id /\ CacheKey(r.question) = Key(t)
    BY <2>2, <2>3 DEF PatchId, Reply, Kinds, Up!Message
  <2> HIDE DEF r
  <2> QED
    BY <2>1, <2>4, FinishAnswers DEF Counted
<1>8. ASSUME NEW t \in Tasks, JoinLate(t) PROVE Answers'
  <2>1. /\ pc[t] = "join" /\ cache[Key(t)] # None
        /\ pc' = [pc EXCEPT ![t] = "woken"]
        /\ outcome' = [outcome EXCEPT ![t] = cache[Key(t)]]
        /\ UNCHANGED <<req, cfg, reply, cache>>
    BY <1>8 DEF JoinLate
  <2>2. Key(t) \in Keys
    BY <2>1, Packet DEF Counted
  <2>3. /\ cache[Key(t)] \in Up!Message
        /\ CacheKey(cache[Key(t)].question) = Key(t)
    BY <1>t, <2>1, <2>2 DEF CacheHoldsOwnKey
  <2>4. Key(t)' = Key(t)
    BY <2>1 DEF Key
  <2>5. outcome'[t] = cache[Key(t)] /\ pc'[t] = "woken"
    BY <1>t, <2>1
  <2>6. cfg[t] \in Modes /\ reply[t] = None
    BY <2>1 DEF Answers, AnswerOK, Counted
  <2>7. AnswerOK(t)'
    BY <2>1, <2>3, <2>4, <2>5, <2>6 DEF AnswerOK
  <2> QED
    BY <1>t, <2>1, <2>3, <2>7, OneAnswer
<1>9. ASSUME NEW t \in Tasks, Wake(t) PROVE Answers'
  <2>1. /\ pc[t] = "woken" /\ pc[t] \in Counted /\ UNCHANGED <<req, cfg, cache>>
        /\ \/ Finish(t, "upstream_errors", Own(t, "servfail"))
           \/ /\ outcome[t] # UpstreamError
              /\ Finish(t, "forwarded", PatchId(outcome[t], req[t].id))
    BY <1>9 DEF Wake, Counted
  <2>2. CASE Finish(t, "upstream_errors", Own(t, "servfail"))
    <3>1. /\ Own(t, "servfail") \in Reply
          /\ Own(t, "servfail").id = req[t].id
          /\ CacheKey(Own(t, "servfail").question) = Key(t)
      BY <2>1, Packet DEF Own, Reply, Kinds, Key
    <3> QED
      BY <2>1, <2>2, <3>1, FinishAnswers
  <2>3. CASE /\ outcome[t] # UpstreamError
             /\ Finish(t, "forwarded", PatchId(outcome[t], req[t].id))
    <3> DEFINE r == PatchId(outcome[t], req[t].id)
    <3>1. outcome[t] \in Up!Message /\ CacheKey(outcome[t].question) = Key(t)
      BY <2>1, <2>3 DEF Answers, AnswerOK
    <3>2. req[t].id \in Ids
      BY <2>1, Packet
    <3>3. r \in Reply /\ r.id = req[t].id /\ CacheKey(r.question) = Key(t)
      BY <3>1, <3>2 DEF PatchId, Reply, Kinds, Up!Message
    <3> HIDE DEF r
    <3>4. Finish(t, "forwarded", r)
      BY <2>3 DEF r
    <3> QED
      BY <2>1, <3>3, <3>4, FinishAnswers
  <2> QED
    BY <2>1, <2>2, <2>3
<1>10. ASSUME NEW t \in Tasks, NEW result,
              pc[t] = "lead", Settle(t, result), UNCHANGED <<req, cfg, reply>>,
              \/ result = UpstreamError
              \/ result \in Up!Message /\ CacheKey(result.question) = Key(t),
              cache' \in [Keys -> Up!Message \cup {None}], CacheHoldsOwnKey'
       PROVE  Answers'
  <2>1. outcome' = [u \in Tasks |-> IF u \in Sharing(t) THEN result ELSE outcome[u]]
    BY <1>10 DEF Settle
  <2>2. pc' = [u \in Tasks |-> IF u \in Sharing(t) THEN "woken" ELSE pc[u]]
    BY <1>10 DEF Settle
  <2>3. outcome' \in [Tasks -> Up!Message \cup {UpstreamError, None}]
    BY <1>t, <1>10, <2>1
  <2>4. ASSUME NEW u \in Tasks PROVE AnswerOK(u)'
    <3>1. AnswerOK(u) /\ Key(u)' = Key(u)
      BY <1>10 DEF Answers, Key
    <3>2. CASE u \in Sharing(t)
      <4>1. pc[u] \in {"lead", "wait"} /\ Key(u) = Key(t)
        BY <1>10, <3>2 DEF Sharing
      <4>2. pc'[u] = "woken" /\ outcome'[u] = result
        BY <2>1, <2>2, <3>2
      <4>3. cfg[u] \in Modes /\ reply[u] = None
        BY <3>1, <4>1 DEF AnswerOK, Counted
      <4> QED
        BY <1>10, <3>1, <4>1, <4>2, <4>3 DEF AnswerOK
    <3>3. CASE u \notin Sharing(t)
      <4>1. pc'[u] = pc[u] /\ outcome'[u] = outcome[u]
        BY <2>1, <2>2, <3>3
      <4> QED
        BY <1>10, <3>1, <4>1 DEF AnswerOK
    <3> QED
      BY <3>2, <3>3
  <2> QED
    BY <1>t, <1>10, <2>3, <2>4 DEF Answers
<1>11. ASSUME NEW t \in Tasks, Complete(t) PROVE Answers'
  <2>1. /\ pc[t] = "lead" /\ upc[t] = "ok" /\ Settle(t, wire[t])
        /\ cache' = [cache EXCEPT ![Key(t)] = wire[t]]
        /\ UNCHANGED <<req, cfg, reply>>
    BY <1>11 DEF Complete
  <2>2. /\ wire[t] \in Up!Message /\ wire[t].response
        /\ wire[t].question = req[t].question
    BY <2>1 DEF CallsOK, Flights, Up!ValidResponse
  <2>3. CacheKey(wire[t].question) = Key(t) /\ Key(t) \in Keys
    BY <2>1, <2>2, Packet DEF Key, Counted
  <2>4. cache' \in [Keys -> Up!Message \cup {None}]
    BY <1>t, <2>1, <2>2
  <2>5. CacheHoldsOwnKey'
    BY <1>t, <2>1, <2>2, <2>3 DEF CacheHoldsOwnKey
  <2> QED
    BY <1>10, <2>1, <2>2, <2>3, <2>4, <2>5
<1>12. ASSUME NEW t \in Tasks, Fail(t) PROVE Answers'
  <2>1. /\ pc[t] = "lead" /\ Settle(t, UpstreamError)
        /\ UNCHANGED <<req, cfg, reply, cache>>
    BY <1>12 DEF Fail
  <2>2. cache' \in [Keys -> Up!Message \cup {None}] /\ CacheHoldsOwnKey'
    BY <1>t, <2>1 DEF CacheHoldsOwnKey
  <2> QED
    BY <1>10, <2>1, <2>2
<1>13. ASSUME NEW k \in Keys, Expire(k) PROVE Answers'
  <2>1. /\ cache' = [cache EXCEPT ![k] = None]
        /\ UNCHANGED <<pc, req, cfg, outcome, reply>>
    BY <1>13 DEF Expire, taskvars
  <2>2. cache' \in [Keys -> Up!Message \cup {None}] /\ CacheHoldsOwnKey'
    BY <1>t, <2>1 DEF CacheHoldsOwnKey
  <2>3. \A t \in Tasks : AnswerOK(t)'
    BY <2>1 DEF Answers, AnswerOK, Key
  <2> QED
    BY <1>t, <2>1, <2>2, <2>3 DEF Answers
<1>14. ASSUME UNCHANGED <<pc, req, cfg, outcome, reply, cache>> PROVE Answers'
  <2>1. \A t \in Tasks : AnswerOK(t)'
    BY <1>14 DEF Answers, AnswerOK, Key
  <2> QED
    BY <1>t, <1>14, <2>1 DEF Answers, CacheHoldsOwnKey
<1>15. ASSUME \/ UdpDrop
              \/ \E t \in Tasks : Forward(t)
              \/ Drain
              \/ Refill
              \/ \E names \in Blocklists : SetBlocklist(names)
              \/ \E list \in ServerLists, m \in Modes : SetServers(list, m)
              \/ StoreConfig
              \/ UNCHANGED vars
       PROVE  UNCHANGED <<pc, req, cfg, outcome, reply, cache>>
  BY <1>15 DEF UdpDrop, Forward, Drain, Refill, SetBlocklist, SetServers, StoreConfig,
               taskvars, vars
<1> QED
  BY <1>1, <1>2, <1>3, <1>4, <1>5, <1>6, <1>7, <1>8, <1>9, <1>11, <1>12, <1>13,
     <1>14, <1>15
  DEF Next, Arrive, Step

\* Every task has its own answer in hand, in every reachable state.
LEMMA AlwaysAnswers == Spec => []Answers
  BY InitAnswers, NextAnswers, AlwaysControl, AlwaysUpstream, AlwaysFlights,
     AlwaysGlobals, PTL DEF Spec

\* A client gets its own transaction id back, and an answer for the name and
\* type it asked for, whoever's query fetched it.
THEOREM PipelineReplyForAsker == Spec => []ReplyForAsker
<1>1. Answers => ReplyForAsker
  BY DEF Answers, AnswerOK, ReplyForAsker
<1> QED
  BY <1>1, AlwaysAnswers, PTL

\* Whatever the upstream sends, an entry of the cache is a response about the
\* key it is stored under.
THEOREM PipelineCacheHoldsOwnKey == Spec => []CacheHoldsOwnKey
<1>1. Answers => CacheHoldsOwnKey
  BY DEF Answers
<1> QED
  BY <1>1, AlwaysAnswers, PTL

-----------------------------------------------------------------------------
Occupying == {t \in Tasks : Occupies(t)}
Inside    == {t \in Tasks : pc[t] \in Counted}

\* The two ledgers: free permits and those who hold one, queries counted and
\* those counted as answered or still inside handle().
Ledgers ==
    /\ inflight \in Nat
    /\ inflight + Cardinality(Occupying) = Inflight
    /\ stats["queries"] = stats["blocked"] + stats["cache_hits"] + stats["forwarded"]
                            + stats["upstream_errors"] + Cardinality(Inside)

\* A set of tasks has a size.
LEMMA Countable ==
  ASSUME NEW S \in SUBSET Tasks
  PROVE  IsFiniteSet(S) /\ Cardinality(S) \in Nat
  BY TasksFinite, FS_Subset, FS_CardinalityType

\* One task more.
LEMMA CountUp ==
  ASSUME NEW S \in SUBSET Tasks, NEW t \in Tasks \ S
  PROVE  Cardinality(S \cup {t}) = Cardinality(S) + 1
  BY Countable, FS_AddElement

\* One task less.
LEMMA CountDown ==
  ASSUME NEW S \in SUBSET Tasks, NEW t \in S
  PROVE  Cardinality(S \ {t}) = Cardinality(S) - 1
  BY Countable, FS_RemoveElement

\* The pool is never smaller than one.
LEMMA InflightType == Inflight \in Nat \ {0}
  BY PipelineAssumption DEF Inflight

\* All permits are free, nothing is counted.
LEMMA InitLedgers == Init => Ledgers
<1> SUFFICES ASSUME Init PROVE Ledgers
  OBVIOUS
<1>1. Occupying = {} /\ Inside = {}
  BY DEF Init, Occupying, Occupies, Inside, Handling, Counted
<1>2. Cardinality(Occupying) = 0 /\ Cardinality(Inside) = 0
  BY <1>1, FS_EmptySet
<1>3. \A n \in Counters : stats[n] = 0
  BY DEF Init
<1>4. inflight = Inflight
  BY DEF Init
<1> QED
  BY <1>2, <1>3, <1>4, InflightType DEF Ledgers, Counters

\* handle() returns: a connection gives its permit back, a UDP handler keeps
\* it, and the query moves from those inside to one of the outcomes.
LEMMA FinishLedgers ==
  ASSUME Control, Globals, Ledgers, NEW t \in Tasks, NEW r,
         NEW n \in {"blocked", "cache_hits", "forwarded", "upstream_errors"},
         pc[t] \in Counted, Finish(t, n, r)
  PROVE  Ledgers'
<1>1. /\ pc' = [pc EXCEPT ![t] = "send"]
      /\ inflight' = IF t \in Conns THEN inflight + 1 ELSE inflight
      /\ stats' = [stats EXCEPT ![n] = @ + 1]
  BY DEF Finish, Bump
<1>2. pc \in [Tasks -> Points] /\ stats \in [Counters -> Nat]
  BY DEF Control, Globals
<1>3. /\ Occupying \in SUBSET Tasks /\ Inside \in SUBSET Tasks
      /\ t \in Occupying /\ t \in Inside
  BY DEF Occupying, Inside, Occupies, Handling
<1>4. Cardinality(Inside') = Cardinality(Inside) - 1
  <2>1. Inside' = Inside \ {t}
    BY <1>1, <1>2 DEF Inside, Counted
  <2> QED
    BY <1>3, <2>1, CountDown
<1>5. inflight' \in Nat /\ inflight' + Cardinality(Occupying') = Inflight
  <2>1. CASE t \in Conns
    <3>1. Occupying' = Occupying \ {t}
      BY <1>1, <1>2, <2>1, PipelineAssumption
      DEF Occupying, Occupies, Handling, Counted
    <3>2. Cardinality(Occupying') = Cardinality(Occupying) - 1
      BY <1>3, <3>1, CountDown
    <3> QED
      BY <1>1, <1>3, <2>1, <3>2, Countable, InflightType DEF Ledgers
  <2>2. CASE t \in UdpTasks
    <3>1. Occupying' = Occupying
      BY <1>1, <1>2, <2>2 DEF Occupying, Occupies, Handling, Counted
    <3>2. t \notin Conns
      BY <2>2, PipelineAssumption
    <3> QED
      BY <1>1, <3>1, <3>2 DEF Ledgers
  <2> QED
    BY <2>1, <2>2 DEF Tasks
<1>6. /\ Cardinality(Inside) \in Nat
      /\ stats["queries"] \in Nat /\ stats["blocked"] \in Nat
      /\ stats["cache_hits"] \in Nat /\ stats["forwarded"] \in Nat
      /\ stats["upstream_errors"] \in Nat
  BY <1>2, <1>3, Countable DEF Counters
<1>7. stats'["queries"] = stats'["blocked"] + stats'["cache_hits"]
                            + stats'["forwarded"] + stats'["upstream_errors"]
                            + Cardinality(Inside')
  <2>1. \A c \in Counters : stats'[c] = IF c = n THEN stats[c] + 1 ELSE stats[c]
    BY <1>1, <1>2
  <2>2. stats["queries"] = stats["blocked"] + stats["cache_hits"]
                             + stats["forwarded"] + stats["upstream_errors"]
                             + Cardinality(Inside)
    BY DEF Ledgers
  <2> QED
    BY <1>4, <1>6, <2>1, <2>2 DEF Counters
<1> QED
  BY <1>5, <1>7 DEF Ledgers

\* One step per action that takes or gives back a permit, or that counts.
LEMMA NextLedgers ==
  Control /\ Globals /\ Ledgers /\ [Next]_vars => Ledgers'
<1> SUFFICES ASSUME Control, Globals, Ledgers, [Next]_vars PROVE Ledgers'
  OBVIOUS
<1>t. /\ pc \in [Tasks -> Points] /\ stats \in [Counters -> Nat]
      /\ inflight \in Nat
      /\ Occupying \in SUBSET Tasks /\ Cardinality(Occupying) \in Nat
      /\ Inside \in SUBSET Tasks /\ Cardinality(Inside) \in Nat
  BY Countable DEF Control, Globals, Ledgers, Occupying, Inside
<1>1. ASSUME NEW t \in Tasks, NEW p \in Requests \cup {Malformed},
             UdpRecv(t, p) \/ TcpRecv(t, p)
      PROVE  Ledgers'
  <2>1. /\ pc' = [pc EXCEPT ![t] = "parse"] /\ pc[t] \in {"idle", "read"}
        /\ inflight > 0 /\ inflight' = inflight - 1 /\ stats' = stats
    BY <1>1 DEF UdpRecv, TcpRecv, Admit
  <2>2. Occupying' = Occupying \cup {t} /\ t \notin Occupying
    BY <1>t, <2>1 DEF Occupying, Occupies, Handling, Counted
  <2>3. Inside' = Inside
    BY <1>t, <2>1 DEF Inside, Counted
  <2>4. Cardinality(Occupying') = Cardinality(Occupying) + 1
    BY <1>t, <2>2, CountUp
  <2> QED
    BY <1>t, <2>1, <2>3, <2>4, InflightType DEF Ledgers
<1>2. ASSUME NEW t \in Tasks, Reject(t) \/ UdpSend(t) PROVE Ledgers'
  <2>1. PICK p \in {"idle", "read"} :
           /\ pc' = [pc EXCEPT ![t] = p] /\ Occupies(t) /\ pc[t] \notin Counted
           /\ inflight' = inflight + 1 /\ stats' = stats
    BY <1>2 DEF Reject, UdpSend, Occupies, Handling, Counted
  <2>2. Occupying' = Occupying \ {t} /\ t \in Occupying
    BY <1>t, <2>1 DEF Occupying, Occupies, Handling, Counted
  <2>3. Inside' = Inside
    BY <1>t, <2>1 DEF Inside, Counted
  <2>4. Cardinality(Occupying') = Cardinality(Occupying) - 1
    BY <1>t, <2>2, CountDown
  <2> QED
    BY <1>t, <2>1, <2>3, <2>4, InflightType DEF Ledgers
<1>3. ASSUME NEW t \in Tasks, Parse(t) PROVE Ledgers'
  <2>1. /\ pc' = [pc EXCEPT ![t] = "check"] /\ pc[t] = "parse"
        /\ stats' = [stats EXCEPT !["queries"] = @ + 1] /\ inflight' = inflight
    BY <1>3 DEF Parse, Bump
  <2>2. Occupying' = Occupying
    BY <1>t, <2>1 DEF Occupying, Occupies, Handling, Counted
  <2>3. Inside' = Inside \cup {t} /\ t \notin Inside
    BY <1>t, <2>1 DEF Inside, Counted
  <2>4. Cardinality(Inside') = Cardinality(Inside) + 1
    BY <1>t, <2>3, CountUp
  <2>5. /\ stats'["queries"] = stats["queries"] + 1
        /\ \A c \in Counters \ {"queries"} : stats'[c] = stats[c]
    BY <1>t, <2>1 DEF Counters
  <2>6. /\ stats["blocked"] \in Nat /\ stats["cache_hits"] \in Nat
        /\ stats["forwarded"] \in Nat /\ stats["upstream_errors"] \in Nat
    BY <1>t DEF Counters
  <2>7. stats'["queries"] = stats'["blocked"] + stats'["cache_hits"]
                              + stats'["forwarded"] + stats'["upstream_errors"]
                              + Cardinality(Inside')
    BY <1>t, <2>4, <2>5, <2>6 DEF Ledgers, Counters
  <2> QED
    BY <2>1, <2>2, <2>7 DEF Ledgers
<1>4. ASSUME NEW t \in Tasks, Blocked(t) \/ Hit(t) \/ Wake(t) PROVE Ledgers'
  <2>1. PICK n \in {"blocked", "cache_hits", "forwarded", "upstream_errors"} :
           \E r : Finish(t, n, r)
    BY <1>4 DEF Blocked, Hit, Wake
  <2>2. pc[t] \in Counted
    BY <1>4 DEF Blocked, Hit, Wake, Counted
  <2> QED
    BY <2>1, <2>2, FinishLedgers
<1>5. ASSUME Occupying' = Occupying, Inside' = Inside, inflight' = inflight,
             \A n \in Counters \ {"dropped"} : stats'[n] = stats[n]
      PROVE  Ledgers'
  BY <1>5 DEF Ledgers, Counters
<1>6. ASSUME NEW t \in Tasks,
             \/ TcpDrop(t) \/ TcpAccept(t) \/ TcpClose(t) \/ TcpSend(t)
             \/ Allowed(t) \/ Miss(t) \/ JoinLate(t) \/ Lead(t) \/ Follow(t)
      PROVE  Ledgers'
  <2>1. PICK p \in Points :
           /\ pc' = [pc EXCEPT ![t] = p]
           /\ \/ /\ pc[t] \in {"idle", "read", "send"} /\ p \in {"idle", "read"}
                 /\ t \in Conns
              \/ pc[t] \in Counted /\ p \in Counted
    BY <1>6 DEF TcpDrop, TcpAccept, TcpClose, TcpSend, Allowed, Miss, JoinLate, Lead,
                Follow, Points, Handling, Counted
  <2>2. /\ inflight' = inflight
        /\ \A n \in Counters \ {"dropped"} : stats'[n] = stats[n]
    BY <1>t, <1>6 DEF TcpDrop, TcpAccept, TcpClose, TcpSend, Allowed, Miss, JoinLate,
                      Lead, Follow, Bump
  <2>3. Occupying' = Occupying
    BY <1>t, <2>1, PipelineAssumption DEF Occupying, Occupies, Handling, Counted
  <2>4. Inside' = Inside
    BY <1>t, <2>1 DEF Inside, Counted
  <2> QED
    BY <1>5, <2>2, <2>3, <2>4
<1>7. ASSUME NEW t \in Tasks, Complete(t) \/ Fail(t) PROVE Ledgers'
  <2>1. /\ pc' = [u \in Tasks |-> IF u \in Sharing(t) THEN "woken" ELSE pc[u]]
        /\ pc[t] = "lead" /\ UNCHANGED <<inflight, stats>>
    BY <1>7 DEF Complete, Fail, Settle
  <2>2. \A u \in Sharing(t) : pc[u] \in Counted
    BY <2>1 DEF Sharing, Counted
  <2>3. \A u \in Tasks : /\ pc'[u] \in Counted <=> pc[u] \in Counted
                         /\ pc'[u] \notin Counted => pc'[u] = pc[u]
    BY <2>1, <2>2 DEF Counted
  <2>4. Occupying' = Occupying /\ Inside' = Inside
    BY <2>3 DEF Occupying, Occupies, Inside, Handling, Counted
  <2> QED
    BY <1>5, <2>1, <2>4
<1>8. ASSUME UdpDrop PROVE Ledgers'
  <2>1. UNCHANGED <<pc, inflight>> /\ Bump("dropped")
    BY <1>8 DEF UdpDrop, taskvars
  <2>2. Occupying' = Occupying /\ Inside' = Inside
    BY <2>1 DEF Occupying, Occupies, Inside
  <2>3. \A n \in Counters \ {"dropped"} : stats'[n] = stats[n]
    BY <1>t, <2>1 DEF Bump
  <2> QED
    BY <1>5, <2>1, <2>2, <2>3
<1>9. ASSUME UNCHANGED <<pc, inflight, stats>> PROVE Ledgers'
  <2>1. Occupying' = Occupying /\ Inside' = Inside
    BY <1>9 DEF Occupying, Occupies, Inside
  <2> QED
    BY <1>5, <1>9, <2>1
<1>10. ASSUME \/ \E t \in Tasks : Forward(t)
              \/ \E k \in Keys : Expire(k)
              \/ Drain
              \/ Refill
              \/ \E names \in Blocklists : SetBlocklist(names)
              \/ \E list \in ServerLists, m \in Modes : SetServers(list, m)
              \/ StoreConfig
              \/ UNCHANGED vars
       PROVE  UNCHANGED <<pc, inflight, stats>>
  BY <1>10 DEF Forward, Expire, Drain, Refill, SetBlocklist, SetServers, StoreConfig,
               taskvars, vars
<1> QED
  BY <1>1, <1>2, <1>3, <1>4, <1>6, <1>7, <1>8, <1>9, <1>10 DEF Next, Arrive, Step

\* Both ledgers balance in every reachable state.
LEMMA AlwaysLedgers == Spec => []Ledgers
  BY InitLedgers, NextLedgers, AlwaysControl, AlwaysGlobals, PTL DEF Spec

\* The in-flight pool leaks no permit and hands none out twice, on every way
\* out of handle() and of the listeners.
THEOREM PipelineInflightConserved == Spec => []InflightConserved
<1>1. Ledgers => InflightConserved
  BY DEF Ledgers, InflightConserved, Occupying
<1> QED
  BY <1>1, AlwaysLedgers, PTL

\* Every counted query is in exactly one outcome counter or inside handle().
THEOREM PipelineStatsAddUp == Spec => []StatsAddUp
<1>1. Ledgers => StatsAddUp
  BY DEF Ledgers, StatsAddUp, Inside
<1> QED
  BY <1>1, AlwaysLedgers, PTL

-----------------------------------------------------------------------------
\* The history of what was in force: it holds the present, the mode a task
\* loaded, and for a task past the blocklist a moment when its name was free.
Unblocked == {"lookup", "join", "lead", "wait", "woken"}

SeenOK(t) ==
    /\ pc[t] \in Handling /\ req[t] # Malformed
          => <<IsBlocked(req[t].question), mode>> \in seen[t]
    /\ pc[t] \in Counted => \E s \in seen[t] : s[2] = cfg[t]
    /\ pc[t] \in Unblocked => \E s \in seen[t] : ~s[1]

Seen ==
    /\ seen \in [Tasks -> SUBSET (BOOLEAN \X Modes)]
    /\ \A t \in Tasks : SeenOK(t)

\* Nothing has been seen and nobody needs to have seen anything.
LEMMA InitSeen == Init => Seen
  BY DEF Init, Seen, SeenOK, Handling, Counted, Unblocked

\* A step of one task under an unchanged list and mode.
LEMMA OneSeen ==
  ASSUME Control, Seen, NEW t \in Tasks, NEW p,
         pc' = [pc EXCEPT ![t] = p],
         \A u \in Tasks \ {t} : /\ req'[u] = req[u] /\ cfg'[u] = cfg[u]
                                /\ seen'[u] = seen[u],
         UNCHANGED <<blocklist, mode>>,
         seen' \in [Tasks -> SUBSET (BOOLEAN \X Modes)],
         SeenOK(t)'
  PROVE  Seen'
<1>1. ASSUME NEW u \in Tasks, u # t PROVE SeenOK(u)'
  <2>1. pc'[u] = pc[u]
    BY <1>1 DEF Control
  <2>2. SeenOK(u)
    BY DEF Seen
  <2> QED
    BY <1>1, <2>1, <2>2 DEF SeenOK, IsBlocked
<1> QED
  BY <1>1 DEF Seen

\* What an admin leaves in force is added to every history that needs it.
LEMMA WitnessSeen ==
  ASSUME Control, Seen, Witness, blocklist' \in Blocklists, mode' \in Modes,
         UNCHANGED <<pc, req, cfg>>
  PROVE  Seen'
<1>1. ASSUME NEW t \in Tasks
      PROVE  SeenOK(t)' /\ seen'[t] \in SUBSET (BOOLEAN \X Modes)
  <2>1. SeenOK(t) /\ seen[t] \in SUBSET (BOOLEAN \X Modes)
    BY DEF Seen
  <2>2. CASE pc[t] \in Handling /\ req[t] # Malformed
    <3>1. seen'[t] = seen[t] \cup {<<req[t].question.name \in blocklist', mode'>>}
      BY <2>2 DEF Witness
    <3> DEFINE b == req[t].question.name \in blocklist'
    <3>2. b \in BOOLEAN
      OBVIOUS
    <3>3. IsBlocked(req[t].question)' = b
      BY DEF IsBlocked
    <3> HIDE DEF b
    <3>4. seen'[t] = seen[t] \cup {<<b, mode'>>}
      BY <3>1 DEF b
    <3>5. seen'[t] \in SUBSET (BOOLEAN \X Modes)
      BY <2>1, <3>2, <3>4
    <3>6. <<IsBlocked(req[t].question)', mode'>> \in seen'[t]
      BY <3>3, <3>4
    <3>7. seen[t] \subseteq seen'[t]
      BY <3>4
    <3> QED
      BY <2>1, <3>5, <3>6, <3>7 DEF SeenOK
  <2>3. CASE ~(pc[t] \in Handling /\ req[t] # Malformed)
    <3>1. seen'[t] = seen[t]
      BY <2>3 DEF Witness
    <3> QED
      BY <2>1, <2>3, <3>1 DEF SeenOK
  <2> QED
    BY <2>2, <2>3
<1>2. seen' \in [Tasks -> SUBSET (BOOLEAN \X Modes)]
  BY <1>1 DEF Witness
<1> QED
  BY <1>1, <1>2 DEF Seen

\* One step per action that moves a task or changes what is in force.
LEMMA NextSeen ==
  Control /\ Globals /\ Globals' /\ Answers /\ Seen /\ [Next]_vars => Seen'
<1> SUFFICES ASSUME Control, Globals, Globals', Answers, Seen, [Next]_vars
             PROVE  Seen'
  OBVIOUS
<1>t. /\ pc \in [Tasks -> Points]
      /\ seen \in [Tasks -> SUBSET (BOOLEAN \X Modes)]
      /\ mode \in Modes
      /\ cfg \in [Tasks -> Modes \cup {None}]
      /\ req \in [Tasks -> Requests \cup {Malformed, None}]
  BY DEF Control, Seen, Globals, Answers
<1>1. ASSUME NEW t \in Tasks, NEW p \in Requests \cup {Malformed},
             UdpRecv(t, p) \/ TcpRecv(t, p)
      PROVE  Seen'
  <2>1. /\ pc' = [pc EXCEPT ![t] = "parse"] /\ req' = [req EXCEPT ![t] = p]
        /\ seen' = [seen EXCEPT ![t] = InForce(p)]
        /\ UNCHANGED <<cfg, blocklist, mode>>
    BY <1>1 DEF UdpRecv, TcpRecv, Admit, admin
  <2>2. InForce(p) \in SUBSET (BOOLEAN \X Modes)
    <3> DEFINE b == IsBlocked(p.question)
    <3>1. b \in BOOLEAN
      BY DEF IsBlocked
    <3>2. InForce(p) \subseteq {<<b, mode>>}
      BY DEF InForce
    <3> HIDE DEF b
    <3> QED
      BY <1>t, <3>1, <3>2
  <2>3. pc'[t] = "parse" /\ req'[t] = p /\ seen'[t] = InForce(p)
    BY <1>t, <2>1 DEF Control
  <2>4. SeenOK(t)'
    BY <2>1, <2>3 DEF SeenOK, InForce, IsBlocked, Counted, Unblocked
  <2>5. \A u \in Tasks \ {t} : req'[u] = req[u] /\ seen'[u] = seen[u]
    BY <1>t, <2>1 DEF Control
  <2>6. seen' \in [Tasks -> SUBSET (BOOLEAN \X Modes)]
    BY <1>t, <2>1, <2>2
  <2> QED
    BY <2>1, <2>4, <2>5, <2>6, OneSeen
<1>2. ASSUME NEW t \in Tasks, TcpDrop(t) \/ TcpAccept(t) \/ TcpClose(t)
      PROVE  Seen'
  <2>1. PICK p \in {"idle", "read"} :
           /\ pc' = [pc EXCEPT ![t] = p]
           /\ UNCHANGED <<req, cfg, seen, blocklist, mode>>
    BY <1>2 DEF TcpDrop, TcpAccept, TcpClose, admin
  <2>2. SeenOK(t)'
    BY <1>t, <2>1 DEF SeenOK, Handling, Counted, Unblocked
  <2> QED
    BY <1>t, <2>1, <2>2, OneSeen
<1>3. ASSUME NEW t \in Tasks, Reject(t) \/ UdpSend(t) \/ TcpSend(t)
      PROVE  Seen'
  <2>1. PICK p \in {"idle", "read"} :
           /\ pc' = [pc EXCEPT ![t] = p]
           /\ req' = [req EXCEPT ![t] = None] /\ cfg' = [cfg EXCEPT ![t] = None]
           /\ seen' = [seen EXCEPT ![t] = {}] /\ UNCHANGED <<blocklist, mode>>
    BY <1>3 DEF Reject, UdpSend, TcpSend, Forget, admin
  <2>2. SeenOK(t)'
    BY <1>t, <2>1 DEF SeenOK, Handling, Counted, Unblocked
  <2>3. seen' \in [Tasks -> SUBSET (BOOLEAN \X Modes)]
    BY <1>t, <2>1
  <2>4. \A u \in Tasks \ {t} :
           req'[u] = req[u] /\ cfg'[u] = cfg[u] /\ seen'[u] = seen[u]
    BY <1>t, <2>1
  <2> QED
    BY <2>1, <2>2, <2>3, <2>4, OneSeen
<1>4. ASSUME NEW t \in Tasks, Parse(t) PROVE Seen'
  <2>1. /\ pc' = [pc EXCEPT ![t] = "check"] /\ pc[t] = "parse"
        /\ req[t] # Malformed /\ cfg' = [cfg EXCEPT ![t] = mode]
        /\ UNCHANGED <<req, seen, blocklist, mode>>
    BY <1>4 DEF Parse, admin
  <2>2. <<IsBlocked(req[t].question), mode>> \in seen[t]
    BY <2>1 DEF Seen, SeenOK, Handling
  <2>3. pc'[t] = "check" /\ cfg'[t] = mode
    BY <1>t, <2>1
  <2>4. \E s \in seen[t] : s[2] = mode
    BY <2>2
  <2>5. IsBlocked(req[t].question)' = IsBlocked(req[t].question)
    BY <2>1 DEF IsBlocked
  <2>6. SeenOK(t)'
    BY <2>1, <2>2, <2>3, <2>4, <2>5 DEF SeenOK, Unblocked
  <2> QED
    BY <1>t, <2>1, <2>6, OneSeen
<1>5. ASSUME NEW t \in Tasks, Blocked(t) \/ Hit(t) \/ Wake(t) PROVE Seen'
  <2>1. /\ pc' = [pc EXCEPT ![t] = "send"]
        /\ UNCHANGED <<req, cfg, seen, blocklist, mode>>
    BY <1>5 DEF Blocked, Hit, Wake, Finish, admin
  <2>2. SeenOK(t)'
    BY <1>t, <2>1 DEF SeenOK, Handling, Counted, Unblocked
  <2> QED
    BY <1>t, <2>1, <2>2, OneSeen
<1>6. ASSUME NEW t \in Tasks, Allowed(t) PROVE Seen'
  <2>1. /\ pc' = [pc EXCEPT ![t] = "lookup"] /\ pc[t] = "check"
        /\ ~IsBlocked(req[t].question)
        /\ UNCHANGED <<req, cfg, seen, blocklist, mode>>
    BY <1>6 DEF Allowed, admin
  <2>2. SeenOK(t) /\ req[t] # Malformed
    BY <2>1, PipelineAssumption DEF Seen, Control, Counted
  <2>3. /\ <<IsBlocked(req[t].question), mode>> \in seen[t]
        /\ \E s \in seen[t] : s[2] = cfg[t]
    BY <2>1, <2>2 DEF SeenOK, Handling, Counted
  <2>4. IsBlocked(req[t].question)' = IsBlocked(req[t].question)
    BY <2>1 DEF IsBlocked
  <2>5. \E s \in seen[t] : ~s[1]
    <3> DEFINE b == IsBlocked(req[t].question)
    <3>1. b \in BOOLEAN
      BY DEF IsBlocked
    <3> HIDE DEF b
    <3>2. ~b /\ <<b, mode>> \in seen[t]
      BY <2>1, <2>3 DEF b
    <3> QED
      BY <3>1, <3>2
  <2>7. SeenOK(t)'
    BY <2>1, <2>3, <2>4, <2>5 DEF SeenOK
  <2> QED
    BY <1>t, <2>1, <2>7, OneSeen
<1>7. ASSUME NEW t \in Tasks, Miss(t) \/ JoinLate(t) \/ Lead(t) \/ Follow(t)
      PROVE  Seen'
  <2>1. PICK p \in Unblocked :
           /\ pc' = [pc EXCEPT ![t] = p] /\ pc[t] \in Unblocked
           /\ UNCHANGED <<req, cfg, seen, blocklist, mode>>
    BY <1>7 DEF Miss, JoinLate, Lead, Follow, Unblocked, admin
  <2>2. SeenOK(t)'
    BY <1>t, <2>1 DEF Seen, SeenOK, IsBlocked, Handling, Counted, Unblocked
  <2> QED
    BY <1>t, <2>1, <2>2, OneSeen
<1>8. ASSUME NEW t \in Tasks, Complete(t) \/ Fail(t) PROVE Seen'
  <2>1. /\ pc' = [u \in Tasks |-> IF u \in Sharing(t) THEN "woken" ELSE pc[u]]
        /\ pc[t] = "lead" /\ UNCHANGED <<req, cfg, seen, blocklist, mode>>
    BY <1>8 DEF Complete, Fail, Settle, admin
  <2>2. \A u \in Tasks : pc'[u] = pc[u] \/ (pc[u] \in Unblocked /\ pc'[u] = "woken")
    BY <2>1 DEF Sharing, Unblocked
  <2>3. \A u \in Tasks : SeenOK(u)'
    BY <2>1, <2>2 DEF Seen, SeenOK, IsBlocked, Handling, Counted, Unblocked
  <2> QED
    BY <1>t, <2>1, <2>3 DEF Seen
<1>9. ASSUME (\E names \in Blocklists : SetBlocklist(names)) \/ StoreConfig
      PROVE  Seen'
  <2>1. Witness /\ UNCHANGED <<pc, req, cfg>>
    BY <1>9 DEF SetBlocklist, StoreConfig
  <2> QED
    BY <2>1, WitnessSeen DEF Globals
<1>10. ASSUME UNCHANGED <<pc, req, cfg, seen, blocklist, mode>> PROVE Seen'
  BY <1>10 DEF Seen, SeenOK, IsBlocked
<1>11. ASSUME \/ UdpDrop
              \/ \E t \in Tasks : Forward(t)
              \/ \E k \in Keys : Expire(k)
              \/ Drain
              \/ Refill
              \/ \E list \in ServerLists, m \in Modes : SetServers(list, m)
              \/ UNCHANGED vars
       PROVE  UNCHANGED <<pc, req, cfg, seen, blocklist, mode>>
  BY <1>11 DEF UdpDrop, Forward, Expire, Drain, Refill, SetServers, taskvars, admin,
               vars
<1> QED
  BY <1>1, <1>2, <1>3, <1>4, <1>5, <1>6, <1>7, <1>8, <1>9, <1>10, <1>11
  DEF Next, Arrive, Step

\* The histories say what the service's promise is about.
LEMMA AlwaysSeen == Spec => []Seen
  BY InitSeen, NextSeen, AlwaysControl, AlwaysGlobals, AlwaysAnswers, PTL DEF Spec

\* The pipeline is type correct: in particular the pool and the two channels
\* stay within their sizes.
THEOREM PipelineTypes == Spec => []TypeOK
<1>1. /\ Control /\ Up!TypeOK /\ Flights /\ Globals /\ Answers /\ Ledgers /\ Seen
      => TypeOK
  <2> SUFFICES ASSUME Control, Up!TypeOK, Flights, Globals, Answers, Ledgers, Seen
               PROVE  TypeOK
    OBVIOUS
  <2>1. Cardinality(Occupying) \in Nat
    BY Countable DEF Occupying
  <2>2. inflight \in 0 .. Inflight
    BY <2>1, InflightType DEF Ledgers
  <2> QED
    BY <2>2 DEF TypeOK, Control, Flights, Globals, Answers, Seen
<1> QED
  BY <1>1, AlwaysControl, AlwaysUpstream, AlwaysFlights, AlwaysGlobals, AlwaysAnswers,
     AlwaysLedgers, AlwaysSeen, PTL

-----------------------------------------------------------------------------
\* A packet waits for its answer exactly while handle() has it.
LEMMA PendingIsHandled ==
  ASSUME Control, Answers, NEW t \in Tasks
  PROVE  Service!Pending(t) <=> (pc[t] \in Handling /\ req[t] # Malformed)
<1>1. CASE pc[t] \in {"idle", "read"}
  BY <1>1, PipelineAssumption DEF Control, Service!Pending, Handling, Counted
<1>2. CASE pc[t] = "send"
  BY <1>2, PipelineAssumption
  DEF Answers, AnswerOK, Service!Pending, Handling, Counted
<1>3. CASE pc[t] \in Handling
  BY <1>3, PipelineAssumption
  DEF Control, Answers, AnswerOK, Service!Pending, Handling, Counted
<1> QED
  BY <1>1, <1>2, <1>3 DEF Control, Points

\* handle() returns: the answer the service allows.
LEMMA FinishAnswersClient ==
  ASSUME Control, Answers, NEW t \in Tasks, NEW n, NEW r \in Reply,
         pc[t] \in Counted, Finish(t, n, r), UNCHANGED <<req, seen, blocklist, mode>>,
         r.id = req[t].id, Service!Block(t, r) \/ Service!Resolve(t, r)
  PROVE  Service!Next
<1>1. Service!Pending(t)
  <2>1. req[t] # Malformed
    BY Packet, PipelineAssumption
  <2> QED
    BY <2>1, PendingIsHandled DEF Handling
<1>2. reply' = [reply EXCEPT ![t] = r]
  BY DEF Finish
<1>3. Service!Answer(t, r)
  BY <1>1, <1>2 DEF Service!Answer
<1> QED
  BY <1>3 DEF Service!Next

\* A message under a key is about the name and the type of the key.
LEMMA KeyFields ==
  ASSUME NEW t, NEW q, CacheKey(q) = Key(t)
  PROVE  q.name = req[t].question.name /\ q.rtype = req[t].question.rtype
<1>1. /\ CacheKey(q).name = q.name /\ CacheKey(q).rtype = q.rtype
      /\ Key(t).name = req[t].question.name /\ Key(t).rtype = req[t].question.rtype
  BY DEF CacheKey, Key
<1> QED
  BY <1>1

\* Every step of the pipeline is a step of the service or invisible to it.
LEMMA ServiceStep ==
  /\ Control /\ Globals /\ Globals' /\ Answers /\ Answers' /\ Seen /\ [Next]_vars
  => [Service!Next]_Service!vars
<1> SUFFICES ASSUME Control, Globals, Globals', Answers, Answers', Seen, [Next]_vars
             PROVE  [Service!Next]_Service!vars
  OBVIOUS
<1>1. ASSUME NEW t \in Tasks, NEW p \in Requests \cup {Malformed},
             UdpRecv(t, p) \/ TcpRecv(t, p)
      PROVE  Service!Next
  <2>1. /\ pc[t] \in {"idle", "read"} /\ req' = [req EXCEPT ![t] = p]
        /\ seen' = [seen EXCEPT ![t] = InForce(p)]
        /\ UNCHANGED <<reply, blocklist, mode>>
    BY <1>1 DEF UdpRecv, TcpRecv, Admit, admin
  <2>2. req[t] = None
    BY <2>1 DEF Control
  <2>3. Service!Ask(t, p)
    BY <2>1, <2>2 DEF Service!Ask, InForce, IsBlocked
  <2> QED
    BY <2>3 DEF Service!Next
<1>2. ASSUME NEW t \in Tasks, Reject(t) \/ UdpSend(t) \/ TcpSend(t)
      PROVE  Service!Next
  <2>1. /\ req' = [req EXCEPT ![t] = None] /\ reply' = [reply EXCEPT ![t] = None]
        /\ seen' = [seen EXCEPT ![t] = {}] /\ UNCHANGED <<blocklist, mode>>
        /\ req[t] = Malformed \/ pc[t] = "send"
    BY <1>2 DEF Reject, UdpSend, TcpSend, Forget, admin
  <2>2. req[t] = Malformed \/ reply[t] # None
    BY <2>1, PipelineAssumption DEF Answers, AnswerOK
  <2>3. Service!Over(t)
    BY <2>1, <2>2 DEF Service!Over
  <2> QED
    BY <2>3 DEF Service!Next
<1>3. ASSUME NEW t \in Tasks, Blocked(t) PROVE Service!Next
  <2> DEFINE kind == BuildBlocked(cfg[t], req[t].question.rtype)
  <2>1. /\ pc[t] = "check" /\ Finish(t, "blocked", Own(t, kind))
        /\ IsBlocked(req[t].question)
        /\ UNCHANGED <<req, seen, blocklist, mode>>
    BY <1>3 DEF Blocked, admin
  <2>2. kind \in Kinds
    BY DEF BuildBlocked, Kinds
  <2>3. /\ Own(t, kind) \in Reply /\ Own(t, kind).id = req[t].id
        /\ Own(t, kind).question = req[t].question /\ Own(t, kind).kind = kind
    BY <2>1, <2>2, Packet DEF Own, Reply, Counted
  <2>4. SeenOK(t) /\ req[t] # Malformed
    BY <2>1, PipelineAssumption DEF Seen, Control, Counted
  <2>5. \E s \in seen[t] : s[1]
    <3> DEFINE b == IsBlocked(req[t].question)
    <3>1. b \in BOOLEAN
      BY DEF IsBlocked
    <3>2. b /\ <<b, mode>> \in seen[t]
      BY <2>1, <2>4 DEF SeenOK, Handling, Counted
    <3> HIDE DEF b
    <3> QED
      BY <3>1, <3>2
  <2>6. PICK s \in seen[t] : s[2] = cfg[t]
    BY <2>1, <2>4 DEF SeenOK, Counted
  <2>7. Own(t, kind).kind = BuildBlocked(s[2], Own(t, kind).question.rtype)
    BY <2>3, <2>6
  <2>8. Service!Block(t, Own(t, kind))
    BY <2>3, <2>5, <2>7 DEF Service!Block
  <2> HIDE DEF kind
  <2> QED
    BY <2>1, <2>3, <2>8, FinishAnswersClient DEF Counted
<1>4. ASSUME NEW t \in Tasks, NEW n, NEW r, Finish(t, n, r), pc[t] \in Unblocked,
             r.kind \in {"answer", "servfail"}, UNCHANGED <<req, seen, blocklist, mode>>
      PROVE  Service!Next
  <2>1. reply'[t] = r /\ pc'[t] = "send"
    BY <1>4 DEF Finish, Answers, Control
  <2>2. Key(t)' = Key(t) /\ req'[t] = req[t]
    BY <1>4 DEF Key
  <2>3. r \in Reply /\ r.id = req[t].id /\ CacheKey(r.question) = Key(t)
    BY <2>1, <2>2 DEF Answers, AnswerOK
  <2>4. \E s \in seen[t] : ~s[1]
    BY <1>4 DEF Seen, SeenOK
  <2>5. Service!Resolve(t, r)
    BY <1>4, <2>3, <2>4, KeyFields DEF Service!Resolve
  <2> QED
    BY <1>4, <2>3, <2>5, FinishAnswersClient DEF Unblocked, Counted
<1>5. ASSUME NEW t \in Tasks, Hit(t) PROVE Service!Next
  <2>1. PatchId(cache[Key(t)], req[t].id).kind = "answer"
    BY DEF PatchId
  <2>2. /\ pc[t] = "lookup" /\ UNCHANGED <<req, seen, blocklist, mode>>
        /\ Finish(t, "cache_hits", PatchId(cache[Key(t)], req[t].id))
    BY <1>5 DEF Hit, admin
  <2> QED
    BY <1>4, <2>1, <2>2 DEF Unblocked
<1>6. ASSUME NEW t \in Tasks, Wake(t) PROVE Service!Next
  <2>1. /\ PatchId(outcome[t], req[t].id).kind = "answer"
        /\ Own(t, "servfail").kind = "servfail"
    BY DEF PatchId, Own
  <2>2. /\ pc[t] = "woken" /\ UNCHANGED <<req, seen, blocklist, mode>>
        /\ \/ Finish(t, "upstream_errors", Own(t, "servfail"))
           \/ Finish(t, "forwarded", PatchId(outcome[t], req[t].id))
    BY <1>6 DEF Wake, admin
  <2> QED
    BY <1>4, <2>1, <2>2 DEF Unblocked
<1>7. ASSUME (\E names \in Blocklists : SetBlocklist(names)) \/ StoreConfig
      PROVE  Service!Next
  <2>1. Witness /\ UNCHANGED <<req, reply>>
    BY <1>7 DEF SetBlocklist, StoreConfig
  <2>2. blocklist' \in Blocklists /\ mode' \in Modes
    BY DEF Globals
  <2>3. \A t \in Tasks : Service!Pending(t)
                           <=> (pc[t] \in Handling /\ req[t] # Malformed)
    BY PendingIsHandled
  <2>4. Service!Edit
    BY <2>1, <2>2, <2>3 DEF Witness, Service!Edit
  <2> QED
    BY <2>4 DEF Service!Next
<1>8. ASSUME UNCHANGED <<req, reply, seen, blocklist, mode>>
      PROVE  UNCHANGED Service!vars
  BY <1>8 DEF Service!vars
<1>9. ASSUME NEW t \in Tasks,
             \/ TcpDrop(t) \/ TcpAccept(t) \/ TcpClose(t) \/ Parse(t) \/ Allowed(t)
             \/ Miss(t) \/ JoinLate(t) \/ Lead(t) \/ Follow(t) \/ Forward(t)
             \/ Complete(t) \/ Fail(t)
      PROVE  UNCHANGED <<req, reply, seen, blocklist, mode>>
  BY <1>9 DEF TcpDrop, TcpAccept, TcpClose, Parse, Allowed, Miss, JoinLate, Lead,
              Follow, Forward, Complete, Fail, taskvars, admin
<1>10. ASSUME \/ UdpDrop
              \/ \E k \in Keys : Expire(k)
              \/ Drain
              \/ Refill
              \/ \E list \in ServerLists, m \in Modes : SetServers(list, m)
              \/ UNCHANGED vars
       PROVE  UNCHANGED <<req, reply, seen, blocklist, mode>>
  BY <1>10 DEF UdpDrop, Expire, Drain, Refill, SetServers, taskvars, admin, vars
<1> QED
  BY <1>1, <1>2, <1>3, <1>5, <1>6, <1>7, <1>8, <1>9, <1>10 DEF Next, Arrive, Step

\* The pipeline, with its cache, its shared upstream calls and its admin API,
\* keeps the promise of DnsService: one reply per packet, under the client's
\* own id, about the name and type it asked for, and one that a blocklist and a
\* mode in force since the packet arrived call for.
THEOREM PipelineServesClients == Spec => ServesClients
<1>1. Init => Service!Init
  BY DEF Init, Service!Init
<1>2. /\ Control /\ Globals /\ Globals' /\ Answers /\ Answers' /\ Seen /\ [Next]_vars
      => [Service!Next]_Service!vars
  BY ServiceStep
<1> QED
  BY <1>1, <1>2, AlwaysControl, AlwaysGlobals, AlwaysAnswers, AlwaysSeen, PTL
  DEF Spec, ServesClients, Service!Spec

=============================================================================
