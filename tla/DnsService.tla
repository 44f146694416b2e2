----------------------------- MODULE DnsService -----------------------------
(***************************************************************************)
(* What a client of the resolver is promised, whatever happens inside: a   *)
(* query is answered at most once, under its own id, and with a reply that *)
(* some blocklist and sinkhole mode in force since its arrival call for.   *)
(* There is no cache, no upstream and no order of processing here.         *)
(***************************************************************************)
CONSTANTS Clients,      \* handlers of packets
          Requests,     \* well-formed queries
          Malformed,    \* a packet without a question
          None,
          Blocklists,   \* sets of names that may be blocked
          Modes,        \* sinkhole modes
          Replies,      \* responses: kind, id and question
          Sinkhole(_, _)  \* the kind of the answer for a blocked name

VARIABLES asked,      \* the packet of each client
          answer,     \* the response to it
          inforce,    \* pairs <<blocked?, mode>> in force since it arrived
          blocklist, mode

vars == <<asked, answer, inforce, blocklist, mode>>

Init ==
    /\ asked = [c \in Clients |-> None]
    /\ answer = [c \in Clients |-> None]
    /\ inforce = [c \in Clients |-> {}]
    /\ blocklist \in Blocklists
    /\ mode \in Modes

Pending(c) == asked[c] \in Requests /\ answer[c] = None

Ask(c, p) ==
    /\ asked[c] = None
    /\ asked' = [asked EXCEPT ![c] = p]
    /\ inforce' = [inforce EXCEPT ![c] =
                      IF p = Malformed THEN {}
                      ELSE {<<p.question.name \in blocklist, mode>>}]
    /\ UNCHANGED <<answer, blocklist, mode>>

\* The packet has no answer, or its answer goes out: either way it is over.
Over(c) ==
    /\ asked[c] = Malformed \/ answer[c] # None
    /\ asked' = [asked EXCEPT ![c] = None]
    /\ answer' = [answer EXCEPT ![c] = None]
    /\ inforce' = [inforce EXCEPT ![c] = {}]
    /\ UNCHANGED <<blocklist, mode>>

\* The sinkhole's answer to a query for a blocked name.
Block(c, r) ==
    /\ r.question = asked[c].question
    /\ \E s \in inforce[c] : s[1]
    /\ \E s \in inforce[c] : r.kind = Sinkhole(s[2], r.question.rtype)

\* The upstream's answer about the name and type, or a failure.
Resolve(c, r) ==
    /\ r.question.name = asked[c].question.name
    /\ r.question.rtype = asked[c].question.rtype
    /\ r.kind \in {"answer", "servfail"}
    /\ \E s \in inforce[c] : ~s[1]

Answer(c, r) ==
    /\ Pending(c)
    /\ r.id = asked[c].id
    /\ Block(c, r) \/ Resolve(c, r)
    /\ answer' = [answer EXCEPT ![c] = r]
    /\ UNCHANGED <<asked, inforce, blocklist, mode>>

\* An admin changes the list or the mode under the pending queries.
Edit ==
    /\ blocklist' \in Blocklists
    /\ mode' \in Modes
    /\ inforce' = [c \in Clients |->
                      IF Pending(c)
                        THEN inforce[c] \cup
                                {<<asked[c].question.name \in blocklist', mode'>>}
                        ELSE inforce[c]]
    /\ UNCHANGED <<asked, answer>>

Next ==
    \/ \E c \in Clients :
          \/ \E p \in Requests \cup {Malformed} : Ask(c, p)
          \/ \E r \in Replies : Answer(c, r)
          \/ Over(c)
    \/ Edit

Spec == Init /\ [][Next]_vars
=============================================================================
