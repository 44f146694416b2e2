---------------------------- MODULE UpstreamRate ----------------------------
(***************************************************************************)
(* How much traffic Upstream::resolve sends: module Upstream with the      *)
(* second cut into Quota slots, at the end of each of which the limiter    *)
(* gets a cell back, and with history variables: what happens in the       *)
(* current second, and which servers a call has given up on.  No action of *)
(* Upstream depends on them.                                               *)
(***************************************************************************)
EXTENDS Upstream

VARIABLES slot,     \* how many slots of the current second are over
          granted,  \* calls that passed until_ready() in the current second
          sent,     \* queries put on the wire in the current second
          asked     \* the servers a call has given up on, in order

meter == <<slot, granted, sent>>
rvars == <<vars, meter, asked>>

RateTypeOK ==
    /\ TypeOK
    /\ slot \in 0 .. Quota - 1
    /\ granted \in Nat
    /\ sent \in Nat
    /\ asked \in [Callers -> Seq(Servers)]

RateInit ==
    /\ Init
    /\ slot = 0 /\ granted = 0 /\ sent = 0
    /\ asked = [c \in Callers |-> <<>>]

\* A slot ends; the bucket does not fill above its burst size.
EndOfSlot ==
    /\ Replenish \/ (tokens = Quota /\ UNCHANGED vars)
    /\ slot' = IF slot + 1 = Quota THEN 0 ELSE slot + 1
    /\ granted' = IF slot' = 0 THEN 0 ELSE granted
    /\ sent' = IF slot' = 0 THEN 0 ELSE sent
    /\ UNCHANGED asked

Granted(c) ==
    /\ UntilReady(c)
    /\ granted' = granted + 1
    /\ UNCHANGED <<slot, sent, asked>>

OnTheWire(c) ==
    /\ SendUdp(c) \/ SendTcp(c)
    /\ sent' = sent + 1
    /\ UNCHANGED <<slot, granted, asked>>

Unmetered(c) ==
    /\ \/ /\ \/ \E q \in Query : Resolve(c, q)
             \/ Acquire(c)
             \/ Truncated(c)
             \/ \E m \in Message : Accept(c, m)
          /\ UNCHANGED asked
       \/ GiveUp(c) /\ asked' = [asked EXCEPT ![c] = Append(@, Head(rest[c]))]
       \/ Return(c) /\ asked' = [asked EXCEPT ![c] = <<>>]
    /\ UNCHANGED meter

RateNext ==
    \/ \E c \in Callers : Granted(c) \/ OnTheWire(c) \/ Unmetered(c)
    \/ \E list \in ServerLists : SetServers(list) /\ UNCHANGED <<meter, asked>>
    \/ EndOfSlot

RateSpec == RateInit /\ [][RateNext]_rvars

-----------------------------------------------------------------------------
\* The rate limiter: in a second, no more calls pass until_ready() than the
\* burst the bucket held plus the cells that came back since the second began.
GrantBound == granted + tokens <= Quota + slot

\* What the two limits together really bound: a granted call may put two
\* queries (UDP, then TCP) per configured server on the wire, and calls that
\* were granted in an earlier second, at most one per permit, may still do so.
WireBound ==
    \E list \in ServerLists \cup {<<>>} :
        sent <= 2 * Len(list) * (granted + Permits)

\* A call goes through one list that was configured, however often set_servers
\* swaps it meanwhile: what it has given up on and what it has left make up that
\* list, so no server of it is skipped or asked again, and a call that fails has
\* asked all of it (resolve iterates over the snapshot of load_full).
OneList ==
    \A c \in Callers :
        /\ upc[c] \in {"dial", "udp", "tcp", "tcpread"} =>
              asked[c] \o rest[c] \in ServerLists
        /\ upc[c] = "err" => asked[c] \in ServerLists \cup {<<>>}

\* config.rs says of max_qps: "Hard ceiling on queries-per-second toward
\* upstream."  No second carries more queries than that.
HardCeiling == sent <= Quota

=============================================================================
