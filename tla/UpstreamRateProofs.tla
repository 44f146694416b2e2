------------------------- MODULE UpstreamRateProofs -------------------------
(***************************************************************************)
(* Proofs about UpstreamRate: the rate limiter keeps its bound in every    *)
(* second, and with the semaphore it bounds what goes on the wire.         *)
(***************************************************************************)
EXTENDS UpstreamRate, UpstreamProofs

-----------------------------------------------------------------------------
\* Counting does not change what resolve() does.
LEMMA RateStep == RateNext => [Next]_vars
  BY DEF RateNext, Granted, OnTheWire, Unmetered, EndOfSlot, Next, Progress

\* Every behaviour with the counters is a behaviour of Upstream.
LEMMA RateImplements == RateSpec => Spec
<1>1. RateInit => Init
  BY DEF RateInit
<1>2. [RateNext]_rvars => [Next]_vars
  BY RateStep DEF rvars
<1> QED
  BY <1>1, <1>2, PTL DEF RateSpec, Spec

\* So the permits are conserved there as well.
THEOREM RatePermits == RateSpec => []PermitsConserved
  BY RateImplements, UpstreamInvariant, PTL

-----------------------------------------------------------------------------
\* Which servers a call asks.

Attempt == {"dial", "udp", "tcp", "tcpread"}

\* Before its first attempt a call has given up on nothing; from then on, what it
\* has given up on and what it has left make up one list.
AskedOK(c) ==
    /\ upc[c] \in {"idle", "sem", "limit"} => asked[c] = <<>>
    /\ upc[c] \in Attempt => asked[c] \o rest[c] \in ServerLists
    /\ upc[c] = "err" => asked[c] \in ServerLists \cup {<<>>}

AskedInv ==
    /\ asked \in [Callers -> Seq(Servers)]
    /\ servers \in ServerLists \cup {<<>>}
    /\ \A c \in Callers : AskedOK(c)

\* The server that is given up on moves from one part of the list to the other.
LEMMA MovesOver ==
  ASSUME NEW S, NEW a \in Seq(S), NEW r \in Seq(S), r # <<>>
  PROVE  /\ Append(a, Head(r)) \in Seq(S)
         /\ Append(a, Head(r)) \o Tail(r) = a \o r
         /\ Tail(r) \in Seq(S)
<1> DEFINE h == Head(r)
           t == Tail(r)
           b == Append(a, h)
           m == Len(a)
           n == Len(r)
<1>1. m \in Nat /\ n \in Nat /\ n # 0
  BY LenProperties, EmptySeq
<1>2. /\ h \in S /\ t \in Seq(S) /\ Len(t) = n - 1
      /\ \A i \in 1 .. Len(t) : t[i] = r[i + 1]
  BY HeadTailProperties
<1>3. h = r[1]
  BY HeadTailProperties
<1> HIDE DEF h, t
<1>4. /\ b \in Seq(S) /\ Len(b) = m + 1
      /\ \A i \in 1 .. m : b[i] = a[i] /\ b[m + 1] = h
  BY <1>2, AppendProperties
<1>5. b[m + 1] = h
  BY <1>2, AppendProperties
<1> HIDE DEF b
<1>6. /\ b \o t \in Seq(S) /\ Len(b \o t) = (m + 1) + (n - 1)
      /\ \A i \in 1 .. (m + 1) + (n - 1) :
            (b \o t)[i] = IF i <= m + 1 THEN b[i] ELSE t[i - (m + 1)]
  <2>1. /\ b \o t \in Seq(S) /\ Len(b \o t) = Len(b) + Len(t)
        /\ \A i \in 1 .. Len(b) + Len(t) :
              (b \o t)[i] = IF i <= Len(b) THEN b[i] ELSE t[i - Len(b)]
    BY <1>2, <1>4, ConcatProperties
  <2>2. Len(b) = m + 1 /\ Len(t) = n - 1
    BY <1>2, <1>4
  <2> HIDE DEF m, n
  <2> QED
    BY <2>1, <2>2
<1>7. /\ a \o r \in Seq(S) /\ Len(a \o r) = m + n
      /\ \A i \in 1 .. m + n : (a \o r)[i] = IF i <= m THEN a[i] ELSE r[i - m]
  BY ConcatProperties
<1> HIDE DEF m, n
<1>8. (m + 1) + (n - 1) = m + n
  BY <1>1
<1>9. ASSUME NEW i \in 1 .. m + n PROVE (b \o t)[i] = (a \o r)[i]
  <2>1. CASE i <= m
    <3>1. i \in 1 .. m /\ i <= m + 1
      BY <1>1, <2>1
    <3> QED
      BY <1>4, <1>6, <1>7, <1>8, <2>1, <3>1
  <2>2. CASE i = m + 1
    <3>1. ~(i <= m) /\ i <= m + 1 /\ i - m = 1
      BY <1>1, <2>2
    <3> QED
      BY <1>3, <1>5, <1>6, <1>7, <1>8, <2>2, <3>1
  <2>3. CASE i > m + 1
    <3>1. /\ ~(i <= m) /\ ~(i <= m + 1) /\ i - (m + 1) \in 1 .. n - 1
          /\ (i - (m + 1)) + 1 = i - m
      BY <1>1, <2>3
    <3>2. t[i - (m + 1)] = r[i - m]
      BY <1>2, <3>1
    <3> QED
      BY <1>6, <1>7, <1>8, <3>1, <3>2
  <2>4. i <= m \/ i = m + 1 \/ i > m + 1
    BY <1>1
  <2> QED
    BY <2>1, <2>2, <2>3, <2>4
<1>10. b \o t = a \o r
  BY <1>6, <1>7, <1>8, <1>9, SeqEqual
<1> QED
  BY <1>2, <1>4, <1>10 DEF b, h, t

\* A step of one call leaves the others alone.
LEMMA OtherAsked ==
  ASSUME AskedInv, TypeOK, TypeOK', NEW c \in Callers, servers' = servers,
         asked' \in [Callers -> Seq(Servers)], AskedOK(c)',
         \A d \in Callers \ {c} : /\ upc'[d] = upc[d] /\ rest'[d] = rest[d]
                                  /\ asked'[d] = asked[d]
  PROVE  AskedInv'
<1>1. ASSUME NEW d \in Callers, d # c PROVE AskedOK(d)'
  BY <1>1 DEF AskedInv, AskedOK
<1> QED
  BY <1>1 DEF AskedInv

\* One case per action.
LEMMA AskedStep ==
  AskedInv /\ TypeOK /\ TypeOK' /\ CallsOK /\ [RateNext]_rvars => AskedInv'
<1> SUFFICES ASSUME AskedInv, TypeOK, TypeOK', CallsOK, [RateNext]_rvars
             PROVE  AskedInv'
  OBVIOUS
<1>t. /\ upc \in [Callers -> Points] /\ rest \in [Callers -> Seq(Servers)]
      /\ asked \in [Callers -> Seq(Servers)] /\ servers \in Seq(Servers)
  BY DEF TypeOK, AskedInv
<1>1. ASSUME NEW c \in Callers, Granted(c) PROVE AskedInv'
  <2>1. asked[c] = <<>> /\ asked' = asked /\ servers' = servers
    BY <1>1 DEF Granted, UntilReady, AskedInv, AskedOK
  <2>2. \/ upc' = [upc EXCEPT ![c] = "err"] /\ rest' = rest
        \/ /\ servers # <<>> /\ upc' = [upc EXCEPT ![c] = "dial"]
           /\ rest' = [rest EXCEPT ![c] = servers]
    BY <1>1 DEF Granted, UntilReady
  <2>3. <<>> \o servers = servers
    BY <1>t, ConcatEmptySeq
  <2>4. servers # <<>> => servers \in ServerLists
    BY DEF AskedInv
  <2>5. AskedOK(c)'
    BY <1>t, <2>1, <2>2, <2>3, <2>4 DEF AskedOK, Attempt
  <2> QED
    BY <1>t, <2>1, <2>2, <2>5, OtherAsked
<1>2. ASSUME NEW c \in Callers, OnTheWire(c) PROVE AskedInv'
  <2>1. /\ UNCHANGED <<asked, servers, rest>> /\ upc[c] \in Attempt
        /\ \E p \in Attempt : upc' = [upc EXCEPT ![c] = p]
    BY <1>2 DEF OnTheWire, SendUdp, SendTcp, Attempt
  <2>2. AskedOK(c)'
    BY <1>t, <2>1 DEF AskedInv, AskedOK, Attempt
  <2> QED
    BY <1>t, <2>1, <2>2, OtherAsked
<1>3. ASSUME NEW c \in Callers, Unmetered(c) PROVE AskedInv'
  <2>1. CASE (\E q \in Query : Resolve(c, q)) \/ Acquire(c)
    <3>1. /\ UNCHANGED <<asked, servers, rest>> /\ upc[c] \in {"idle", "sem"}
          /\ \E p \in {"sem", "limit"} : upc' = [upc EXCEPT ![c] = p]
      BY <1>3, <2>1 DEF Unmetered, Resolve, Acquire, Truncated, Accept, GiveUp, Return
    <3>2. AskedOK(c)'
      BY <1>t, <3>1 DEF AskedInv, AskedOK, Attempt
    <3> QED
      BY <1>t, <3>1, <3>2, OtherAsked
  <2>2. CASE Truncated(c) /\ UNCHANGED asked
    <3>1. /\ UNCHANGED <<asked, servers, rest>> /\ upc[c] = "udp"
          /\ upc' = [upc EXCEPT ![c] = "tcp"]
      BY <2>2 DEF Truncated
    <3>2. AskedOK(c)'
      BY <1>t, <3>1 DEF AskedInv, AskedOK, Attempt
    <3> QED
      BY <1>t, <3>1, <3>2, OtherAsked
  <2>3. CASE (\E m \in Message : Accept(c, m)) /\ UNCHANGED asked
    <3>1. /\ UNCHANGED <<asked, servers>> /\ rest' = [rest EXCEPT ![c] = <<>>]
          /\ upc' = [upc EXCEPT ![c] = "ok"]
      BY <2>3 DEF Accept
    <3>2. AskedOK(c)'
      BY <1>t, <3>1 DEF AskedOK, Attempt
    <3> QED
      BY <1>t, <3>1, <3>2, OtherAsked
  <2>4. CASE GiveUp(c) /\ asked' = [asked EXCEPT ![c] = Append(@, Head(rest[c]))]
    <3> DEFINE a == asked[c]
               r == rest[c]
    <3>1. /\ servers' = servers /\ upc[c] \in Attempt
          /\ asked' = [asked EXCEPT ![c] = Append(a, Head(r))]
          /\ rest' = [rest EXCEPT ![c] = Tail(r)]
          /\ \/ upc' = [upc EXCEPT ![c] = "dial"]
             \/ Len(r) = 1 /\ upc' = [upc EXCEPT ![c] = "err"]
      BY <2>4 DEF GiveUp, Attempt
    <3>2. a \in Seq(Servers) /\ r \in Seq(Servers) /\ r # <<>>
      <4>1. Len(r) # 0
        BY <3>1 DEF CallsOK, CallOK, Attempt
      <4> QED
        BY <1>t, <4>1, EmptySeq
    <3>3. a \o r \in ServerLists
      BY <3>1 DEF AskedInv, AskedOK
    <3> HIDE DEF a, r
    <3>4. /\ Append(a, Head(r)) \in Seq(Servers) /\ Tail(r) \in Seq(Servers)
          /\ Append(a, Head(r)) \o Tail(r) \in ServerLists
      BY <3>2, <3>3, MovesOver
    <3>5. Len(r) = 1 => Append(a, Head(r)) \o Tail(r) = Append(a, Head(r))
      <4>1. Len(r) = 1 => Len(Tail(r)) = 0
        BY <3>2, HeadTailProperties
      <4>2. Len(r) = 1 => Tail(r) = <<>>
        BY <3>4, <4>1, EmptySeq
      <4> QED
        BY <3>4, <4>2, ConcatEmptySeq
    <3>6. asked'[c] = Append(a, Head(r)) /\ rest'[c] = Tail(r)
      BY <1>t, <3>1
    <3>7. AskedOK(c)'
      BY <1>t, <3>1, <3>4, <3>5, <3>6 DEF AskedOK, Attempt
    <3> QED
      BY <1>t, <3>1, <3>4, <3>7, OtherAsked
  <2>5. CASE Return(c) /\ asked' = [asked EXCEPT ![c] = <<>>]
    <3>1. UNCHANGED <<servers, rest>> /\ upc' = [upc EXCEPT ![c] = "idle"]
      BY <2>5 DEF Return
    <3>2. AskedOK(c)'
      BY <1>t, <2>5, <3>1 DEF AskedOK, Attempt
    <3> QED
      BY <1>t, <2>5, <3>1, <3>2, OtherAsked
  <2> QED
    BY <1>3, <2>1, <2>2, <2>3, <2>4, <2>5 DEF Unmetered
<1>4. ASSUME NEW list \in ServerLists, SetServers(list), UNCHANGED <<meter, asked>>
      PROVE  AskedInv'
  BY <1>4 DEF SetServers, AskedInv, AskedOK
<1>5. ASSUME EndOfSlot \/ UNCHANGED rvars PROVE AskedInv'
  <2>1. UNCHANGED <<servers, upc, rest, asked>>
    BY <1>5 DEF EndOfSlot, Replenish, rvars, vars
  <2> QED
    BY <2>1 DEF AskedInv, AskedOK
<1> QED
  BY <1>1, <1>2, <1>3, <1>4, <1>5 DEF RateNext

\* The invariant about the servers of a call.
LEMMA AlwaysAsked == RateSpec => []AskedInv
<1>1. RateInit => AskedInv
  BY DEF RateInit, Init, AskedInv, AskedOK, Attempt
<1>2. AskedInv /\ TypeOK /\ TypeOK' /\ CallsOK /\ [RateNext]_rvars => AskedInv'
  BY AskedStep
<1>3. RateSpec => [](TypeOK /\ CallsOK)
  BY RateImplements, UpstreamInvariant, ResolveAnswers, PTL
<1> QED
  BY <1>1, <1>2, <1>3, PTL DEF RateSpec

\* Whatever lists an operator sets, and whenever: a call asks the servers of one
\* of them, in its order, and fails only after the last (upstream.rs resolve, which
\* iterates over a snapshot).
THEOREM CallsKeepTheirList == RateSpec => []OneList
<1>1. AskedInv => OneList
  BY DEF AskedInv, AskedOK, OneList, Attempt
<1> QED
  BY <1>1, AlwaysAsked, PTL

-----------------------------------------------------------------------------
\* The counters.

MeterOK ==
    /\ slot \in 0 .. Quota - 1
    /\ granted \in Nat
    /\ sent \in Nat
    /\ GrantBound

\* The counters, given the types of Upstream before and after the step.
LEMMA MeterStep ==
  MeterOK /\ TypeOK /\ TypeOK' /\ [RateNext]_rvars => MeterOK'
<1> SUFFICES ASSUME MeterOK, TypeOK, TypeOK', [RateNext]_rvars
             PROVE  MeterOK'
  OBVIOUS
<1> USE LimitsPositive
<1>0. tokens \in 0 .. Quota /\ tokens' \in 0 .. Quota
  BY DEF TypeOK
<1>1. ASSUME NEW c \in Callers, Granted(c) PROVE MeterOK'
  BY <1>0, <1>1 DEF Granted, UntilReady, MeterOK, GrantBound
<1>2. ASSUME NEW c \in Callers, OnTheWire(c) PROVE MeterOK'
  <2>1. sent' = sent + 1 /\ UNCHANGED <<tokens, slot, granted>>
    BY <1>2 DEF OnTheWire, SendUdp, SendTcp
  <2> QED
    BY <2>1 DEF MeterOK, GrantBound
<1>3. ASSUME NEW c \in Callers, Unmetered(c) PROVE MeterOK'
  <2>1. UNCHANGED <<tokens, slot, granted, sent>>
    BY <1>3 DEF Unmetered, Resolve, Acquire, Truncated, Accept, GiveUp, Return,
                meter
  <2> QED
    BY <2>1 DEF MeterOK, GrantBound
<1>4. ASSUME NEW list \in ServerLists, SetServers(list), UNCHANGED <<meter, asked>>
      PROVE  MeterOK'
  BY <1>4 DEF SetServers, meter, MeterOK, GrantBound
<1>5. ASSUME EndOfSlot PROVE MeterOK'
  <2>1. tokens' = IF tokens < Quota THEN tokens + 1 ELSE tokens
    BY <1>0, <1>5 DEF EndOfSlot, Replenish, vars
  <2>2. CASE slot + 1 = Quota
    BY <1>0, <1>5, <2>1, <2>2 DEF EndOfSlot, MeterOK, GrantBound
  <2>3. CASE slot + 1 # Quota
    BY <1>0, <1>5, <2>1, <2>3 DEF EndOfSlot, MeterOK, GrantBound
  <2> QED
    BY <2>2, <2>3
<1>6. CASE UNCHANGED rvars
  BY <1>6 DEF rvars, vars, meter, MeterOK, GrantBound
<1> QED
  BY <1>1, <1>2, <1>3, <1>4, <1>5, <1>6 DEF RateNext

\* The limiter keeps its promise in every second, for every quota.
THEOREM RateInvariant == RateSpec => [](RateTypeOK /\ GrantBound)
<1>1. RateInit => MeterOK
  BY LimitsPositive DEF RateInit, Init, MeterOK, GrantBound
<1>2. MeterOK /\ TypeOK /\ TypeOK' /\ [RateNext]_rvars => MeterOK'
  BY MeterStep
<1>3. TypeOK /\ MeterOK /\ AskedInv => RateTypeOK /\ GrantBound
  BY DEF RateTypeOK, MeterOK, AskedInv
<1>4. RateSpec => []TypeOK
  BY RateImplements, UpstreamInvariant, PTL
<1> QED
  BY <1>1, <1>2, <1>3, <1>4, AlwaysAsked, PTL DEF RateSpec

\* The metered resolver is type correct.
THEOREM RateTypes == RateSpec => []RateTypeOK
  BY RateInvariant, PTL

-----------------------------------------------------------------------------
\* The queries each caller may still put on the wire before it must come back
\* to the limiter: two per server it has left, one less once the UDP query is
\* out, two less once the TCP query is.
Left ==
    [c \in Callers |->
        IF upc[c] = "dial" THEN 2 * Len(rest[c])
        ELSE IF upc[c] \in {"udp", "tcp"} THEN 2 * Len(rest[c]) - 1
        ELSE IF upc[c] = "tcpread" THEN 2 * Len(rest[c]) - 2
        ELSE 0]

\* The same as a set, one ticket per query, so that it can be counted.
Tickets(left) == {x \in Callers \X Nat : x[2] < left[x[1]]}

\* The numbers below k.
LEMMA Below ==
  ASSUME NEW k \in Nat
  PROVE  IsFiniteSet(0 .. k - 1) /\ Cardinality(0 .. k - 1) = k
<1>1. 0 \in Int /\ k - 1 \in Int
  OBVIOUS
<1>2. /\ IsFiniteSet(0 .. k - 1)
      /\ Cardinality(0 .. k - 1) = IF 0 > k - 1 THEN 0 ELSE k - 1 - 0 + 1
  BY <1>1, FS_Interval
<1> QED
  BY <1>2

\* A bounded number of tickets per caller that has any.
LEMMA TicketsBound ==
  ASSUME NEW left \in [Callers -> Nat], NEW n \in Nat, NEW H \in SUBSET Callers,
         \A c \in Callers : left[c] <= n,
         \A c \in Callers \ H : left[c] = 0
  PROVE  /\ IsFiniteSet(Tickets(left))
         /\ Cardinality(Tickets(left)) \in Nat
         /\ Cardinality(Tickets(left)) <= Cardinality(H) * n
<1>1. IsFiniteSet(H)
  BY UpstreamAssumption, FS_Subset
<1>2. IsFiniteSet(0 .. n - 1) /\ Cardinality(0 .. n - 1) = n
  BY Below
<1>3. /\ IsFiniteSet(H \X (0 .. n - 1))
      /\ Cardinality(H \X (0 .. n - 1)) = Cardinality(H) * n
  BY <1>1, <1>2, FS_Product
<1>4. Tickets(left) \subseteq H \X (0 .. n - 1)
  BY DEF Tickets
<1> QED
  BY <1>3, <1>4, FS_Subset, FS_CardinalityType

\* A query put on the wire uses one ticket up.
LEMMA TicketSpent ==
  ASSUME NEW left \in [Callers -> Nat], IsFiniteSet(Tickets(left)),
         NEW c \in Callers, left[c] > 0
  PROVE  LET after == [left EXCEPT ![c] = @ - 1]
         IN  Cardinality(Tickets(after)) = Cardinality(Tickets(left)) - 1
<1> DEFINE after == [left EXCEPT ![c] = @ - 1]
           x == <<c, left[c] - 1>>
<1>1. Tickets(after) = Tickets(left) \ {x}
  BY DEF Tickets
<1>2. x \in Tickets(left)
  BY DEF Tickets
<1> HIDE DEF x, after
<1>3. Cardinality(Tickets(after)) = Cardinality(Tickets(left)) - 1
  BY <1>1, <1>2, FS_RemoveElement
<1> QED
  BY <1>3 DEF after

\* Whoever gives tickets up leaves no more than there were.
LEMMA TicketsDropped ==
  ASSUME NEW left \in [Callers -> Nat], IsFiniteSet(Tickets(left)),
         NEW after \in [Callers -> Nat], \A c \in Callers : after[c] <= left[c]
  PROVE  /\ Cardinality(Tickets(after)) \in Nat
         /\ Cardinality(Tickets(after)) <= Cardinality(Tickets(left))
<1>1. Tickets(after) \subseteq Tickets(left)
  BY DEF Tickets
<1> QED
  BY <1>1, FS_Subset, FS_CardinalityType

\* A granted call gets its own.
LEMMA TicketsGranted ==
  ASSUME NEW left \in [Callers -> Nat], IsFiniteSet(Tickets(left)),
         NEW c \in Callers, NEW k \in Nat
  PROVE  LET after == [left EXCEPT ![c] = k]
         IN  /\ Cardinality(Tickets(after)) \in Nat
             /\ Cardinality(Tickets(after)) <= Cardinality(Tickets(left)) + k
<1> DEFINE after == [left EXCEPT ![c] = k]
           own   == {c} \X (0 .. k - 1)
<1>1. IsFiniteSet(own) /\ Cardinality(own) = k
  <2>1. IsFiniteSet(0 .. k - 1) /\ Cardinality(0 .. k - 1) = k
    BY Below
  <2>2. IsFiniteSet({c}) /\ Cardinality({c}) = 1
    BY FS_Singleton
  <2>3. IsFiniteSet(own) /\ Cardinality(own) = Cardinality({c}) * Cardinality(0 .. k - 1)
    BY <2>1, <2>2, FS_Product
  <2> HIDE DEF own
  <2> QED
    BY <2>1, <2>2, <2>3
<1>2. Tickets(after) \subseteq Tickets(left) \cup own
  BY DEF Tickets
<1>3. /\ IsFiniteSet(Tickets(left) \cup own)
      /\ Cardinality(Tickets(left) \cup own)
           = Cardinality(Tickets(left)) + k - Cardinality(Tickets(left) \cap own)
      /\ Cardinality(Tickets(left) \cap own) \in Nat
      /\ Cardinality(Tickets(left)) \in Nat
  BY <1>1, FS_Union, FS_Intersection, FS_CardinalityType
<1>4. /\ IsFiniteSet(Tickets(after))
      /\ Cardinality(Tickets(after)) <= Cardinality(Tickets(left) \cup own)
  BY <1>2, <1>3, FS_Subset
<1>5. Cardinality(Tickets(after)) \in Nat
  BY <1>4, FS_CardinalityType
<1> HIDE DEF own
<1> QED
  BY <1>3, <1>4, <1>5

\* A longer list allows at least as much.
LEMMA LongerAllowsMore ==
  \A a, b, c \in Nat : a <= b => 2 * a * c <= 2 * b * c
  OBVIOUS

\* A grant raises the bound by two queries per server.
LEMMA GrantAllowsMore ==
  \A n, g, p \in Nat : 2 * n * ((g + 1) + p) = 2 * n * (g + p) + 2 * n
  OBVIOUS

\* The budget for lists of up to n servers: what was sent this second and what
\* may still be sent without asking the limiter again.
WithinBudget(n) ==
    /\ Len(servers) <= n
    /\ \A c \in Callers : Len(rest[c]) <= n
    /\ sent + Cardinality(Tickets(Left)) <= 2 * n * (granted + Permits)

\* The longest list so far pays for everything.
WireInv ==
    \E list \in ServerLists \cup {<<>>} : WithinBudget(Len(list))

\* Only a caller that holds a permit has tickets, two per server at the most.
LeftOK ==
    /\ Left \in [Callers -> Nat]
    /\ \A c \in Callers : Left[c] <= 2 * Len(rest[c])
    /\ \A c \in Callers \ Holders : Left[c] = 0

\* An attempt has a server left, so the number of tickets is never negative.
LEMMA LeftType == TypeOK /\ CallsOK => LeftOK
<1> SUFFICES ASSUME TypeOK, CallsOK PROVE LeftOK
  OBVIOUS
<1>1. ASSUME NEW c \in Callers
      PROVE  /\ Left[c] \in Nat
             /\ Left[c] <= 2 * Len(rest[c])
             /\ c \notin Holders => Left[c] = 0
  <2> DEFINE len == Len(rest[c])
  <2>1. len \in Nat
    BY LenProperties DEF TypeOK
  <2>2. upc[c] \in {"dial", "udp", "tcp", "tcpread"} => len # 0
    BY DEF CallsOK, CallOK
  <2>3. c \notin Holders => upc[c] \notin {"dial", "udp", "tcp", "tcpread"}
    BY DEF Holders, Holding
  <2>4. Left[c] = IF upc[c] = "dial" THEN 2 * len
                  ELSE IF upc[c] \in {"udp", "tcp"} THEN 2 * len - 1
                  ELSE IF upc[c] = "tcpread" THEN 2 * len - 2
                  ELSE 0
    BY DEF Left
  <2> HIDE DEF len
  <2>5. Left[c] \in Nat /\ Left[c] <= 2 * len /\ (c \notin Holders => Left[c] = 0)
    BY <2>1, <2>2, <2>3, <2>4
  <2> QED
    BY <2>5 DEF len
<1>2. Left \in [Callers -> Nat]
  BY <1>1 DEF Left
<1> QED
  BY <1>1, <1>2 DEF LeftOK

\* What the steps below need to know of a state.
WireTypes ==
    /\ TypeOK
    /\ PermitsConserved
    /\ CallsOK
    /\ LeftOK
    /\ granted \in Nat
    /\ sent \in Nat

\* It is known of every state.
LEMMA AlwaysWireTypes == RateSpec => []WireTypes
<1>1. TypeOK /\ PermitsConserved /\ CallsOK /\ RateTypeOK => WireTypes
  BY LeftType DEF WireTypes, RateTypeOK
<1> QED
  BY <1>1, RateImplements, RateInvariant, UpstreamInvariant, ResolveAnswers, PTL

\* The number of tickets, when no list is longer than n.
LEMMA TicketsCounted ==
  ASSUME WireTypes, NEW n \in Nat, \A c \in Callers : Len(rest[c]) <= n
  PROVE  /\ IsFiniteSet(Tickets(Left))
         /\ Cardinality(Tickets(Left)) \in Nat
         /\ Cardinality(Tickets(Left)) <= 2 * n * Permits
<1>1. ASSUME NEW c \in Callers PROVE Left[c] <= 2 * n
  <2> DEFINE len == Len(rest[c])
  <2>1. len \in Nat
    BY LenProperties DEF WireTypes, TypeOK
  <2>2. Left[c] \in Nat /\ Left[c] <= 2 * len /\ len <= n
    BY DEF WireTypes, LeftOK
  <2> HIDE DEF len
  <2> QED
    BY <2>1, <2>2
<1>2. Left \in [Callers -> Nat] /\ \A c \in Callers \ Holders : Left[c] = 0
  BY DEF WireTypes, LeftOK
<1>3. Holders \in SUBSET Callers /\ 2 * n \in Nat
  BY DEF Holders
<1>4. /\ IsFiniteSet(Tickets(Left))
      /\ Cardinality(Tickets(Left)) \in Nat
      /\ Cardinality(Tickets(Left)) <= Cardinality(Holders) * (2 * n)
  BY <1>1, <1>2, <1>3, TicketsBound
<1>5. Cardinality(Holders) <= Permits /\ Cardinality(Holders) \in Nat
  <2>1. permits \in Nat /\ permits + Cardinality(Holders) = Permits
    BY LimitsPositive DEF WireTypes, TypeOK, PermitsConserved, Holders
  <2> QED
    BY <2>1, HoldersFinite, LimitsPositive
<1>6. \A h, p, m, k \in Nat : h <= p /\ k <= h * m => k <= m * p
  OBVIOUS
<1>7. Cardinality(Tickets(Left)) <= 2 * n * Permits
  BY <1>3, <1>4, <1>5, <1>6, LimitsPositive
<1> QED
  BY <1>4, <1>7

\* A step after which nobody has more tickets than before.
LEMMA QuietWire ==
  ASSUME WireTypes, WireTypes', NEW n \in Nat, WithinBudget(n),
         Len(servers') <= n, \A c \in Callers : Len(rest'[c]) <= n,
         \A c \in Callers : Left'[c] <= Left[c],
         UNCHANGED <<granted, sent>>
  PROVE  WithinBudget(n)'
<1>1. Left \in [Callers -> Nat] /\ Left' \in [Callers -> Nat]
  BY DEF WireTypes, LeftOK
<1>2. IsFiniteSet(Tickets(Left)) /\ Cardinality(Tickets(Left)) \in Nat
  BY TicketsCounted DEF WithinBudget
<1>3. /\ Cardinality(Tickets(Left')) \in Nat
      /\ Cardinality(Tickets(Left')) <= Cardinality(Tickets(Left))
  BY <1>1, <1>2, TicketsDropped
<1>4. Tickets(Left)' = Tickets(Left')
  BY DEF Tickets
<1>5. /\ sent + Cardinality(Tickets(Left)) <= 2 * n * (granted + Permits)
      /\ sent \in Nat /\ granted \in Nat /\ 2 * n * (granted + Permits) \in Nat
  BY LimitsPositive DEF WithinBudget, WireTypes
<1>6. sent + Cardinality(Tickets(Left')) <= 2 * n * (granted + Permits)
  BY <1>2, <1>3, <1>5
<1> QED
  BY <1>4, <1>6 DEF WithinBudget

\* SendUdp and SendTcp spend the ticket they need.
LEMMA SendWire ==
  ASSUME WireTypes, NEW n \in Nat, WithinBudget(n), NEW c \in Callers, OnTheWire(c)
  PROVE  WithinBudget(n)'
<1>1. Left \in [Callers -> Nat] /\ upc \in [Callers -> Points]
  BY DEF WireTypes, LeftOK, TypeOK
<1>2. IsFiniteSet(Tickets(Left)) /\ Cardinality(Tickets(Left)) \in Nat
  BY TicketsCounted DEF WithinBudget
<1>3. /\ sent' = sent + 1 /\ UNCHANGED <<granted, servers, rest>>
      /\ \/ upc[c] = "dial" /\ upc' = [upc EXCEPT ![c] = "udp"]
         \/ upc[c] = "tcp" /\ upc' = [upc EXCEPT ![c] = "tcpread"]
  BY DEF OnTheWire, SendUdp, SendTcp
<1>4. Len(rest[c]) \in Nat \ {0}
  BY <1>3 DEF WireTypes, CallsOK, CallOK
<1>5. Left[c] > 0 /\ Left' = [Left EXCEPT ![c] = @ - 1]
  <2> DEFINE len == Len(rest[c])
  <2>1. /\ Left[c] = IF upc[c] = "dial" THEN 2 * len ELSE 2 * len - 1
        /\ Left'[c] = IF upc[c] = "dial" THEN 2 * len - 1 ELSE 2 * len - 2
    BY <1>1, <1>3 DEF Left
  <2>2. len \in Nat /\ len # 0
    BY <1>4
  <2>3. \A d \in Callers \ {c} : Left'[d] = Left[d]
    BY <1>1, <1>3 DEF Left
  <2> HIDE DEF len
  <2>4. Left[c] > 0 /\ Left'[c] = Left[c] - 1
    BY <2>1, <2>2
  <2>5. Left' = [d \in Callers |-> Left'[d]]
    BY DEF Left
  <2> QED
    BY <1>1, <2>3, <2>4, <2>5
<1>6. Cardinality(Tickets(Left')) = Cardinality(Tickets(Left)) - 1
  BY <1>1, <1>2, <1>5, TicketSpent
<1>7. Tickets(Left)' = Tickets(Left')
  BY DEF Tickets
<1>8. /\ sent + Cardinality(Tickets(Left)) <= 2 * n * (granted + Permits)
      /\ sent \in Nat /\ granted \in Nat /\ 2 * n * (granted + Permits) \in Nat
  BY LimitsPositive DEF WithinBudget, WireTypes
<1>9. sent' + Cardinality(Tickets(Left')) <= 2 * n * (granted' + Permits)
  BY <1>2, <1>3, <1>6, <1>8
<1> QED
  BY <1>3, <1>7, <1>9 DEF WithinBudget

\* A granted call gets tickets for the list it loads, and pays with its grant.
LEMMA GrantWire ==
  ASSUME WireTypes, NEW n \in Nat, WithinBudget(n), NEW c \in Callers, Granted(c)
  PROVE  WithinBudget(n)'
<1>1. /\ Left \in [Callers -> Nat] /\ upc \in [Callers -> Points]
      /\ rest \in [Callers -> Seq(Servers)] /\ servers \in Seq(Servers)
  BY DEF WireTypes, LeftOK, TypeOK
<1>2. IsFiniteSet(Tickets(Left)) /\ Cardinality(Tickets(Left)) \in Nat
  BY TicketsCounted DEF WithinBudget
<1>3. /\ granted' = granted + 1 /\ UNCHANGED <<sent, servers>> /\ upc[c] = "limit"
      /\ \/ upc' = [upc EXCEPT ![c] = "err"] /\ rest' = rest
         \/ /\ upc' = [upc EXCEPT ![c] = "dial"]
            /\ rest' = [rest EXCEPT ![c] = servers]
  BY DEF Granted, UntilReady
<1>4. PICK k \in Nat : k <= 2 * n /\ Left' = [Left EXCEPT ![c] = k]
  <2> DEFINE len == Len(servers)
  <2>1. len \in Nat /\ len <= n
    BY <1>1, LenProperties DEF WithinBudget
  <2>2. Left'[c] = 0 \/ Left'[c] = 2 * len
    BY <1>1, <1>3 DEF Left
  <2>3. \A d \in Callers \ {c} : Left'[d] = Left[d]
    BY <1>1, <1>3 DEF Left
  <2>4. Left' = [d \in Callers |-> Left'[d]]
    BY DEF Left
  <2> HIDE DEF len
  <2>5. Left'[c] \in Nat /\ Left'[c] <= 2 * n
    BY <2>1, <2>2
  <2>6. Left' = [Left EXCEPT ![c] = Left'[c]]
    BY <1>1, <2>3, <2>4
  <2> QED
    BY <2>5, <2>6
<1>5. /\ Cardinality(Tickets(Left')) \in Nat
      /\ Cardinality(Tickets(Left')) <= Cardinality(Tickets(Left)) + k
  BY <1>1, <1>2, <1>4, TicketsGranted
<1>6. Tickets(Left)' = Tickets(Left')
  BY DEF Tickets
<1>7. /\ sent + Cardinality(Tickets(Left)) <= 2 * n * (granted + Permits)
      /\ sent \in Nat /\ granted \in Nat /\ 2 * n * (granted + Permits) \in Nat
  BY LimitsPositive DEF WithinBudget, WireTypes
<1>8. 2 * n * (granted' + Permits) = 2 * n * (granted + Permits) + 2 * n
  BY <1>3, <1>7, GrantAllowsMore, LimitsPositive
<1>9. sent' + Cardinality(Tickets(Left')) <= 2 * n * (granted' + Permits)
  BY <1>2, <1>3, <1>4, <1>5, <1>7, <1>8
<1>10. /\ Len(servers') <= n
       /\ \A d \in Callers : Len(rest'[d]) <= n
  BY <1>1, <1>3 DEF WithinBudget
<1> QED
  BY <1>6, <1>9, <1>10 DEF WithinBudget

\* A new second starts with the tickets of the calls still under way.
LEMMA SlotWire ==
  ASSUME WireTypes, NEW n \in Nat, WithinBudget(n), EndOfSlot
  PROVE  WithinBudget(n)'
<1>1. UNCHANGED <<servers, upc, rest>>
  BY DEF EndOfSlot, Replenish, vars
<1>2. Left' = Left
  BY <1>1 DEF Left
<1>3. Tickets(Left)' = Tickets(Left)
  BY <1>2 DEF Tickets
<1>4. \/ granted' = granted /\ sent' = sent
      \/ granted' = 0 /\ sent' = 0
  BY DEF EndOfSlot
<1>5. /\ Cardinality(Tickets(Left)) \in Nat
      /\ Cardinality(Tickets(Left)) <= 2 * n * Permits
  BY TicketsCounted DEF WithinBudget
<1>6. sent' + Cardinality(Tickets(Left)) <= 2 * n * (granted' + Permits)
  <2>1. CASE granted' = granted /\ sent' = sent
    BY <2>1 DEF WithinBudget
  <2>2. CASE granted' = 0 /\ sent' = 0
    BY <1>5, <2>2, LimitsPositive
  <2> QED
    BY <1>4, <2>1, <2>2
<1> QED
  BY <1>1, <1>3, <1>6 DEF WithinBudget

\* The steps that put nothing on the wire and are granted nothing.
LEMMA UnmeteredWire ==
  ASSUME WireTypes, WireTypes', NEW n \in Nat, WithinBudget(n),
         NEW c \in Callers, Unmetered(c)
  PROVE  WithinBudget(n)'
<1>t. /\ Left \in [Callers -> Nat] /\ upc \in [Callers -> Points]
      /\ rest \in [Callers -> Seq(Servers)]
  BY DEF WireTypes, LeftOK, TypeOK
<1>m. UNCHANGED <<servers, granted, sent>>
  BY DEF Unmetered, Resolve, Acquire, Truncated, Accept, GiveUp, Return, meter
<1>b. Len(servers) <= n /\ \A d \in Callers : Len(rest[d]) <= n
  BY DEF WithinBudget
<1>1. CASE \/ \E q \in Query : Resolve(c, q)
           \/ Acquire(c)
           \/ Return(c)
  <2>1. /\ rest' = rest /\ upc[c] \in {"idle", "sem", "ok", "err"}
        /\ \E p \in {"sem", "limit", "idle"} : upc' = [upc EXCEPT ![c] = p]
    BY <1>1 DEF Resolve, Acquire, Return
  <2>2. \A d \in Callers : Left'[d] = Left[d]
    BY <1>t, <2>1 DEF Left
  <2>3. \A d \in Callers : Left'[d] <= Left[d]
    BY <1>t, <2>2
  <2> QED
    BY <1>m, <1>b, <2>1, <2>3, QuietWire
<1>2. CASE Truncated(c)
  <2>1. rest' = rest /\ upc[c] = "udp" /\ upc' = [upc EXCEPT ![c] = "tcp"]
    BY <1>2 DEF Truncated
  <2>2. \A d \in Callers : Left'[d] = Left[d]
    BY <1>t, <2>1 DEF Left
  <2>3. \A d \in Callers : Left'[d] <= Left[d]
    BY <1>t, <2>2
  <2> QED
    BY <1>m, <1>b, <2>1, <2>3, QuietWire
<1>3. CASE \E m \in Message : Accept(c, m)
  <2>1. rest' = [rest EXCEPT ![c] = <<>>] /\ upc' = [upc EXCEPT ![c] = "ok"]
    BY <1>3 DEF Accept
  <2>2. Left'[c] = 0 /\ \A d \in Callers \ {c} : Left'[d] = Left[d]
    BY <1>t, <2>1 DEF Left
  <2>3. ASSUME NEW d \in Callers PROVE Left'[d] <= Left[d]
    <3>1. Left[d] \in Nat /\ (d = c \/ Left'[d] = Left[d])
      BY <1>t, <2>2
    <3> QED
      BY <2>2, <3>1
  <2>4. \A d \in Callers : Len(rest'[d]) <= n
    BY <1>t, <1>b, <2>1
  <2> QED
    BY <1>m, <1>b, <2>3, <2>4, QuietWire
<1>4. CASE GiveUp(c)
  <2> DEFINE len == Len(rest[c])
  <2>1. /\ rest' = [rest EXCEPT ![c] = Tail(rest[c])]
        /\ upc[c] \in {"dial", "udp", "tcp", "tcpread"}
        /\ \E p \in {"dial", "err"} : upc' = [upc EXCEPT ![c] = p]
    BY <1>4 DEF GiveUp
  <2>2. len \in Nat /\ len # 0 /\ len <= n
    BY <1>b, <2>1 DEF WireTypes, CallsOK, CallOK
  <2>3. Len(Tail(rest[c])) = len - 1
    <3>1. rest[c] # <<>>
      BY <2>2, EmptySeq
    <3> QED
      BY <1>t, <3>1, HeadTailProperties
  <2>4. rest'[c] = Tail(rest[c]) /\ \A d \in Callers \ {c} : rest'[d] = rest[d]
    BY <1>t, <2>1
  <2>5. /\ Left[c] \in {2 * len, 2 * len - 1, 2 * len - 2}
        /\ Left'[c] \in {0, 2 * Len(rest'[c])}
        /\ \A d \in Callers \ {c} : Left'[d] = Left[d]
    BY <1>t, <2>1, <2>4 DEF Left
  <2>6. Len(rest'[c]) = len - 1
    BY <2>3, <2>4
  <2> HIDE DEF len
  <2>7. Left'[c] <= Left[c] /\ Len(rest'[c]) <= n
    BY <2>2, <2>5, <2>6
  <2>8. ASSUME NEW d \in Callers PROVE Left'[d] <= Left[d] /\ Len(rest'[d]) <= n
    <3>1. /\ Left[d] \in Nat /\ Len(rest[d]) <= n
          /\ d = c \/ (Left'[d] = Left[d] /\ rest'[d] = rest[d])
      BY <1>t, <1>b, <2>4, <2>5
    <3> QED
      BY <2>7, <3>1
  <2> QED
    BY <1>m, <1>b, <2>8, QuietWire
<1> QED
  BY <1>1, <1>2, <1>3, <1>4 DEF Unmetered

\* The length of a list that may be configured.
LEMMA ListLen ==
  ASSUME NEW list \in ServerLists \cup {<<>>}
  PROVE  Len(list) \in Nat
  BY UpstreamAssumption, LenProperties

\* One step per action; only set_servers may need a longer list as witness.
LEMMA NextWire ==
  WireTypes /\ WireTypes' /\ WireInv /\ [RateNext]_rvars => WireInv'
<1> SUFFICES ASSUME WireTypes, WireTypes', WireInv, [RateNext]_rvars
             PROVE  WireInv'
  OBVIOUS
<1>1. PICK list \in ServerLists \cup {<<>>} : WithinBudget(Len(list))
  BY DEF WireInv
<1> DEFINE n == Len(list)
<1>2. n \in Nat /\ WithinBudget(n)
  BY <1>1, ListLen
<1>3. ASSUME WithinBudget(n)' PROVE WireInv'
  BY <1>1, <1>3 DEF WireInv
<1> HIDE DEF n
<1>4. ASSUME NEW c \in Callers, Granted(c) \/ OnTheWire(c) \/ Unmetered(c)
      PROVE  WireInv'
  BY <1>2, <1>3, <1>4, GrantWire, SendWire, UnmeteredWire
<1>5. ASSUME EndOfSlot PROVE WireInv'
  BY <1>2, <1>3, <1>5, SlotWire
<1>6. ASSUME NEW new \in ServerLists, SetServers(new), UNCHANGED <<meter, asked>>
      PROVE  WireInv'
  <2>1. servers' = new /\ UNCHANGED <<upc, rest, granted, sent>>
    BY <1>6 DEF SetServers, meter
  <2>2. Tickets(Left)' = Tickets(Left)
    BY <2>1 DEF Tickets, Left
  <2>3. /\ \A c \in Callers : Len(rest[c]) <= n /\ Len(rest[c]) \in Nat
        /\ sent + Cardinality(Tickets(Left)) <= 2 * n * (granted + Permits)
    BY <1>2, LenProperties DEF WithinBudget, WireTypes, TypeOK
  <2>4. Len(new) \in Nat
    BY ListLen
  <2>5. CASE Len(new) <= n
    BY <1>3, <2>1, <2>2, <2>3, <2>5 DEF WithinBudget
  <2>6. CASE n <= Len(new)
    <3> DEFINE m == Len(new)
    <3>1. m \in Nat /\ n <= m
      BY <2>4, <2>6
    <3>2. 2 * n * (granted + Permits) <= 2 * m * (granted + Permits)
      BY <1>2, <3>1, LongerAllowsMore, LimitsPositive DEF WireTypes
    <3>3. /\ Cardinality(Tickets(Left)) \in Nat /\ sent \in Nat
          /\ granted + Permits \in Nat
      BY <1>2, <2>3, TicketsCounted, LimitsPositive DEF WireTypes
    <3> HIDE DEF m
    <3>4. sent + Cardinality(Tickets(Left)) <= 2 * m * (granted + Permits)
      BY <1>2, <2>3, <3>1, <3>2, <3>3
    <3>5. \A c \in Callers : Len(rest[c]) <= m
      BY <1>2, <2>3, <3>1
    <3>6. Len(servers') <= m
      BY <2>1, <3>1 DEF m
    <3>7. WithinBudget(m)'
      BY <2>1, <2>2, <3>4, <3>5, <3>6 DEF WithinBudget
    <3> QED
      BY <3>7 DEF m, WireInv
  <2> QED
    BY <1>2, <2>4, <2>5, <2>6
<1>7. ASSUME UNCHANGED rvars PROVE WireInv'
  <2>1. UNCHANGED <<servers, upc, rest, granted, sent>>
    BY <1>7 DEF rvars, vars, meter
  <2>2. Tickets(Left)' = Tickets(Left)
    BY <2>1 DEF Tickets, Left
  <2> QED
    BY <1>2, <1>3, <2>1, <2>2 DEF WithinBudget
<1> QED
  BY <1>4, <1>5, <1>6, <1>7 DEF RateNext

\* Nothing is on the wire and nobody has a ticket.
LEMMA InitWire == RateInit => WireInv
<1> SUFFICES ASSUME RateInit PROVE WireInv
  OBVIOUS
<1>1. servers \in ServerLists \cup {<<>>}
  BY DEF RateInit, Init
<1> DEFINE n == Len(servers)
<1>2. n \in Nat
  BY <1>1, ListLen
<1>3. Tickets(Left) = {}
  BY DEF Tickets, Left, RateInit, Init
<1>4. Cardinality(Tickets(Left)) = 0 /\ sent = 0 /\ granted = 0
  BY <1>3, FS_EmptySet DEF RateInit
<1>5. \A c \in Callers : Len(rest[c]) = 0
  BY DEF RateInit, Init
<1>6. /\ Len(servers) <= n
      /\ \A c \in Callers : Len(rest[c]) <= n
  BY <1>2, <1>5
<1> HIDE DEF n
<1>7. 0 <= 2 * n * (0 + Permits)
  BY <1>2, LimitsPositive
<1>8. WithinBudget(n)
  BY <1>4, <1>6, <1>7 DEF WithinBudget
<1> QED
  BY <1>1, <1>8 DEF n, WireInv

\* What the two limits together bound: in any second no more queries leave
\* than two per server of some configured list, for each call granted in it and
\* for each permit, whatever the servers do and however often the operator
\* changes the list.
THEOREM RateWireBound == RateSpec => []WireBound
<1>1. WireTypes /\ WireInv => WireBound
  <2> SUFFICES ASSUME WireTypes, WireInv PROVE WireBound
    OBVIOUS
  <2>1. PICK list \in ServerLists \cup {<<>>} : WithinBudget(Len(list))
    BY DEF WireInv
  <2> DEFINE n == Len(list)
  <2>2. n \in Nat /\ WithinBudget(n)
    BY <2>1, ListLen
  <2>3. sent <= 2 * n * (granted + Permits)
    <3> HIDE DEF n
    <3>1. /\ Cardinality(Tickets(Left)) \in Nat
          /\ sent + Cardinality(Tickets(Left)) <= 2 * n * (granted + Permits)
      BY <2>2, TicketsCounted DEF WithinBudget
    <3>2. sent \in Nat /\ 2 * n * (granted + Permits) \in Nat
      BY <2>2, LimitsPositive DEF WireTypes
    <3> QED
      BY <3>1, <3>2
  <2> QED
    BY <2>1, <2>3 DEF WireBound
<1> QED
  BY <1>1, InitWire, NextWire, AlwaysWireTypes, PTL DEF RateSpec

=============================================================================
