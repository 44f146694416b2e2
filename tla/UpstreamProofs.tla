--------------------------- MODULE UpstreamProofs ---------------------------
(***************************************************************************)
(* Proofs about Upstream: the semaphore of resolve() is neither leaked nor *)
(* over-released, whatever the callers, the servers and the operator do.   *)
(***************************************************************************)
EXTENDS Upstream, FiniteSetTheorems, SequenceTheorems, TLAPS

Holders == {c \in Callers : upc[c] \in Holding}

\* The inductive invariant.  permits + 1 <= Permits is not a matter of types:
\* it needs PermitsConserved, which in turn needs permits to be a number.
Inv == TypeOK /\ PermitsConserved

-----------------------------------------------------------------------------
\* The limits the limiter and the semaphore start from are positive.
LEMMA LimitsPositive == Permits \in Nat \ {0} /\ Quota \in Nat \ {0}
  BY UpstreamAssumption DEF Permits, Quota, AtLeastOne

\* The callers that hold a permit can be counted.
LEMMA HoldersFinite ==
  IsFiniteSet(Holders) /\ Cardinality(Holders) \in Nat
<1>1. Holders \subseteq Callers
  BY DEF Holders
<1>2. IsFiniteSet(Holders)
  BY <1>1, UpstreamAssumption, FS_Subset
<1> QED
  BY <1>2, FS_CardinalityType

\* A list with a first element has a length other than zero.
LEMMA NonEmpty ==
  ASSUME NEW S, NEW s \in Seq(S), Len(s) > 1 \/ Len(s) = 1
  PROVE  Len(s) \in Nat /\ Len(s) # 0
<1>1. Len(s) \in Nat
  BY LenProperties
<1> QED
  BY <1>1

\* Stated for numbers: the provers do not see it of the length of a list.
LEMMA MoreThanOne == \A n \in Nat : n > 1 => n # 1
  OBVIOUS

\* A caller that starts to hold a permit adds one to the count.
LEMMA OneMore ==
  ASSUME upc \in [Callers -> Points], NEW c \in Callers, NEW p \in Holding,
         upc[c] \notin Holding, upc' = [upc EXCEPT ![c] = p]
  PROVE  Cardinality(Holders') = Cardinality(Holders) + 1
<1>1. Holders' = Holders \cup {c}
  BY DEF Holders
<1>2. c \notin Holders
  BY DEF Holders
<1> QED
  BY <1>1, <1>2, HoldersFinite, FS_AddElement

\* A caller that returns takes one off the count.
LEMMA OneLess ==
  ASSUME upc \in [Callers -> Points], NEW c \in Callers, NEW p,
         p \notin Holding, upc[c] \in Holding, upc' = [upc EXCEPT ![c] = p]
  PROVE  /\ Cardinality(Holders') = Cardinality(Holders) - 1
         /\ Cardinality(Holders) >= 1
<1>1. Holders' = Holders \ {c}
  BY DEF Holders
<1>2. c \in Holders
  BY DEF Holders
<1>3. Cardinality(Holders') = Cardinality(Holders) - 1
  BY <1>1, <1>2, HoldersFinite, FS_RemoveElement
<1>4. Cardinality(Holders') \in Nat
  BY <1>1, HoldersFinite, FS_RemoveElement, FS_CardinalityType
<1> QED
  BY <1>3, <1>4, HoldersFinite

\* Any other move of a caller leaves the count as it is.
LEMMA SameHolders ==
  ASSUME upc \in [Callers -> Points], NEW c \in Callers, NEW p,
         upc[c] \in Holding <=> p \in Holding, upc' = [upc EXCEPT ![c] = p]
  PROVE  Holders' = Holders
  BY DEF Holders

-----------------------------------------------------------------------------

\* All permits are free and nobody is inside resolve().
LEMMA InitInv == Init => Inv
<1> SUFFICES ASSUME Init PROVE Inv
  OBVIOUS
<1> USE LimitsPositive
<1>1. TypeOK
  <2>1. <<>> \in Seq(Servers)
    OBVIOUS
  <2>2. servers \in Seq(Servers)
    BY <2>1, UpstreamAssumption DEF Init
  <2>3. rest \in [Callers -> Seq(Servers)]
    BY <2>1 DEF Init
  <2> QED
    BY <2>2, <2>3 DEF Init, TypeOK, Points
<1>2. PermitsConserved
  <2>1. {c \in Callers : upc[c] \in Holding} = {}
    BY DEF Init, Holding
  <2>2. permits = Permits
    BY DEF Init
  <2> QED
    BY <2>1, <2>2, FS_EmptySet DEF PermitsConserved
<1> QED
  BY <1>1, <1>2 DEF Inv

\* One step per action; under it the type of what it writes and the count.
LEMMA NextInv == Inv /\ [Next]_vars => Inv'
<1> SUFFICES ASSUME Inv, [Next]_vars PROVE Inv'
  OBVIOUS
<1> USE LimitsPositive, HoldersFinite DEF Inv
<1>0. permits = Permits - Cardinality(Holders) /\ permits \in 0 .. Permits
  BY DEF PermitsConserved, Holders, TypeOK
<1>c. SUFFICES /\ TypeOK'
               /\ permits' + Cardinality(Holders') = Permits
  BY DEF PermitsConserved, Holders
<1>1. ASSUME NEW c \in Callers, NEW q \in Query, Resolve(c, q)
      PROVE  TypeOK' /\ permits' + Cardinality(Holders') = Permits
  <2>1. TypeOK'
    BY <1>1 DEF Resolve, TypeOK, Points
  <2>2. Holders' = Holders
    BY <1>1, SameHolders DEF Resolve, TypeOK, Holding
  <2> QED
    BY <1>0, <1>1, <2>1, <2>2 DEF Resolve
<1>2. ASSUME NEW c \in Callers, Acquire(c)
      PROVE  TypeOK' /\ permits' + Cardinality(Holders') = Permits
  <2>1. TypeOK'
    BY <1>2 DEF Acquire, TypeOK, Points, Holding
  <2>2. Cardinality(Holders') = Cardinality(Holders) + 1
    BY <1>2, OneMore DEF Acquire, TypeOK, Holding
  <2> QED
    BY <1>0, <1>2, <2>1, <2>2 DEF Acquire
<1>3. ASSUME NEW c \in Callers, UntilReady(c)
      PROVE  TypeOK' /\ permits' + Cardinality(Holders') = Permits
  <2>1. CASE servers = <<>>
    <3>1. /\ Cardinality(Holders') = Cardinality(Holders) - 1
          /\ Cardinality(Holders) >= 1
      BY <1>3, <2>1, OneLess DEF UntilReady, TypeOK, Holding
    <3>2. /\ upc' = [upc EXCEPT ![c] = "err"] /\ permits' = permits + 1
          /\ tokens' = tokens - 1 /\ tokens > 0
          /\ UNCHANGED <<servers, query, rest, wire>>
      BY <1>3, <2>1 DEF UntilReady
    <3>3. TypeOK'
      BY <1>0, <3>1, <3>2 DEF TypeOK, Points
    <3> QED
      BY <1>0, <3>1, <3>2, <3>3
  <2>2. CASE servers # <<>>
    <3>1. Holders' = Holders
      BY <1>3, <2>2, SameHolders DEF UntilReady, TypeOK, Holding
    <3>2. /\ upc' = [upc EXCEPT ![c] = "dial"]
          /\ rest' = [rest EXCEPT ![c] = servers]
          /\ tokens' = tokens - 1 /\ tokens > 0
          /\ UNCHANGED <<servers, permits, query, wire>>
      BY <1>3, <2>2 DEF UntilReady
    <3>3. TypeOK'
      BY <3>2 DEF TypeOK, Points, Holding
    <3> QED
      BY <1>0, <3>1, <3>2, <3>3
  <2> QED
    BY <2>1, <2>2
<1>4. ASSUME NEW c \in Callers, SendUdp(c) \/ Truncated(c) \/ SendTcp(c)
      PROVE  TypeOK' /\ permits' + Cardinality(Holders') = Permits
  <2>1. TypeOK'
    BY <1>4 DEF SendUdp, Truncated, SendTcp, TypeOK, Points, Holding
  <2>2. Holders' = Holders
    BY <1>4, SameHolders DEF SendUdp, Truncated, SendTcp, TypeOK, Holding
  <2> QED
    BY <1>0, <1>4, <2>1, <2>2 DEF SendUdp, Truncated, SendTcp
<1>5. ASSUME NEW c \in Callers, NEW m \in Message, Accept(c, m)
      PROVE  TypeOK' /\ permits' + Cardinality(Holders') = Permits
  <2>1. /\ Cardinality(Holders') = Cardinality(Holders) - 1
        /\ Cardinality(Holders) >= 1
    BY <1>5, OneLess DEF Accept, TypeOK, Holding
  <2>2. TypeOK'
    BY <1>0, <1>5, <2>1 DEF Accept, TypeOK, Points
  <2> QED
    BY <1>0, <1>5, <2>1, <2>2 DEF Accept
<1>6. ASSUME NEW c \in Callers, GiveUp(c)
      PROVE  TypeOK' /\ permits' + Cardinality(Holders') = Permits
  <2>0. /\ rest[c] \in Seq(Servers)
        /\ \/ /\ Len(rest[c]) > 1
              /\ upc' = [upc EXCEPT ![c] = "dial"] /\ permits' = permits
           \/ /\ Len(rest[c]) = 1
              /\ upc' = [upc EXCEPT ![c] = "err"] /\ permits' = permits + 1
        /\ rest' = [rest EXCEPT ![c] = Tail(rest[c])]
        /\ upc[c] \in Holding
        /\ UNCHANGED <<servers, tokens, query, wire>>
    BY <1>6 DEF GiveUp, TypeOK, Holding
  <2>l. Len(rest[c]) \in Nat /\ Len(rest[c]) # 0
    BY <2>0, NonEmpty
  <2>1. rest' \in [Callers -> Seq(Servers)]
    <3>1. rest[c] # <<>>
      BY <2>l, EmptySeq
    <3>2. Tail(rest[c]) \in Seq(Servers)
      BY <2>0, <3>1, HeadTailProperties
    <3> QED
      BY <2>0, <3>2 DEF TypeOK
  <2>2. CASE Len(rest[c]) > 1
    <3>1. upc' = [upc EXCEPT ![c] = "dial"] /\ permits' = permits
      BY <2>0, <2>2, <2>l
    <3>2. Holders' = Holders
      BY <2>0, <3>1, SameHolders DEF TypeOK, Holding
    <3>3. TypeOK'
      BY <2>0, <2>1, <3>1 DEF TypeOK, Points, Holding
    <3> QED
      BY <1>0, <3>1, <3>2, <3>3
  <2>3. CASE Len(rest[c]) = 1
    <3>1. upc' = [upc EXCEPT ![c] = "err"] /\ permits' = permits + 1
      BY <2>0, <2>3
    <3>2. /\ Cardinality(Holders') = Cardinality(Holders) - 1
          /\ Cardinality(Holders) >= 1
      BY <2>0, <3>1, OneLess DEF TypeOK, Holding
    <3>3. TypeOK'
      BY <1>0, <2>0, <2>1, <3>1, <3>2 DEF TypeOK, Points
    <3> QED
      BY <1>0, <3>1, <3>2, <3>3
  <2> QED
    BY <2>0, <2>2, <2>3
<1>7. ASSUME NEW c \in Callers, Return(c)
      PROVE  TypeOK' /\ permits' + Cardinality(Holders') = Permits
  <2>1. TypeOK'
    BY <1>7 DEF Return, TypeOK, Points
  <2>2. Holders' = Holders
    BY <1>7, SameHolders DEF Return, TypeOK, Holding
  <2> QED
    BY <1>0, <1>7, <2>1, <2>2 DEF Return
<1>8. ASSUME NEW list \in ServerLists, SetServers(list)
      PROVE  TypeOK' /\ permits' + Cardinality(Holders') = Permits
  <2>1. TypeOK'
    BY <1>8, UpstreamAssumption DEF SetServers, TypeOK
  <2> QED
    BY <1>0, <1>8, <2>1 DEF SetServers, Holders
<1>9. ASSUME Replenish
      PROVE  TypeOK' /\ permits' + Cardinality(Holders') = Permits
  <2>1. TypeOK'
    BY <1>9 DEF Replenish, TypeOK
  <2> QED
    BY <1>0, <1>9, <2>1 DEF Replenish, Holders
<1>10. ASSUME UNCHANGED vars
       PROVE  TypeOK' /\ permits' + Cardinality(Holders') = Permits
  BY <1>0, <1>10 DEF vars, TypeOK, Holders
<1> QED
  BY <1>1, <1>2, <1>3, <1>4, <1>5, <1>6, <1>7, <1>8, <1>9, <1>10
  DEF Next, Progress

\* resolve() is type correct and conserves the permits of its semaphore, for
\* any number of callers, any server lists and any limits.
THEOREM UpstreamInvariant == Spec => [](TypeOK /\ PermitsConserved)
<1>1. Init => Inv
  BY InitInv
<1>2. Inv /\ [Next]_vars => Inv'
  BY NextInv
<1> QED
  BY <1>1, <1>2, PTL DEF Spec, Inv

-----------------------------------------------------------------------------
\* A caller inside resolve() forwards a query, an attempt has a server left to
\* ask, and a call that succeeded returns a reply to the query it forwarded.
CallOK(c) ==
    /\ upc[c] # "idle" => query[c] \in Query
    /\ upc[c] \in {"dial", "udp", "tcp", "tcpread"} => Len(rest[c]) \in Nat \ {0}
    /\ upc[c] = "ok" => wire[c] \in Message /\ ValidResponse(query[c], wire[c])

CallsOK == \A c \in Callers : CallOK(c)

\* What a step of another caller leaves alone.
LEMMA OtherCall ==
  ASSUME CallsOK, NEW c \in Callers,
         \A d \in Callers \ {c} : /\ upc'[d] = upc[d] /\ query'[d] = query[d]
                                  /\ rest'[d] = rest[d] /\ wire'[d] = wire[d],
         CallOK(c)'
  PROVE  CallsOK'
  BY DEF CallsOK, CallOK

\* One step per action of a caller.
LEMMA CallsStep == TypeOK /\ CallsOK /\ [Next]_vars => CallsOK'
<1> SUFFICES ASSUME TypeOK, CallsOK, [Next]_vars PROVE CallsOK'
  OBVIOUS
<1>t. /\ upc \in [Callers -> Points] /\ query \in [Callers -> Query \cup {None}]
      /\ rest \in [Callers -> Seq(Servers)]
      /\ wire \in [Callers -> Message \cup {None}]
      /\ servers \in Seq(Servers)
  BY DEF TypeOK
<1>1. ASSUME NEW c \in Callers, NEW q \in Query, Resolve(c, q) PROVE CallsOK'
  <2>1. CallOK(c)'
    BY <1>t, <1>1 DEF Resolve, CallOK
  <2> QED
    BY <1>t, <1>1, <2>1, OtherCall DEF Resolve
<1>2. ASSUME NEW c \in Callers,
             Acquire(c) \/ SendUdp(c) \/ Truncated(c) \/ SendTcp(c)
      PROVE  CallsOK'
  <2>1. CallOK(c)'
    BY <1>t, <1>2 DEF Acquire, SendUdp, Truncated, SendTcp, CallsOK, CallOK
  <2> QED
    BY <1>t, <1>2, <2>1, OtherCall DEF Acquire, SendUdp, Truncated, SendTcp
<1>3. ASSUME NEW c \in Callers, UntilReady(c) PROVE CallsOK'
  <2>1. query[c] \in Query
    BY <1>3 DEF UntilReady, CallsOK, CallOK
  <2>2. CASE servers = <<>>
    <3>1. CallOK(c)'
      BY <1>t, <1>3, <2>1, <2>2 DEF UntilReady, CallOK
    <3> QED
      BY <1>t, <1>3, <2>2, <3>1, OtherCall DEF UntilReady
  <2>3. CASE servers # <<>>
    <3>1. Len(servers) \in Nat \ {0}
      BY <1>t, <2>3, LenProperties, EmptySeq
    <3>2. CallOK(c)'
      BY <1>t, <1>3, <2>1, <2>3, <3>1 DEF UntilReady, CallOK
    <3> QED
      BY <1>t, <1>3, <2>3, <3>2, OtherCall DEF UntilReady
  <2> QED
    BY <2>2, <2>3
<1>4. ASSUME NEW c \in Callers, NEW m \in Message, Accept(c, m) PROVE CallsOK'
  <2>1. CallOK(c)'
    BY <1>t, <1>4 DEF Accept, CallsOK, CallOK, ValidResponse
  <2> QED
    BY <1>t, <1>4, <2>1, OtherCall DEF Accept
<1>5. ASSUME NEW c \in Callers, GiveUp(c) PROVE CallsOK'
  <2>1. /\ rest[c] \in Seq(Servers) /\ query[c] \in Query /\ query' = query
        /\ Len(rest[c]) \in Nat \ {0}
        /\ rest' = [rest EXCEPT ![c] = Tail(rest[c])]
    BY <1>t, <1>5 DEF GiveUp, CallsOK, CallOK
  <2>2. Len(Tail(rest[c])) = Len(rest[c]) - 1
    <3>1. rest[c] # <<>>
      BY <2>1, EmptySeq
    <3> QED
      BY <2>1, <3>1, HeadTailProperties
  <2>3. rest'[c] = Tail(rest[c])
    BY <1>t, <2>1
  <2>d. \/ Len(rest[c]) > 1 /\ upc' = [upc EXCEPT ![c] = "dial"]
        \/ Len(rest[c]) = 1 /\ upc' = [upc EXCEPT ![c] = "err"]
    BY <1>5 DEF GiveUp
  <2>4. CASE Len(rest[c]) > 1
    <3>1. upc' = [upc EXCEPT ![c] = "dial"]
      BY <2>1, <2>d, <2>4, MoreThanOne
    <3>2. Len(rest'[c]) \in Nat \ {0}
      BY <2>1, <2>2, <2>3, <2>4
    <3>3. CallOK(c)'
      BY <1>t, <2>1, <3>1, <3>2 DEF CallOK
    <3> QED
      BY <1>t, <1>5, <2>1, <3>1, <3>3, OtherCall DEF GiveUp
  <2>5. CASE Len(rest[c]) = 1
    <3>1. upc' = [upc EXCEPT ![c] = "err"]
      BY <2>1, <2>d, <2>5
    <3>2. CallOK(c)'
      BY <1>t, <2>1, <3>1 DEF CallOK
    <3> QED
      BY <1>t, <1>5, <2>1, <3>1, <3>2, OtherCall DEF GiveUp
  <2> QED
    BY <2>d, <2>4, <2>5
<1>6. ASSUME NEW c \in Callers, Return(c) PROVE CallsOK'
  <2>1. CallOK(c)'
    BY <1>t, <1>6 DEF Return, CallOK
  <2> QED
    BY <1>t, <1>6, <2>1, OtherCall DEF Return
<1>7. ASSUME UNCHANGED <<upc, query, rest, wire>> PROVE CallsOK'
  BY <1>7 DEF CallsOK, CallOK
<1> QED
  BY <1>1, <1>2, <1>3, <1>4, <1>5, <1>6, <1>7
  DEF Next, Progress, SetServers, Replenish, vars

\* Whatever the servers send, resolve() only succeeds with a response that
\* carries the id and the question of the query it was called with, and it
\* never runs out of servers in the middle of an attempt.
THEOREM ResolveAnswers == Spec => []CallsOK
<1>1. Init => CallsOK
  BY DEF Init, CallsOK, CallOK
<1>2. TypeOK /\ CallsOK /\ [Next]_vars => CallsOK'
  BY CallsStep
<1> QED
  BY <1>1, <1>2, UpstreamInvariant, PTL DEF Spec

=============================================================================
