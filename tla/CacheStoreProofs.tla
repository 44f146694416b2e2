-------------------------- MODULE CacheStoreProofs --------------------------
(***************************************************************************)
(* Proofs about CacheStore, for every number of keys, capacity, batch size *)
(* and length of a behaviour.                                              *)
(***************************************************************************)
EXTENDS CacheStore, SequenceTheorems, TLAPS

\* A step that leaves the warm load alone leaves its two variables alone.
USE DEF load

-----------------------------------------------------------------------------
\* Facts about the helpers.

\* try_send appends or does nothing.
LEMMA TrySendType ==
  ASSUME NEW s \in Seq(Item), NEW x \in Item
  PROVE  TrySend(s, x) \in Seq(Item)
  BY DEF TrySend

\* A committed batch leaves rows.
LEMMA WrittenType ==
  ASSUME NEW rows \in [Keys -> Entry \cup {None}], NEW s \in Seq(Item)
  PROVE  Written(rows, s) \in [Keys -> Entry \cup {None}]
<1>1. ASSUME NEW k \in Keys, \E i \in DOMAIN s : IsLast(s, k, i)
      PROVE  s[CHOOSE i \in DOMAIN s : IsLast(s, k, i)].val \in Entry
  <2> DEFINE i == CHOOSE i \in DOMAIN s : IsLast(s, k, i)
  <2>1. i \in DOMAIN s
    BY <1>1
  <2>2. s[i] \in Item
    BY <2>1
  <2> QED
    BY <2>2 DEF Item
<1> QED
  BY <1>1 DEF Written

\* effective_ttl stays within the limits of the config.
LEMMA TtlBounds ==
  ASSUME NEW ttl \in Ttls
  PROVE  ttl \in Nat /\ min_ttl <= ttl /\ ttl <= max_ttl
<1>1. PICK a \in Answers : ttl = EffectiveTtl(a)
  BY DEF Ttls
<1>2. CASE a.nxdomain \/ a.ttls = {}
  BY <1>1, <1>2, CacheStoreAssumption DEF EffectiveTtl, Clamp
<1>3. CASE ~(a.nxdomain \/ a.ttls = {})
  <2> DEFINE t == CHOOSE t \in a.ttls : IsLeast(t, a.ttls)
  <2>1. \E u \in a.ttls : IsLeast(u, a.ttls)
    BY <1>3, CacheStoreAssumption
  <2>2. t \in a.ttls
    BY <2>1
  <2>3. t \in Nat
    BY <2>2, CacheStoreAssumption
  <2>4. ttl = Clamp(t)
    BY <1>1, <1>3 DEF EffectiveTtl
  <2> HIDE DEF t
  <2> QED
    BY <2>3, <2>4, CacheStoreAssumption DEF Clamp
<1> QED
  BY <1>2, <1>3

\* The first process starts with everything empty.
LEMMA InitType == Init => TypeOK
  BY CacheStoreAssumption DEF Init, TypeOK, Empty

\* One step per action; under it what the action writes.
LEMMA NextType == TypeOK /\ [Next]_vars => TypeOK'
<1> SUFFICES ASSUME TypeOK, [Next]_vars PROVE TypeOK'
  OBVIOUS
<1> USE CacheStoreAssumption
<1>1. ASSUME NEW k \in Keys, NEW ttl \in Ttls, Fetch(k, ttl) PROVE TypeOK'
  <2> DEFINE e == [ver |-> fetched[k] + 1, ttl |-> ttl, exp |-> now + ttl]
  <2>1. /\ fetched[k] \in 0 .. MaxVersion /\ fetched[k] + 1 \in 0 .. MaxVersion
        /\ now \in Nat /\ ttl \in Nat
    BY <1>1, TtlBounds DEF Fetch, ToCached, TypeOK
  <2>2. e \in Entry
    BY <2>1 DEF Entry
  <2>3. [key |-> k, val |-> e] \in Item
    BY <2>2 DEF Item
  <2>4. chan' \in Seq(Item)
    BY <1>1, <2>3, TrySendType DEF Fetch, ToCached, TypeOK
  <2>5. Insert(e, FALSE) \in Live
    BY <2>1, <2>2 DEF Insert, Live, Expiry
  <2>6. ram' \in [Keys -> Live \cup {None}]
    BY <1>1, <2>5 DEF Fetch, ToCached, TypeOK
  <2>7. fetched' \in [Keys -> 0 .. MaxVersion]
    BY <1>1, <2>1 DEF Fetch, ToCached, TypeOK
  <2> QED
    BY <1>1, <2>4, <2>6, <2>7 DEF Fetch, ToCached, TypeOK
<1>2. ASSUME NEW k \in Keys, Evict(k) PROVE TypeOK'
  BY <1>2 DEF Evict, TypeOK
<1>3. ASSUME Tick PROVE TypeOK'
  BY <1>3 DEF Tick, TypeOK
<1>4. ASSUME WriterRecv PROVE TypeOK'
  <2>1. Head(chan) \in Item /\ Tail(chan) \in Seq(Item)
    BY <1>4, HeadTailProperties DEF WriterRecv, TypeOK
  <2>2. Append(buf, Head(chan)) \in Seq(Item) /\ <<>> \in Seq(Item)
    BY <2>1 DEF TypeOK
  <2>3. /\ chan' = Tail(chan)
        /\ \/ batch' = Append(buf, Head(chan)) /\ buf' = <<>>
           \/ buf' = Append(buf, Head(chan)) /\ batch' = batch
        /\ UNCHANGED <<now, phase, fetched, ram, store, doomed, loading, delay, owed>>
    BY <1>4 DEF WriterRecv
  <2> QED
    BY <2>1, <2>2, <2>3 DEF TypeOK
<1>5. ASSUME WriterTick PROVE TypeOK'
  BY <1>5 DEF WriterTick, TypeOK
<1>6. ASSUME CommitOk PROVE TypeOK'
  BY <1>6, WrittenType DEF CommitOk, TypeOK
<1>7. ASSUME CommitFail PROVE TypeOK'
  BY <1>7 DEF CommitFail, TypeOK
<1>8. ASSUME Purge PROVE TypeOK'
  BY <1>8 DEF Purge, PurgeRead, PurgeWrite, PurgeFail, Expired, TypeOK
<1>9. ASSUME Crash PROVE TypeOK'
  BY <1>9 DEF Crash, Empty, TypeOK
<1>10. ASSUME Stop PROVE TypeOK'
  <2>1. owed' \in SUBSET Item
    <3>1. ASSUME NEW s \in Seq(Item) PROVE Items(s) \in SUBSET Item
      BY DEF Items
    <3> QED
      BY <1>10, <3>1 DEF Stop, TypeOK
  <2>2. ram' \in [Keys -> Live \cup {None}]
    BY <1>10 DEF Stop, Empty
  <2>3. <<>> \in Seq(Item)
    OBVIOUS
  <2>4. batch' \in Seq(Item) /\ buf' \in Seq(Item) /\ chan' \in Seq(Item)
    BY <1>10, <2>3 DEF Stop, TypeOK
  <2>5. /\ doomed' \in SUBSET Keys
        /\ phase' = "stopping" /\ delay' = 0
        /\ UNCHANGED <<now, fetched, store, loading>>
    BY <1>10 DEF Stop, TypeOK
  <2> QED
    BY <2>1, <2>2, <2>4, <2>5 DEF TypeOK
<1>11. ASSUME Exit PROVE TypeOK'
  BY <1>11 DEF Exit, TypeOK
<1>12. ASSUME ReadAllValid PROVE TypeOK'
  <2>1. PICK first \in SUBSET Valid :
           loading' = [k \in Keys |->
                         IF k \in first
                           THEN [store[k] EXCEPT !.ttl = store[k].exp - now]
                           ELSE None]
    BY <1>12 DEF ReadAllValid
  <2>2. ASSUME NEW k \in first
        PROVE  [store[k] EXCEPT !.ttl = store[k].exp - now] \in Entry
    <3>1. store[k] \in Entry /\ store[k].exp > now /\ now \in Nat
      BY DEF Valid, TypeOK
    <3>2. store[k].exp - now \in Nat
      BY <3>1 DEF Entry
    <3> QED
      BY <3>1, <3>2 DEF Entry
  <2>3. loading' \in [Keys -> Entry \cup {None}]
    BY <2>1, <2>2
  <2> QED
    BY <1>12, <2>3 DEF ReadAllValid, TypeOK
<1>13. ASSUME NEW k \in Keys, LoadEntry(k) PROVE TypeOK'
  <2>1. loading[k] \in Entry /\ now \in Nat
    BY <1>13 DEF LoadEntry, TypeOK
  <2>2. loading[k].ttl \in Nat
    BY <2>1 DEF Entry
  <2>3. Insert(loading[k], TRUE) \in Live
    BY <2>1, <2>2 DEF Insert, Live, Expiry
  <2>4. ram' \in [Keys -> Live \cup {None}] /\ loading' \in [Keys -> Entry \cup {None}]
    BY <1>13, <2>3 DEF LoadEntry, TypeOK
  <2> QED
    BY <1>13, <2>4 DEF LoadEntry, TypeOK
<1>14. ASSUME Loaded \/ StartCold PROVE TypeOK'
  BY <1>14 DEF Loaded, StartCold, TypeOK
<1>15. CASE UNCHANGED vars
  BY <1>15 DEF vars, TypeOK
<1> QED
  BY <1>1, <1>2, <1>3, <1>4, <1>5, <1>6, <1>7, <1>8, <1>9, <1>10, <1>11, <1>12,
     <1>13, <1>14, <1>15
  DEF Next, Writer, Process, Start

\* Both layers of the cache, the writer and the purge keep their types over
\* crashes and restarts; no remaining lifetime underflows.
THEOREM TypeCorrect == Spec => []TypeOK
<1>1. Init => TypeOK
  BY InitType
<1>2. TypeOK /\ [Next]_vars => TypeOK'
  BY NextType
<1> QED
  BY <1>1, <1>2, PTL DEF Spec

-----------------------------------------------------------------------------
\* Expiry.  What is still to be loaded was counted when the rows were read, so
\* each second of the load is a second it may be read past its expiry.

Counted ==
    \A k \in Keys : loading[k] # None =>
        /\ phase = "loading"
        /\ loading[k].ttl > 0
        /\ now + loading[k].ttl <= loading[k].exp + delay

ExpiryInv == NeverPastExpiry /\ Counted

\* Rows are read with what is left of them, and only Tick moves the clock.
LEMMA CountedStep == TypeOK /\ Counted /\ [Next]_vars => Counted'
<1> SUFFICES ASSUME TypeOK, Counted, [Next]_vars,
                    NEW k \in Keys, loading'[k] # None
             PROVE  /\ phase' = "loading"
                    /\ loading'[k].ttl > 0
                    /\ now' + loading'[k].ttl <= loading'[k].exp + delay'
  BY DEF Counted
<1>0. /\ now \in Nat /\ delay \in Nat
      /\ loading[k] # None => loading[k].ttl \in Nat /\ loading[k].exp \in Nat
  BY CacheStoreAssumption DEF TypeOK, Entry
<1>1. CASE UNCHANGED <<now, phase, loading, delay>>
  BY <1>1 DEF Counted
<1>2. CASE Tick
  <2>1. /\ now' = now + 1 /\ UNCHANGED <<phase, loading>>
        /\ phase = "loading" => delay' = delay + 1
    BY <1>2 DEF Tick
  <2>2. /\ phase = "loading" /\ loading[k].ttl > 0
        /\ now + loading[k].ttl <= loading[k].exp + delay
    BY <2>1 DEF Counted
  <2> QED
    BY <1>0, <2>1, <2>2
<1>3. CASE Crash \/ Loaded
  BY <1>3 DEF Crash, Loaded, Empty
<1>4. CASE Stop \/ Exit \/ StartCold
  BY <1>4 DEF Stop, Exit, StartCold, Counted
<1>5. CASE ReadAllValid
  <2>1. PICK first \in SUBSET Valid :
           loading' = [j \in Keys |->
                         IF j \in first
                           THEN [store[j] EXCEPT !.ttl = store[j].exp - now]
                           ELSE None]
    BY <1>5 DEF ReadAllValid
  <2>2. k \in first /\ loading'[k] = [store[k] EXCEPT !.ttl = store[k].exp - now]
    BY <2>1
  <2>3. store[k] \in Entry /\ store[k].exp > now
    BY <2>2 DEF Valid, TypeOK
  <2>4. /\ store[k].exp \in Nat
        /\ loading'[k].ttl = store[k].exp - now /\ loading'[k].exp = store[k].exp
    BY <2>2, <2>3 DEF Entry
  <2>5. phase' = "loading" /\ UNCHANGED <<now, delay>>
    BY <1>5 DEF ReadAllValid
  <2> QED
    BY <1>0, <2>3, <2>4, <2>5
<1>6. ASSUME NEW j \in Keys, LoadEntry(j)
      PROVE  loading'[k] = loading[k] /\ UNCHANGED <<now, phase, delay>>
  BY <1>6 DEF LoadEntry, TypeOK
<1>7. CASE \E j \in Keys : LoadEntry(j)
  BY <1>6, <1>7 DEF Counted
<1>8. ASSUME NEW j \in Keys, Evict(j) \/ \E ttl \in Ttls : Fetch(j, ttl)
      PROVE  UNCHANGED <<now, phase, loading, delay>>
  BY <1>8 DEF Evict, Fetch
<1>9. ASSUME Writer \/ Purge \/ UNCHANGED vars
      PROVE  UNCHANGED <<now, phase, loading, delay>>
  BY <1>9 DEF Writer, WriterRecv, WriterTick, CommitOk, CommitFail,
              Purge, PurgeRead, PurgeWrite, PurgeFail, vars
<1> QED
  BY <1>1, <1>2, <1>3, <1>4, <1>5, <1>7, <1>8, <1>9 DEF Next, Process, Start

\* Only Fetch and LoadEntry insert, and only Tick moves the clock.
LEMMA ExpiryStep ==
  TypeOK /\ TypeOK' /\ ExpiryInv /\ [Next]_vars => NeverPastExpiry'
<1> SUFFICES ASSUME TypeOK, TypeOK', NeverPastExpiry, Counted, [Next]_vars
             PROVE  NeverPastExpiry'
  BY DEF ExpiryInv
<1>0. /\ now \in Nat /\ delay \in Nat /\ now' \in Nat /\ delay' \in Nat
      /\ ram \in [Keys -> Live \cup {None}]
  BY CacheStoreAssumption DEF TypeOK
<1>1. ASSUME NEW k \in Keys, NEW ttl \in Ttls, Fetch(k, ttl)
      PROVE  NeverPastExpiry'
  <2> DEFINE e == [ver |-> fetched[k] + 1, ttl |-> ttl, exp |-> now + ttl]
  <2>1. /\ ram' = [ram EXCEPT ![k] = [val |-> e, dead |-> now + Expiry(ttl),
                                      warm |-> FALSE]]
        /\ now' = now /\ delay' = delay /\ ttl \in Nat
    BY <1>1, TtlBounds DEF Fetch, ToCached, Insert
  <2>2. SUFFICES ASSUME NEW j \in Keys, ram'[j] # None
        PROVE  /\ now <= ram'[j].dead
               /\ ram'[j].dead <= ram'[j].val.exp + Grace(j)'
    BY <2>1 DEF NeverPastExpiry
  <2>3. CASE j = k
    <3>1. ram'[j] = [val |-> e, dead |-> now + Expiry(ttl), warm |-> FALSE]
      BY <1>0, <2>1, <2>3
    <3>2. /\ ram'[j].dead = now + Expiry(ttl)
          /\ ram'[j].val.exp = now + ttl
          /\ ram'[j].val.ttl = ttl
          /\ ram'[j].warm = FALSE
      BY <3>1
    <3> QED
      BY <1>0, <2>1, <3>2 DEF Expiry, Grace
  <2>4. CASE j # k
    <3>1. ram'[j] = ram[j]
      BY <1>0, <2>1, <2>4
    <3> QED
      BY <2>1, <2>2, <3>1 DEF NeverPastExpiry, Grace
  <2> QED
    BY <2>3, <2>4
<1>2. ASSUME NEW k \in Keys, Evict(k) PROVE NeverPastExpiry'
  BY <1>0, <1>2 DEF Evict, NeverPastExpiry, Grace
<1>3. ASSUME Tick PROVE NeverPastExpiry'
  <2>1. SUFFICES ASSUME NEW j \in Keys, ram'[j] # None
        PROVE  /\ now' <= ram'[j].dead
               /\ ram'[j].dead <= ram'[j].val.exp + Grace(j)'
    BY DEF NeverPastExpiry
  <2>2. /\ ram'[j] = ram[j] /\ ~(ram[j].dead < now + 1) /\ now' = now + 1
        /\ delay' = delay \/ delay' = delay + 1
    BY <1>3, <2>1 DEF Tick
  <2>3. ram[j] \in Live
    BY <1>0, <2>1, <2>2
  <2>4. /\ ram[j].dead \in Nat /\ ram[j].val.exp \in Nat /\ ram[j].warm \in BOOLEAN
    BY <2>3 DEF Live, Entry
  <2>5. Grace(j) \in Nat /\ Grace(j)' \in Nat /\ Grace(j) <= Grace(j)'
    BY <1>0, <2>2 DEF Grace
  <2>6. ram[j].dead <= ram[j].val.exp + Grace(j)
    BY <2>1, <2>2 DEF NeverPastExpiry
  <2> QED
    BY <1>0, <2>2, <2>4, <2>5, <2>6
<1>4. ASSUME ram' = ram, now' = now, delay' = delay PROVE NeverPastExpiry'
  BY <1>4 DEF NeverPastExpiry, Grace
<1>5. ASSUME ram' = Empty PROVE NeverPastExpiry'
  BY <1>5 DEF Empty, NeverPastExpiry
<1>6. ASSUME NEW k \in Keys, LoadEntry(k) PROVE NeverPastExpiry'
  <2> DEFINE e == loading[k]
  <2>1. /\ e # None /\ now' = now /\ delay' = delay
        /\ ram' = [ram EXCEPT ![k] = [val |-> e, dead |-> now + Expiry(e.ttl),
                                      warm |-> TRUE]]
    BY <1>6 DEF LoadEntry, Insert
  <2>2. e \in Entry
    BY <2>1 DEF TypeOK
  <2>3. e.ttl \in Nat /\ e.exp \in Nat
    BY <2>2 DEF Entry
  <2>4. e.ttl > 0 /\ now + e.ttl <= e.exp + delay
    BY <2>1 DEF Counted
  <2>5. SUFFICES ASSUME NEW j \in Keys, ram'[j] # None
        PROVE  /\ now <= ram'[j].dead
               /\ ram'[j].dead <= ram'[j].val.exp + Grace(j)'
    BY <2>1 DEF NeverPastExpiry
  <2> HIDE DEF e
  <2>6. CASE j = k
    <3>1. ram'[j] = [val |-> e, dead |-> now + Expiry(e.ttl), warm |-> TRUE]
      BY <1>0, <2>1, <2>6
    <3>2. /\ ram'[j].dead = now + Expiry(e.ttl)
          /\ ram'[j].val.exp = e.exp
          /\ ram'[j].warm = TRUE
      BY <3>1
    <3> QED
      BY <1>0, <2>1, <2>3, <2>4, <3>2 DEF Expiry, Grace
  <2>7. CASE j # k
    <3>1. ram'[j] = ram[j]
      BY <1>0, <2>1, <2>7
    <3> QED
      BY <2>1, <2>5, <3>1 DEF NeverPastExpiry, Grace
  <2> QED
    BY <2>6, <2>7
<1>7. ASSUME Writer \/ Purge \/ Exit \/ ReadAllValid \/ Loaded \/ StartCold
             \/ UNCHANGED vars
      PROVE  ram' = ram /\ now' = now /\ delay' = delay
  BY <1>7 DEF Writer, WriterRecv, WriterTick, CommitOk, CommitFail,
              Purge, PurgeRead, PurgeWrite, PurgeFail, Exit, ReadAllValid, Loaded,
              StartCold, vars
<1>8. ASSUME Crash \/ Stop PROVE ram' = Empty
  BY <1>8 DEF Crash, Stop
<1> QED
  BY <1>1, <1>2, <1>3, <1>4, <1>5, <1>6, <1>7, <1>8 DEF Next, Process, Start

\* No answer is served past the expiry computed when the upstream gave it, however
\* often processes crash or restart in between, also in the middle of a load, but
\* for the seconds the warm load of the serving process took (and for one second if
\* the TTL is 0).
THEOREM NeverServedStale == Spec => []NeverPastExpiry
<1>1. Init => ExpiryInv
  BY DEF Init, Empty, ExpiryInv, NeverPastExpiry, Counted
<1>2. TypeOK /\ TypeOK' /\ ExpiryInv /\ [Next]_vars => ExpiryInv'
  BY ExpiryStep, CountedStep DEF ExpiryInv
<1>3. ExpiryInv => NeverPastExpiry
  BY DEF ExpiryInv
<1> QED
  BY <1>1, <1>2, <1>3, TypeCorrect, PTL DEF Spec

-----------------------------------------------------------------------------
\* Lifetimes.  Fetches respect the ceiling, a row that is read to be loaded has
\* at most what is left of it, and time only passes.

ShortLoad == \A k \in Keys : loading[k] # None => loading[k].ttl <= max_ttl

\* Appending keeps a bound on the expiries in a sequence.
LEMMA AppendShortLived ==
  ASSUME NEW s \in Seq(Item), NEW x \in Item, NEW b \in Nat,
         \A i \in 1 .. Len(s) : s[i].val.exp <= b, x.val.exp <= b
  PROVE  \A i \in 1 .. Len(Append(s, x)) : Append(s, x)[i].val.exp <= b
<1>1. Len(s) \in Nat /\ Len(Append(s, x)) = Len(s) + 1
  OBVIOUS
<1> SUFFICES ASSUME NEW i \in 1 .. Len(s) + 1
             PROVE  Append(s, x)[i].val.exp <= b
  BY <1>1
<1>2. CASE i \in 1 .. Len(s)
  BY <1>2
<1>3. CASE i = Len(s) + 1
  BY <1>3
<1> QED
  BY <1>1, <1>2, <1>3

\* So does removing the head.
LEMMA TailShortLived ==
  ASSUME NEW s \in Seq(Item), s # <<>>, NEW b \in Nat,
         \A i \in 1 .. Len(s) : s[i].val.exp <= b
  PROVE  /\ Head(s).val.exp <= b
         /\ \A i \in 1 .. Len(Tail(s)) : Tail(s)[i].val.exp <= b
<1>1. Len(s) \in Nat /\ Len(s) > 0 /\ Len(Tail(s)) = Len(s) - 1 /\ Head(s) = s[1]
  BY HeadTailProperties
<1>2. \A i \in 1 .. Len(Tail(s)) : Tail(s)[i] = s[i + 1] /\ i + 1 \in 1 .. Len(s)
  BY <1>1, HeadTailProperties
<1> QED
  BY <1>1, <1>2

\* One step per kind of change.
LEMMA LifeStep ==
  TypeOK /\ TypeOK' /\ BoundedLife /\ ShortLoad /\ [Next]_vars => BoundedLife'
<1> SUFFICES ASSUME TypeOK, TypeOK', BoundedLife, ShortLoad, [Next]_vars
             PROVE  BoundedLife'
  OBVIOUS
<1>0. /\ now \in Nat /\ max_ttl \in Nat /\ now + max_ttl \in Nat
      /\ Expiry(max_ttl) \in Nat
      /\ chan \in Seq(Item) /\ buf \in Seq(Item) /\ batch \in Seq(Item)
  BY CacheStoreAssumption DEF TypeOK, Expiry
<1>n. ShortLived(<<>>) /\ ShortLived(<<>>)'
  BY DEF ShortLived
<1>1. ASSUME NEW k \in Keys, NEW ttl \in Ttls, Fetch(k, ttl) PROVE BoundedLife'
  <2> DEFINE e == [ver |-> fetched[k] + 1, ttl |-> ttl, exp |-> now + ttl]
             x == [key |-> k, val |-> e]
  <2>0. ttl \in Nat /\ ttl <= max_ttl
    BY TtlBounds
  <2>1. Expiry(ttl) <= Expiry(max_ttl) /\ Expiry(ttl) \in Nat
    BY <1>0, <2>0 DEF Expiry
  <2>2. /\ chan' = TrySend(chan, x) /\ UNCHANGED <<now, store, buf, batch>>
        /\ ram' = [ram EXCEPT ![k] = [val |-> e, dead |-> now + Expiry(ttl),
                                      warm |-> FALSE]]
        /\ ram \in [Keys -> Live \cup {None}]
    BY <1>1 DEF Fetch, ToCached, Insert, TypeOK
  <2>3. fetched[k] \in Nat
    BY CacheStoreAssumption DEF TypeOK
  <2>4. x \in Item /\ x.val.exp <= now + max_ttl
    <3>1. e \in Entry
      BY <1>0, <2>0, <2>3 DEF Entry
    <3>2. now + ttl <= now + max_ttl
      BY <1>0, <2>0
    <3>3. x.val.exp = now + ttl
      OBVIOUS
    <3> QED
      BY <3>1, <3>2, <3>3 DEF Item
  <2>5. ShortLived(chan)'
    <3> HIDE DEF x
    <3>1. CASE chan' = Append(chan, x)
      BY <1>0, <2>2, <2>4, <3>1, AppendShortLived DEF BoundedLife, ShortLived
    <3>2. CASE chan' = chan
      BY <2>2, <3>2 DEF BoundedLife, ShortLived
    <3> QED
      BY <2>2, <3>1, <3>2 DEF TrySend
  <2>6. ASSUME NEW j \in Keys, ram'[j] # None
        PROVE  ram'[j].dead <= now + Expiry(max_ttl)
    <3>1. CASE j = k
      <4>1. ram'[j].dead = now + Expiry(ttl)
        BY <2>2, <3>1
      <4> QED
        BY <1>0, <2>1, <4>1
    <3>2. CASE j # k
      BY <2>2, <2>6, <3>2 DEF BoundedLife
    <3> QED
      BY <3>1, <3>2
  <2> QED
    BY <2>2, <2>5, <2>6 DEF BoundedLife, ShortLived
<1>2. ASSUME Tick PROVE BoundedLife'
  <2>1. /\ now' = now + 1 /\ UNCHANGED <<store, chan, buf, batch>>
        /\ \A k \in Keys : ram'[k] # None => ram'[k] = ram[k]
    BY <1>2 DEF Tick
  <2>2. ASSUME NEW k \in Keys, ram'[k] # None
        PROVE  ram'[k].dead <= now' + Expiry(max_ttl)
    <3>1. ram[k] \in Live /\ ram[k].dead <= now + Expiry(max_ttl)
      BY <2>1, <2>2 DEF BoundedLife, TypeOK
    <3>2. ram[k].dead \in Nat
      BY <3>1 DEF Live
    <3> QED
      BY <1>0, <2>1, <2>2, <3>1, <3>2
  <2>3. ASSUME NEW k \in Keys, store[k] # None PROVE store[k].exp <= now' + max_ttl
    <3>1. store[k] \in Entry /\ store[k].exp <= now + max_ttl
      BY <2>3 DEF BoundedLife, TypeOK
    <3>2. store[k].exp \in Nat
      BY <3>1 DEF Entry
    <3> QED
      BY <1>0, <2>1, <3>1, <3>2
  <2>4. ASSUME NEW s \in Seq(Item), ShortLived(s)
        PROVE  \A i \in 1 .. Len(s) : s[i].val.exp <= now' + max_ttl
    <3> SUFFICES ASSUME NEW i \in 1 .. Len(s) PROVE s[i].val.exp <= now' + max_ttl
      OBVIOUS
    <3>1. s[i].val.exp <= now + max_ttl
      BY <2>4 DEF ShortLived
    <3>2. s[i] \in Item
      BY ElementOfSeq
    <3>3. s[i].val.exp \in Nat
      BY <3>2 DEF Item, Entry
    <3> QED
      BY <1>0, <2>1, <3>1, <3>3
  <2>5. ShortLived(chan)' /\ ShortLived(buf)' /\ ShortLived(batch)'
    BY <1>0, <2>1, <2>4 DEF BoundedLife, ShortLived
  <2> QED
    BY <2>1, <2>2, <2>3, <2>5 DEF BoundedLife
<1>3. ASSUME UNCHANGED <<now, store>>,
             \A k \in Keys : ram'[k] # None => ram'[k] = ram[k],
             chan' \in {chan, <<>>}, buf' \in {buf, <<>>}, batch' \in {batch, <<>>, buf}
      PROVE  BoundedLife'
  BY <1>3, <1>n DEF BoundedLife, ShortLived
<1>4. ASSUME NEW k \in Keys, Evict(k) PROVE BoundedLife'
  BY <1>3, <1>4 DEF Evict, TypeOK
<1>5. ASSUME \/ WriterTick \/ CommitFail \/ PurgeRead \/ PurgeFail \/ Exit
             \/ ReadAllValid \/ Loaded \/ StartCold \/ UNCHANGED vars
      PROVE  BoundedLife'
  BY <1>3, <1>5 DEF WriterTick, CommitFail, PurgeRead, PurgeFail, Exit, ReadAllValid,
                    Loaded, StartCold, vars
<1>6. ASSUME Crash \/ Stop PROVE BoundedLife'
  BY <1>3, <1>6 DEF Crash, Stop, Empty
<1>7. ASSUME WriterRecv PROVE BoundedLife'
  <2> DEFINE all == Append(buf, Head(chan))
  <2>1. chan # <<>> /\ chan' = Tail(chan) /\ UNCHANGED <<now, ram, store>>
        /\ \/ batch' = all /\ buf' = <<>>
           \/ buf' = all /\ batch' = batch
    BY <1>7 DEF WriterRecv
  <2>2. Head(chan) \in Item
    BY <1>0, <2>1, HeadTailProperties
  <2>3. /\ Head(chan).val.exp <= now + max_ttl
        /\ \A i \in 1 .. Len(Tail(chan)) : Tail(chan)[i].val.exp <= now + max_ttl
    BY <1>0, <2>1, TailShortLived DEF BoundedLife, ShortLived
  <2>4. \A i \in 1 .. Len(all) : all[i].val.exp <= now + max_ttl
    BY <1>0, <2>2, <2>3, AppendShortLived DEF BoundedLife, ShortLived
  <2> HIDE DEF all
  <2>5. ShortLived(chan)' /\ ShortLived(buf)' /\ ShortLived(batch)'
    BY <1>n, <2>1, <2>3, <2>4 DEF BoundedLife, ShortLived
  <2> QED
    BY <2>1, <2>5 DEF BoundedLife
<1>8. ASSUME CommitOk PROVE BoundedLife'
  <2>1. store' = Written(store, batch) /\ batch' = <<>> /\ UNCHANGED <<now, ram, chan, buf>>
    BY <1>8 DEF CommitOk
  <2>2. ASSUME NEW k \in Keys, store'[k] # None PROVE store'[k].exp <= now + max_ttl
    <3>1. CASE \E i \in DOMAIN batch : IsLast(batch, k, i)
      <4> DEFINE i == CHOOSE i \in DOMAIN batch : IsLast(batch, k, i)
      <4>1. i \in DOMAIN batch
        BY <3>1
      <4>2. i \in 1 .. Len(batch)
        BY <1>0, <4>1
      <4>3. store'[k] = batch[i].val
        BY <2>1, <3>1 DEF Written
      <4> HIDE DEF i
      <4> QED
        BY <4>2, <4>3 DEF BoundedLife, ShortLived
    <3>2. CASE ~(\E i \in DOMAIN batch : IsLast(batch, k, i))
      <4>1. store'[k] = store[k]
        BY <2>1, <3>2 DEF Written
      <4> QED
        BY <2>2, <4>1 DEF BoundedLife
    <3> QED
      BY <3>1, <3>2
  <2> QED
    BY <1>n, <2>1, <2>2 DEF BoundedLife, ShortLived
<1>9. ASSUME PurgeWrite PROVE BoundedLife'
  <2>1. /\ UNCHANGED <<now, ram, chan, buf, batch>>
        /\ \A k \in Keys : store'[k] # None => store'[k] = store[k]
    BY <1>9 DEF PurgeWrite
  <2> QED
    BY <2>1 DEF BoundedLife, ShortLived
<1>10. ASSUME NEW k \in Keys, LoadEntry(k) PROVE BoundedLife'
  <2> DEFINE e == loading[k]
  <2>1. /\ e # None /\ UNCHANGED <<now, store, chan, buf, batch>>
        /\ ram' = [ram EXCEPT ![k] = [val |-> e, dead |-> now + Expiry(e.ttl),
                                      warm |-> TRUE]]
        /\ ram \in [Keys -> Live \cup {None}]
    BY <1>10 DEF LoadEntry, Insert, TypeOK
  <2>2. e \in Entry /\ e.ttl <= max_ttl
    BY <2>1 DEF ShortLoad, TypeOK
  <2>3. Expiry(e.ttl) \in Nat /\ Expiry(e.ttl) <= Expiry(max_ttl)
    BY <1>0, <2>2 DEF Entry, Expiry
  <2> HIDE DEF e
  <2>4. ASSUME NEW j \in Keys, ram'[j] # None
        PROVE  ram'[j].dead <= now + Expiry(max_ttl)
    <3>1. CASE j = k
      <4>1. ram'[j].dead = now + Expiry(e.ttl)
        BY <2>1, <3>1
      <4> QED
        BY <1>0, <2>3, <4>1
    <3>2. CASE j # k
      BY <2>1, <2>4, <3>2 DEF BoundedLife
    <3> QED
      BY <3>1, <3>2
  <2> QED
    BY <2>1, <2>4 DEF BoundedLife, ShortLived
<1> QED
  BY <1>1, <1>2, <1>4, <1>5, <1>6, <1>7, <1>8, <1>9, <1>10
  DEF Next, Writer, Purge, Process, Start

\* Only ReadAllValid adds to what is to be loaded, and a row is short-lived.
LEMMA ShortLoadStep ==
  TypeOK /\ BoundedLife /\ ShortLoad /\ [Next]_vars => ShortLoad'
<1> SUFFICES ASSUME TypeOK, BoundedLife, ShortLoad, [Next]_vars,
                    NEW k \in Keys, loading'[k] # None
             PROVE  loading'[k].ttl <= max_ttl
  BY DEF ShortLoad
<1>1. CASE loading'[k] = loading[k]
  BY <1>1 DEF ShortLoad
<1>2. CASE ReadAllValid
  <2>1. PICK first \in SUBSET Valid :
           loading' = [j \in Keys |->
                         IF j \in first
                           THEN [store[j] EXCEPT !.ttl = store[j].exp - now]
                           ELSE None]
    BY <1>2 DEF ReadAllValid
  <2>2. k \in first /\ loading'[k] = [store[k] EXCEPT !.ttl = store[k].exp - now]
    BY <2>1
  <2>3. store[k] # None /\ store[k] \in Entry /\ now \in Nat /\ max_ttl \in Nat
    BY <2>2, CacheStoreAssumption DEF Valid, TypeOK
  <2>4. store[k].exp \in Nat /\ loading'[k].ttl = store[k].exp - now
    BY <2>2, <2>3 DEF Entry
  <2>5. store[k].exp <= now + max_ttl
    BY <2>3 DEF BoundedLife
  <2> QED
    BY <2>3, <2>4, <2>5
<1>3. CASE Crash
  BY <1>3 DEF Crash, Empty
<1>4. ASSUME NEW j \in Keys, LoadEntry(j) PROVE loading'[k] = loading[k]
  BY <1>4 DEF LoadEntry, TypeOK
<1>5. ASSUME NEW j \in Keys, Evict(j) \/ \E ttl \in Ttls : Fetch(j, ttl)
      PROVE  loading' = loading
  BY <1>5 DEF Evict, Fetch
<1>6. ASSUME Tick \/ Writer \/ Purge \/ Stop \/ Exit \/ Loaded \/ StartCold
             \/ UNCHANGED vars
      PROVE  loading' = loading
  BY <1>6 DEF Tick, Writer, WriterRecv, WriterTick, CommitOk, CommitFail, Purge,
              PurgeRead, PurgeWrite, PurgeFail, Stop, Exit, Loaded, StartCold, vars
<1> QED
  BY <1>1, <1>2, <1>3, <1>4, <1>5, <1>6 DEF Next, Process, Start

\* No answer has more than max_ttl seconds to live, wherever it is and however
\* often it was saved and loaded again.
THEOREM LifeIsBounded == Spec => []BoundedLife
<1>1. Init => BoundedLife /\ ShortLoad
  BY DEF Init, Empty, BoundedLife, ShortLived, ShortLoad
<1>2. TypeOK /\ TypeOK' /\ (BoundedLife /\ ShortLoad) /\ [Next]_vars
        => (BoundedLife /\ ShortLoad)'
  BY LifeStep, ShortLoadStep
<1> QED
  BY <1>1, <1>2, TypeCorrect, PTL DEF Spec

-----------------------------------------------------------------------------
\* Memory.  While a batch is out the buffer is empty, so a batch and a buffer
\* never add up to more than BATCH_MAX.

\* Only Fetch, WriterRecv and WriterTick make something longer.
LEMMA MemoryStep ==
  TypeOK /\ BoundedMemory /\ [Next]_vars => BoundedMemory'
<1> SUFFICES ASSUME TypeOK, BoundedMemory, [Next]_vars PROVE BoundedMemory'
  OBVIOUS
<1> USE CacheStoreAssumption
<1>0. /\ chan \in Seq(Item) /\ buf \in Seq(Item) /\ batch \in Seq(Item)
      /\ Len(chan) \in Nat /\ Len(buf) \in Nat /\ Len(batch) \in Nat
      /\ Len(<<>>) = 0
  BY LenProperties, EmptySeq DEF TypeOK
<1>1. ASSUME NEW k \in Keys, NEW ttl \in Ttls, Fetch(k, ttl) PROVE BoundedMemory'
  <2> DEFINE x == [key |-> k, val |-> [ver |-> fetched[k] + 1, ttl |-> ttl,
                                       exp |-> now + ttl]]
  <2>1. chan' = TrySend(chan, x) /\ UNCHANGED <<buf, batch>>
    BY <1>1 DEF Fetch, ToCached
  <2>2. Len(TrySend(chan, x)) <= PERSIST_CHANNEL_CAP
    <3>1. Len(Append(chan, x)) = Len(chan) + 1
      BY <1>0
    <3> QED
      BY <1>0, <3>1 DEF TrySend, BoundedMemory
  <2> QED
    BY <2>1, <2>2 DEF BoundedMemory
<1>2. ASSUME WriterRecv PROVE BoundedMemory'
  <2> DEFINE all == Append(buf, Head(chan))
  <2>1. Len(all) = Len(buf) + 1
    BY <1>0
  <2>2. Len(Tail(chan)) = Len(chan) - 1
    BY <1>0, <1>2, HeadTailProperties DEF WriterRecv
  <2>3. /\ chan' = Tail(chan)
        /\ batch = <<>>
        /\ \/ Len(all) >= BATCH_MAX /\ batch' = all /\ buf' = <<>>
           \/ ~(Len(all) >= BATCH_MAX) /\ buf' = all /\ batch' = <<>>
    BY <1>2 DEF WriterRecv
  <2> HIDE DEF all
  <2> QED
    BY <1>0, <2>1, <2>2, <2>3 DEF BoundedMemory
<1>3. ASSUME WriterTick PROVE BoundedMemory'
  BY <1>0, <1>3 DEF WriterTick, BoundedMemory
<1>4. ASSUME CommitOk \/ CommitFail PROVE BoundedMemory'
  BY <1>0, <1>4 DEF CommitOk, CommitFail, BoundedMemory
<1>5. ASSUME Crash PROVE BoundedMemory'
  BY <1>0, <1>5 DEF Crash, BoundedMemory
<1>6. ASSUME Stop PROVE BoundedMemory'
  BY <1>0, <1>6 DEF Stop, BoundedMemory
<1>7. ASSUME UNCHANGED <<chan, buf, batch>> PROVE BoundedMemory'
  BY <1>7 DEF BoundedMemory
<1>8. ASSUME \/ \E k \in Keys : Evict(k)
             \/ Tick \/ Purge \/ Exit \/ Start \/ UNCHANGED vars
      PROVE  UNCHANGED <<chan, buf, batch>>
  BY <1>8 DEF Evict, Tick, Purge, PurgeRead, PurgeWrite, PurgeFail, Exit, Start,
              ReadAllValid, LoadEntry, Loaded, StartCold, vars
<1> QED
  BY <1>1, <1>2, <1>3, <1>4, <1>5, <1>6, <1>7, <1>8 DEF Next, Writer, Process

\* However slow the disk and however many queries, what waits for it is at
\* most a full channel and one batch.
THEOREM MemoryIsBounded == Spec => []BoundedMemory
<1>1. Init => BoundedMemory
  BY CacheStoreAssumption, EmptySeq DEF Init, BoundedMemory
<1>2. TypeOK /\ BoundedMemory /\ [Next]_vars => BoundedMemory'
  BY MemoryStep
<1> QED
  BY <1>1, <1>2, TypeCorrect, PTL DEF Spec

-----------------------------------------------------------------------------
\* Order.  The lemmas say what each operation does to the sequence Pending;
\* OrderInv adds that no row is newer than the last answer for its key, which
\* makes InOrder inductive: the version a fetch gives out is new to all.

RowsKnown == \A k \in Keys : store[k] # None => store[k].ver <= fetched[k]

OrderInv == InOrder /\ RowsKnown

\* Moving the head of one sequence to the end of another.
LEMMA MoveHead ==
  ASSUME NEW s \in Seq(Item), NEW t \in Seq(Item), t # <<>>
  PROVE  Append(s, Head(t)) \o Tail(t) = s \o t
<1>1. /\ Head(t) \in Item /\ Tail(t) \in Seq(Item)
      /\ Len(Tail(t)) = Len(t) - 1
      /\ \A i \in 1 .. Len(Tail(t)) : Tail(t)[i] = t[i + 1]
  BY HeadTailProperties
<1>2. Len(s) \in Nat /\ Len(t) \in Nat /\ Len(t) # 0
  BY LenProperties, EmptySeq
<1>3. /\ Append(s, Head(t)) \in Seq(Item)
      /\ Len(Append(s, Head(t))) = Len(s) + 1
      /\ \A i \in 1 .. Len(s) : Append(s, Head(t))[i] = s[i]
      /\ Append(s, Head(t))[Len(s) + 1] = t[1]
  BY <1>1
<1> DEFINE a == Append(s, Head(t))  r == Tail(t)
<1> HIDE DEF a, r
<1>4. a \in Seq(Item) /\ r \in Seq(Item) /\ Len(a) = Len(s) + 1 /\ Len(r) = Len(t) - 1
  BY <1>1, <1>3 DEF a, r
<1>5. /\ a \o r \in Seq(Item) /\ Len(a \o r) = Len(a) + Len(r)
      /\ \A i \in 1 .. Len(a) + Len(r) :
            (a \o r)[i] = IF i <= Len(a) THEN a[i] ELSE r[i - Len(a)]
  BY <1>4, ConcatProperties
<1>6. /\ s \o t \in Seq(Item) /\ Len(s \o t) = Len(s) + Len(t)
      /\ \A i \in 1 .. Len(s) + Len(t) :
            (s \o t)[i] = IF i <= Len(s) THEN s[i] ELSE t[i - Len(s)]
  BY ConcatProperties
<1>7. ASSUME NEW i \in 1 .. Len(a \o r) PROVE (a \o r)[i] = (s \o t)[i]
  <2>0. i \in Int
    BY <1>2, <1>4, <1>5, <1>7
  <2>1. CASE i <= Len(s)
    BY <1>2, <1>3, <1>4, <1>5, <1>6, <1>7, <2>1 DEF a
  <2>2. CASE i = Len(s) + 1
    BY <1>2, <1>3, <1>4, <1>5, <1>6, <1>7, <2>2 DEF a
  <2>3. CASE i > Len(s) + 1
    <3>1. i - Len(a) \in 1 .. Len(r) /\ i - Len(a) + 1 = i - Len(s)
      BY <1>2, <1>4, <1>5, <1>7, <2>3
    <3>2. r[i - Len(a)] = t[i - Len(s)]
      BY <1>1, <3>1 DEF r
    <3> QED
      BY <1>2, <1>4, <1>5, <1>6, <1>7, <2>3, <3>2
  <2>4. i <= Len(s) \/ i = Len(s) + 1 \/ i > Len(s) + 1
    BY <1>2, <2>0
  <2> QED
    BY <2>1, <2>2, <2>3, <2>4
<1>8. Len(a \o r) = Len(s \o t)
  BY <1>2, <1>4, <1>5, <1>6
<1>9. a \o r = s \o t
  BY <1>5, <1>6, <1>7, <1>8, SeqEqual
<1> QED
  BY <1>9 DEF a, r

\* What comes after a prefix is still in order.
LEMMA SuffixInOrder ==
  ASSUME NEW p \in Seq(Item), NEW t \in Seq(Item), Ascending(p \o t)
  PROVE  Ascending(t)
<1>1. /\ Len(p \o t) = Len(p) + Len(t)
      /\ \A i \in 1 .. Len(p) + Len(t) :
            (p \o t)[i] = IF i <= Len(p) THEN p[i] ELSE t[i - Len(p)]
  BY ConcatProperties
<1>2. Len(p) \in Nat /\ Len(t) \in Nat
  BY LenProperties
<1>3. SUFFICES ASSUME NEW i \in 1 .. Len(t), NEW j \in 1 .. Len(t),
                      i < j, t[i].key = t[j].key
               PROVE  t[i].val.ver < t[j].val.ver
  BY DEF Ascending
<1>4. /\ Len(p) + i \in 1 .. Len(p \o t) /\ Len(p) + j \in 1 .. Len(p \o t)
      /\ Len(p) + i < Len(p) + j
  BY <1>1, <1>2, <1>3
<1>5. ASSUME NEW m \in 1 .. Len(t)
      PROVE  (p \o t)[Len(p) + m] = t[m]
  <2>1. /\ Len(p) + m \in 1 .. Len(p) + Len(t)
        /\ ~(Len(p) + m <= Len(p))
        /\ (Len(p) + m) - Len(p) = m
    BY <1>2
  <2> QED
    BY <1>1, <2>1
<1> QED
  BY <1>3, <1>4, <1>5 DEF Ascending

\* Appending to the second part appends to the whole.
LEMMA ConcatAppend ==
  ASSUME NEW S, NEW s \in Seq(S), NEW t \in Seq(S), NEW x \in S
  PROVE  s \o Append(t, x) = Append(s \o t, x)
<1>1. <<x>> \in Seq(S)
  OBVIOUS
<1>2. Append(t, x) = t \o <<x>>
  BY AppendIsConcat
<1>3. s \o t \in Seq(S)
  BY ConcatProperties
<1>4. Append(s \o t, x) = (s \o t) \o <<x>>
  BY <1>3, AppendIsConcat
<1> QED
  BY <1>1, <1>2, <1>4, ConcatAssociative

\* An entry at the end that is newer than all of its key is in order.
LEMMA AppendInOrder ==
  ASSUME NEW s \in Seq(Item), NEW x \in Item, Ascending(s),
         \A i \in 1 .. Len(s) : s[i].key = x.key => s[i].val.ver < x.val.ver
  PROVE  Ascending(Append(s, x))
<1>1. /\ Len(Append(s, x)) = Len(s) + 1
      /\ \A i \in 1 .. Len(s) : Append(s, x)[i] = s[i]
      /\ Append(s, x)[Len(s) + 1] = x
  OBVIOUS
<1>2. Len(s) \in Nat
  BY LenProperties
<1> DEFINE a == Append(s, x)
<1> HIDE DEF a
<1>3. SUFFICES ASSUME NEW i \in 1 .. Len(s) + 1, NEW j \in 1 .. Len(s) + 1,
                      i < j, a[i].key = a[j].key
               PROVE  a[i].val.ver < a[j].val.ver
  BY <1>1 DEF Ascending, a
<1>4. i \in 1 .. Len(s) /\ a[i] = s[i]
  BY <1>1, <1>2, <1>3 DEF a
<1>5. CASE j = Len(s) + 1
  BY <1>1, <1>3, <1>4, <1>5 DEF a
<1>6. CASE j # Len(s) + 1
  <2>1. j \in 1 .. Len(s) /\ a[j] = s[j]
    BY <1>1, <1>2, <1>6 DEF a
  <2> QED
    BY <1>3, <1>4, <2>1 DEF Ascending
<1> QED
  BY <1>5, <1>6

\* A fetch appends a version nobody has seen.
LEMMA FetchInOrder ==
  ASSUME TypeOK, OrderInv, NEW k \in Keys, NEW ttl \in Ttls, Fetch(k, ttl)
  PROVE  OrderInv'
<1> USE CacheStoreAssumption
<1> DEFINE e == [ver |-> fetched[k] + 1, ttl |-> ttl, exp |-> now + ttl]
           x == [key |-> k, val |-> e]
           front == batch \o buf
<1>1. /\ fetched \in [Keys -> Nat] /\ now \in Nat /\ ttl \in Nat
      /\ batch \in Seq(Item) /\ buf \in Seq(Item) /\ chan \in Seq(Item)
  BY TtlBounds DEF TypeOK
<1>2. e \in Entry /\ x \in Item
  BY <1>1 DEF Entry, Item
<1>3. front \in Seq(Item) /\ Pending \in Seq(Item)
  BY <1>1, ConcatProperties DEF Pending
<1>4. /\ \A j \in Keys : fetched'[j] = IF j = k THEN fetched[j] + 1 ELSE fetched[j]
      /\ UNCHANGED <<store, batch, buf>>
      /\ chan' = TrySend(chan, x)
  BY <1>1 DEF Fetch, ToCached
<1>5. RowsKnown'
  <2> SUFFICES ASSUME NEW j \in Keys, store[j] # None
               PROVE  store[j].ver <= fetched'[j]
    BY <1>4 DEF RowsKnown
  <2>1. store[j] \in Entry /\ store[j].ver <= fetched[j]
    BY DEF OrderInv, RowsKnown, TypeOK
  <2>2. store[j].ver \in Nat /\ fetched[j] \in Nat
    BY <1>1, <2>1 DEF Entry
  <2> QED
    BY <1>4, <2>1, <2>2
<1>6. ASSUME NEW i \in 1 .. Len(Pending)
      PROVE  /\ Pending[i].key \in Keys
             /\ Pending[i].val.ver \in Nat
             /\ fetched[Pending[i].key] \in Nat
             /\ Pending[i].val.ver <= fetched[Pending[i].key]
             /\ Pending[i].val.ver <= fetched'[Pending[i].key]
             /\ Pending[i].key = k => Pending[i].val.ver < x.val.ver
  <2>1. Pending[i] \in Item
    BY <1>3, ElementOfSeq
  <2>2. Pending[i].key \in Keys /\ Pending[i].val.ver \in Nat
    BY <2>1 DEF Item, Entry
  <2>3. Pending[i].val.ver <= fetched[Pending[i].key]
    BY DEF OrderInv, InOrder, NewerThanRows
  <2> QED
    BY <1>1, <1>4, <2>2, <2>3
<1>7. CASE chan' = chan
  <2>1. Pending' = Pending
    BY <1>4, <1>7 DEF Pending
  <2>2. Ascending(Pending) /\ NewerThanRows(Pending, store, fetched)
    BY DEF OrderInv, InOrder
  <2>3. NewerThanRows(Pending, store, fetched')
    BY <1>6, <2>2 DEF NewerThanRows
  <2> QED
    BY <1>4, <1>5, <2>1, <2>2, <2>3 DEF OrderInv, InOrder
<1>8. CASE chan' = Append(chan, x)
  <2>1. Pending' = Append(Pending, x)
    <3>1. front \o Append(chan, x) = Append(front \o chan, x)
      <4> HIDE DEF x, front
      <4> QED
        BY <1>1, <1>2, <1>3, ConcatAppend
    <3> QED
      BY <1>4, <1>8, <3>1 DEF Pending
  <2>2. Ascending(Append(Pending, x))
    <3>1. Ascending(Pending)
      BY DEF OrderInv, InOrder
    <3>2. x.key = k
      OBVIOUS
    <3> HIDE DEF x
    <3> QED
      BY <1>2, <1>3, <1>6, <3>1, <3>2, AppendInOrder
  <2>3. NewerThanRows(Append(Pending, x), store, fetched')
    <3> DEFINE a == Append(Pending, x)
    <3>1. /\ Len(a) = Len(Pending) + 1
          /\ \A i \in 1 .. Len(Pending) : a[i] = Pending[i]
          /\ a[Len(Pending) + 1] = x
      BY <1>2, <1>3
    <3>2. Len(Pending) \in Nat
      BY <1>3, LenProperties
    <3>3. x.key = k /\ x.val.ver = fetched[k] + 1 /\ fetched'[k] = fetched[k] + 1
      BY <1>4
    <3>4. store[k] # None => store[k].ver < x.val.ver
      <4>1. store[k] # None => store[k] \in Entry /\ store[k].ver <= fetched[k]
        BY DEF OrderInv, RowsKnown, TypeOK
      <4>2. store[k] # None => store[k].ver \in Nat
        BY <4>1 DEF Entry
      <4> QED
        BY <1>1, <3>3, <4>1, <4>2
    <3>5. \A i \in 1 .. Len(Pending) :
             store[Pending[i].key] # None
                => store[Pending[i].key].ver < Pending[i].val.ver
      BY DEF OrderInv, InOrder, NewerThanRows
    <3> HIDE DEF a, x
    <3>6. ASSUME NEW i \in 1 .. Len(a)
          PROVE  /\ a[i].val.ver <= fetched'[a[i].key]
                 /\ store[a[i].key] # None => store[a[i].key].ver < a[i].val.ver
      <4>1. CASE i \in 1 .. Len(Pending)
        BY <1>6, <3>1, <3>5, <4>1
      <4>2. CASE i = Len(Pending) + 1
        BY <1>1, <3>1, <3>3, <3>4, <4>2
      <4> QED
        BY <3>1, <3>2, <3>6, <4>1, <4>2
    <3> QED
      BY <3>6 DEF NewerThanRows, a
  <2> QED
    BY <1>4, <1>5, <2>1, <2>2, <2>3 DEF OrderInv, InOrder
<1> QED
  BY <1>4, <1>7, <1>8 DEF TrySend

\* A commit moves the batch into the rows: the last entry of each key is newer
\* than the row it replaces and older than what is still to come.
LEMMA CommitInOrder ==
  ASSUME TypeOK, OrderInv, CommitOk
  PROVE  /\ OrderInv'
         /\ \A k \in Keys : store[k] # None /\ store'[k] # None
               => store[k].ver <= store'[k].ver
<1> DEFINE t == buf \o chan
<1>1. /\ batch \in Seq(Item) /\ buf \in Seq(Item) /\ chan \in Seq(Item)
      /\ store \in [Keys -> Entry \cup {None}] /\ fetched \in [Keys -> Nat]
  BY CacheStoreAssumption DEF TypeOK
<1>2. t \in Seq(Item) /\ Len(t) \in Nat /\ Len(batch) \in Nat
  BY <1>1, ConcatProperties, LenProperties
<1>3. Pending = batch \o t
  BY <1>1, ConcatAssociative DEF Pending
<1>4. Pending' = t
  <2>1. batch' = <<>> /\ buf' = buf /\ chan' = chan
    BY DEF CommitOk
  <2> QED
    BY <1>1, <2>1, ConcatEmptySeq DEF Pending
<1> HIDE DEF t
<1>5. /\ Pending \in Seq(Item)
      /\ Len(Pending) = Len(batch) + Len(t)
      /\ \A i \in 1 .. Len(batch) + Len(t) :
            Pending[i] = IF i <= Len(batch) THEN batch[i] ELSE t[i - Len(batch)]
  BY <1>1, <1>2, <1>3, ConcatProperties
<1>6. /\ fetched' = fetched
      /\ store' = Written(store, batch)
  BY DEF CommitOk
\* A row after the commit is an entry of the batch or the row before it.
<1>7. ASSUME NEW k \in Keys
      PROVE  \/ store'[k] = store[k]
             \/ \E j \in 1 .. Len(batch) : batch[j].key = k /\ store'[k] = batch[j].val
  <2>1. CASE \E i \in DOMAIN batch : IsLast(batch, k, i)
    <3> DEFINE j == CHOOSE i \in DOMAIN batch : IsLast(batch, k, i)
    <3>1. j \in DOMAIN batch /\ IsLast(batch, k, j)
      BY <2>1
    <3>2. store'[k] = batch[j].val
      BY <1>6, <2>1 DEF Written
    <3>3. j \in 1 .. Len(batch)
      BY <1>1, <3>1, LenProperties
    <3>4. batch[j].key = k
      BY <3>1 DEF IsLast
    <3> QED
      BY <3>2, <3>3, <3>4
  <2>2. CASE ~ \E i \in DOMAIN batch : IsLast(batch, k, i)
    BY <1>6, <2>2 DEF Written
  <2> QED
    BY <2>1, <2>2
<1>8. ASSUME NEW j \in 1 .. Len(batch)
      PROVE  /\ j \in 1 .. Len(Pending) /\ Pending[j] = batch[j]
             /\ batch[j].key \in Keys /\ batch[j].val \in Entry
             /\ batch[j].val.ver \in Nat
             /\ batch[j].val.ver <= fetched[batch[j].key]
             /\ store[batch[j].key] # None
                   => store[batch[j].key].ver < batch[j].val.ver
  <2>1. j \in 1 .. Len(Pending) /\ Pending[j] = batch[j]
    BY <1>2, <1>5
  <2>2. batch[j] \in Item
    BY <1>1, ElementOfSeq
  <2>3. /\ Pending[j].val.ver <= fetched[Pending[j].key]
        /\ store[Pending[j].key] # None
                   => store[Pending[j].key].ver < Pending[j].val.ver
    BY <2>1 DEF OrderInv, InOrder, NewerThanRows
  <2> QED
    BY <2>1, <2>2, <2>3 DEF Item, Entry
<1>9. RowsKnown'
  <2> SUFFICES ASSUME NEW k \in Keys, store'[k] # None
               PROVE  store'[k].ver <= fetched[k]
    BY <1>6 DEF RowsKnown
  <2> QED
    BY <1>7, <1>8 DEF OrderInv, RowsKnown
<1>10. Ascending(t)
  BY <1>1, <1>2, <1>3, SuffixInOrder DEF OrderInv, InOrder
<1>11. NewerThanRows(t, store', fetched)
  <2> SUFFICES ASSUME NEW i \in 1 .. Len(t)
               PROVE  /\ t[i].val.ver <= fetched[t[i].key]
                      /\ store'[t[i].key] # None
                            => store'[t[i].key].ver < t[i].val.ver
    BY DEF NewerThanRows
  <2>1. /\ Len(batch) + i \in 1 .. Len(Pending) /\ Pending[Len(batch) + i] = t[i]
        /\ \A j \in 1 .. Len(batch) : j < Len(batch) + i
    BY <1>2, <1>5
  <2>2. t[i].key \in Keys
    <3>1. t[i] \in Item
      BY <1>2, ElementOfSeq
    <3> QED
      BY <3>1 DEF Item
  <2>3. /\ t[i].val.ver <= fetched[t[i].key]
        /\ store[t[i].key] # None => store[t[i].key].ver < t[i].val.ver
    BY <2>1 DEF OrderInv, InOrder, NewerThanRows
  <2>4. ASSUME NEW j \in 1 .. Len(batch), batch[j].key = t[i].key
        PROVE  batch[j].val.ver < t[i].val.ver
    BY <1>8, <2>1, <2>4 DEF OrderInv, InOrder, Ascending
  <2> QED
    BY <1>7, <2>2, <2>3, <2>4
<1>12. ASSUME NEW k \in Keys, store[k] # None, store'[k] # None
       PROVE  store[k].ver <= store'[k].ver
  <2>1. store[k].ver \in Nat
    BY <1>1, <1>12 DEF Entry
  <2> QED
    BY <1>7, <1>8, <1>12, <2>1
<1> QED
  BY <1>4, <1>6, <1>9, <1>10, <1>11, <1>12 DEF OrderInv, InOrder

\* Parts of a sequence that is in order are in order.
LEMMA PartsInOrder ==
  ASSUME NEW p \in Seq(Item), NEW t \in Seq(Item), NEW rows, NEW last,
         Ascending(p \o t), NewerThanRows(p \o t, rows, last)
  PROVE  /\ Ascending(p) /\ NewerThanRows(p, rows, last)
         /\ Ascending(t) /\ NewerThanRows(t, rows, last)
<1>1. /\ Len(p \o t) = Len(p) + Len(t)
      /\ \A i \in 1 .. Len(p) + Len(t) :
            (p \o t)[i] = IF i <= Len(p) THEN p[i] ELSE t[i - Len(p)]
  BY ConcatProperties
<1>2. Len(p) \in Nat /\ Len(t) \in Nat
  BY LenProperties
<1>3. \A i \in 1 .. Len(p) : i \in 1 .. Len(p \o t) /\ (p \o t)[i] = p[i]
  BY <1>1, <1>2
<1>4. \A i \in 1 .. Len(t) :
         Len(p) + i \in 1 .. Len(p \o t) /\ (p \o t)[Len(p) + i] = t[i]
  BY <1>1, <1>2
<1>5. Ascending(p)
  BY <1>3 DEF Ascending
<1>6. NewerThanRows(p, rows, last)
  BY <1>3 DEF NewerThanRows
<1>7. NewerThanRows(t, rows, last)
  BY <1>4 DEF NewerThanRows
<1> QED
  BY <1>5, <1>6, <1>7, SuffixInOrder

\* Nothing on its way is trivially in order.
LEMMA NothingInOrder ==
  ASSUME NEW rows, NEW last
  PROVE  Ascending(<<>>) /\ NewerThanRows(<<>>, rows, last)
<1>1. Len(<<>>) = 0
  BY EmptySeq
<1> QED
  BY <1>1 DEF Ascending, NewerThanRows

\* The writer's own moves between channel, buffer and batch.
LEMMA WriterMoves ==
  ASSUME TypeOK, WriterRecv \/ WriterTick
  PROVE  Pending' = Pending
<1>1. /\ batch = <<>>
      /\ buf \in Seq(Item) /\ chan \in Seq(Item)
  BY DEF WriterRecv, WriterTick, TypeOK
<1>2. Pending = buf \o chan
  BY <1>1, ConcatEmptySeq DEF Pending
<1>3. CASE WriterTick
  <2>1. batch' = buf /\ buf' = <<>> /\ chan' = chan
    BY <1>3 DEF WriterTick
  <2> QED
    BY <1>1, <1>2, <2>1, ConcatEmptySeq DEF Pending
<1>4. CASE WriterRecv
  <2> DEFINE all == Append(buf, Head(chan))
  <2>1. /\ chan # <<>> /\ chan' = Tail(chan)
        /\ \/ batch' = all /\ buf' = <<>>
           \/ batch' = <<>> /\ buf' = all
    BY <1>1, <1>4 DEF WriterRecv
  <2>2. all \in Seq(Item)
    BY <1>1, <2>1, HeadTailProperties
  <2>3. all \o Tail(chan) = buf \o chan
    BY <1>1, <2>1, MoveHead
  <2> HIDE DEF all
  <2>4. batch' \o buf' = all
    BY <2>1, <2>2, ConcatEmptySeq
  <2> QED
    BY <1>2, <2>1, <2>3, <2>4 DEF Pending
<1> QED
  BY <1>3, <1>4

\* OrderInv is preserved, and no step replaces a row by an older one.
LEMMA OrderStep ==
  TypeOK /\ OrderInv /\ [Next]_vars
    => /\ OrderInv'
       /\ \A k \in Keys : store[k] # None /\ store'[k] # None
             => store[k].ver <= store'[k].ver
<1> DEFINE Forward == \A k \in Keys : store[k] # None /\ store'[k] # None
                         => store[k].ver <= store'[k].ver
<1> SUFFICES ASSUME TypeOK, OrderInv, [Next]_vars PROVE OrderInv' /\ Forward
  OBVIOUS
<1>0. /\ Ascending(Pending) /\ NewerThanRows(Pending, store, fetched) /\ RowsKnown
      /\ batch \in Seq(Item) /\ buf \in Seq(Item) /\ chan \in Seq(Item)
      /\ \A k \in Keys : store[k] # None => store[k].ver \in Nat
  BY DEF OrderInv, InOrder, TypeOK, Entry
<1>1. ASSUME store' = store PROVE Forward
  BY <1>0, <1>1
<1>2. ASSUME UNCHANGED <<store, fetched>>, Ascending(Pending'),
             NewerThanRows(Pending', store, fetched)
      PROVE  OrderInv' /\ Forward
  BY <1>0, <1>1, <1>2 DEF OrderInv, InOrder, RowsKnown
<1>3. ASSUME NEW k \in Keys, NEW ttl \in Ttls, Fetch(k, ttl)
      PROVE  OrderInv' /\ Forward
  <2>1. store' = store
    BY <1>3 DEF Fetch, ToCached
  <2> QED
    BY <1>1, <1>3, <2>1, FetchInOrder
<1>4. ASSUME WriterRecv \/ WriterTick PROVE OrderInv' /\ Forward
  <2>1. UNCHANGED <<store, fetched>>
    BY <1>4 DEF WriterRecv, WriterTick
  <2> QED
    BY <1>0, <1>2, <1>4, <2>1, WriterMoves
<1>5. ASSUME CommitOk PROVE OrderInv' /\ Forward
  BY <1>5, CommitInOrder
<1>6. ASSUME CommitFail PROVE OrderInv' /\ Forward
  <2>1. /\ UNCHANGED <<store, fetched>>
        /\ batch' = <<>> /\ buf' = buf /\ chan' = chan
    BY <1>6 DEF CommitFail
  <2>2. Pending' = buf \o chan /\ Pending = batch \o (buf \o chan)
    BY <1>0, <2>1, ConcatEmptySeq, ConcatAssociative DEF Pending
  <2>3. buf \o chan \in Seq(Item)
    BY <1>0, ConcatProperties
  <2>4. Ascending(buf \o chan) /\ NewerThanRows(buf \o chan, store, fetched)
    BY <1>0, <2>2, <2>3, PartsInOrder
  <2> QED
    BY <1>2, <2>1, <2>2, <2>4
<1>7. ASSUME Crash PROVE OrderInv' /\ Forward
  <2>1. /\ UNCHANGED <<store, fetched>>
        /\ batch' = <<>> /\ buf' = <<>> /\ chan' = <<>>
    BY <1>7 DEF Crash
  <2>2. Pending' = <<>>
    BY <1>0, <2>1, ConcatEmptySeq, EmptySeq DEF Pending
  <2> QED
    BY <1>2, <2>1, <2>2, NothingInOrder
<1>8. ASSUME Stop PROVE OrderInv' /\ Forward
  <2>1. /\ UNCHANGED <<store, fetched>>
        /\ batch' = batch \/ batch' = <<>>
        /\ buf' = <<>> /\ chan' = <<>>
    BY <1>8 DEF Stop
  <2>2. Pending' = batch'
    <3>1. batch' \in Seq(Item)
      BY <1>0, <2>1, EmptySeq
    <3> QED
      BY <2>1, <3>1, ConcatEmptySeq DEF Pending
  <2>3. Ascending(batch) /\ NewerThanRows(batch, store, fetched)
    <3>1. Pending = batch \o (buf \o chan) /\ buf \o chan \in Seq(Item)
      BY <1>0, ConcatAssociative, ConcatProperties DEF Pending
    <3> QED
      BY <1>0, <3>1, PartsInOrder
  <2> QED
    BY <1>2, <2>1, <2>2, <2>3, NothingInOrder
<1>9. ASSUME PurgeWrite PROVE OrderInv' /\ Forward
  <2>1. /\ UNCHANGED <<fetched, batch, buf, chan>>
        /\ \A k \in Keys : store'[k] = store[k] \/ store'[k] = None
    BY <1>9 DEF PurgeWrite, TypeOK
  <2>2. Pending' = Pending
    BY <2>1 DEF Pending
  <2>3. NewerThanRows(Pending, store', fetched)
    <3>1. Pending \in Seq(Item)
      BY <1>0, ConcatProperties DEF Pending
    <3>2. ASSUME NEW i \in 1 .. Len(Pending) PROVE Pending[i].key \in Keys
      <4>1. Pending[i] \in Item
        BY <3>1, ElementOfSeq
      <4> QED
        BY <4>1 DEF Item
    <3> QED
      BY <1>0, <2>1, <3>2 DEF NewerThanRows
  <2>4. RowsKnown' /\ Forward
    BY <1>0, <2>1 DEF RowsKnown
  <2> QED
    BY <1>0, <2>1, <2>2, <2>3, <2>4 DEF OrderInv, InOrder
<1>10. ASSUME UNCHANGED <<store, fetched, batch, buf, chan>>
       PROVE  OrderInv' /\ Forward
  <2>1. Pending' = Pending
    BY <1>10 DEF Pending
  <2> QED
    BY <1>0, <1>2, <1>10, <2>1
<1>11. ASSUME \/ \E k \in Keys : Evict(k)
              \/ Tick \/ PurgeRead \/ PurgeFail \/ Exit \/ Start
              \/ UNCHANGED vars
       PROVE  UNCHANGED <<store, fetched, batch, buf, chan>>
  BY <1>11 DEF Evict, Tick, PurgeRead, PurgeFail, Exit, Start, ReadAllValid, LoadEntry,
               Loaded, StartCold, vars
<1> HIDE DEF Forward
<1> QED
  BY <1>3, <1>4, <1>5, <1>6, <1>7, <1>8, <1>9, <1>10, <1>11
  DEF Next, Writer, Purge, Process

\* Nothing has been fetched, nothing is on its way.
LEMMA OrderInit == Init => OrderInv
<1> SUFFICES ASSUME Init PROVE OrderInv
  OBVIOUS
<1>1. Pending = <<>>
  BY EmptySeq, ConcatEmptySeq DEF Init, Pending
<1>2. RowsKnown
  BY DEF Init, Empty, RowsKnown
<1> QED
  BY <1>1, <1>2, NothingInOrder DEF OrderInv, InOrder

\* From the channel to the row the answers of a key stay in order, whatever
\* fails in between.
THEOREM AnswersInOrder == Spec => []InOrder
<1>1. Init => OrderInv
  BY OrderInit
<1>2. TypeOK /\ OrderInv /\ [Next]_vars => OrderInv'
  BY OrderStep
<1>3. OrderInv => InOrder
  BY DEF OrderInv
<1> QED
  BY <1>1, <1>2, <1>3, TypeCorrect, PTL DEF Spec

\* A row of the store is never replaced by an older answer.
THEOREM RowsOnlyMoveForward == Spec => RowsMoveForward
<1>1. Init => OrderInv
  BY OrderInit
<1>2. TypeOK /\ OrderInv /\ [Next]_vars => OrderInv'
  BY OrderStep
<1>3. TypeOK /\ OrderInv /\ [Next]_vars
        => [\A k \in Keys : store[k] # None /\ store'[k] # None
               => store[k].ver <= store'[k].ver]_vars
  BY OrderStep
<1> QED
  BY <1>1, <1>2, <1>3, TypeCorrect, PTL DEF Spec, RowsMoveForward

=============================================================================
