----------------------------- MODULE CacheStore -----------------------------
(***************************************************************************)
(* The two layers of the cache in cache.rs and main.rs: the RAM cache, the *)
(* redb store behind it, the write-behind channel and its batching writer, *)
(* the periodic purge, and what a crash, a graceful stop and the warm load *)
(* of the next start do to them.                                           *)
(*                                                                         *)
(* An answer is known by its key, the number of the upstream answer for    *)
(* that key it is (its version), its TTL and its expiry.  Time is counted  *)
(* in seconds of the wall clock, which never steps back here.  From an     *)
(* upstream answer to its insertion takes no time on that clock; the warm  *)
(* load does take time: the clock is read once, before the rows are, and   *)
(* moka counts the lifetime of each entry from its own insertion.  A redb  *)
(* transaction commits as a whole or not at all.                           *)
(***************************************************************************)
EXTENDS Integers, Sequences, FiniteSets

CONSTANTS Keys,                 \* cache keys
          Answers,              \* what upstream answers are, for their TTL
          min_ttl, max_ttl, negative_ttl,
          None,                 \* no entry, no row
          PERSIST_CHANNEL_CAP,  \* capacity of the persist channel
          BATCH_MAX,            \* entries that trigger a flush
          max_entries,          \* cache.max_entries of config.toml
          MaxTime,              \* bound: the last second of a behaviour
          MaxVersion            \* bound: upstream answers per key

\* An answer is whether it is an NXDOMAIN, and the TTLs of its records.
IsLeast(t, ttls) == t \in ttls /\ \A u \in ttls : t <= u

ASSUME CacheStoreAssumption ==
    /\ IsFiniteSet(Keys)
    /\ min_ttl \in Nat /\ max_ttl \in Nat /\ negative_ttl \in Nat
    /\ min_ttl <= max_ttl        \* clamp panics otherwise
    /\ \A a \in Answers :
          /\ a.ttls \subseteq Nat
          /\ a.ttls # {} => \E t \in a.ttls : IsLeast(t, a.ttls)
    /\ PERSIST_CHANNEL_CAP \in Nat \ {0}
    /\ BATCH_MAX \in Nat \ {0}
    /\ max_entries \in Nat
    /\ MaxTime \in Nat
    /\ MaxVersion \in Nat

Clamp(t) == IF t < min_ttl THEN min_ttl ELSE IF t > max_ttl THEN max_ttl ELSE t

\* Mutant of EffectiveTtl: negative answers escape the clamp.
EffectiveTtlNegative(a) ==
    IF a.nxdomain \/ a.ttls = {} THEN negative_ttl
                                 ELSE Clamp(CHOOSE t \in a.ttls : IsLeast(t, a.ttls))

\* The least TTL of the records, or the one for negative answers, within the
\* limits.
EffectiveTtl(a) ==
    Clamp(IF a.nxdomain \/ a.ttls = {}
            THEN negative_ttl
            ELSE CHOOSE t \in a.ttls : IsLeast(t, a.ttls))

Ttls == {EffectiveTtl(a) : a \in Answers}

Entry == [ver : Nat, ttl : Nat, exp : Nat]           \* CachedResponse
Item  == [key : Keys, val : Entry]                   \* what travels to disk

\* An entry moka holds, and (history) whether the warm load inserted it.
Live  == [val : Entry, dead : Nat, warm : BOOLEAN]

VARIABLES now,      \* now_unix()
          phase,    \* "loading" (main fills the cache), "up", "stopping"
                    \* (SIGINT was received) or "down"
          fetched,  \* the version of the last answer for each key
          ram,      \* the moka cache
          chan,     \* the persist channel
          buf,      \* run_writer's buffer
          batch,    \* the batch a blocking thread commits, if any
          store,    \* the rows of redb
          doomed,   \* the keys purge_expired is about to remove
          loading,  \* the entries main has still to insert at a start
          delay,    \* history: seconds the warm load of this process has taken
          owed      \* history: what was on its way to disk at a graceful stop

load == <<loading, delay>>

vars == <<now, phase, fetched, ram, chan, buf, batch, store, doomed, load, owed>>

TypeOK ==
    /\ now \in 0 .. MaxTime
    /\ phase \in {"loading", "up", "stopping", "down"}
    /\ fetched \in [Keys -> 0 .. MaxVersion]
    /\ ram \in [Keys -> Live \cup {None}]
    /\ chan \in Seq(Item)
    /\ buf \in Seq(Item)
    /\ batch \in Seq(Item)
    /\ store \in [Keys -> Entry \cup {None}]
    /\ doomed \in SUBSET Keys
    /\ loading \in [Keys -> Entry \cup {None}]
    /\ delay \in 0 .. now
    /\ owed \in SUBSET Item

Empty == [k \in Keys |-> None]

Init ==
    /\ now = 0
    /\ phase = "up"
    /\ fetched = [k \in Keys |-> 0]
    /\ ram = Empty
    /\ chan = <<>>
    /\ buf = <<>>
    /\ batch = <<>>
    /\ store = Empty
    /\ doomed = {}
    /\ loading = Empty
    /\ delay = 0
    /\ owed = {}

-----------------------------------------------------------------------------
\* Helpers.

Items(s) == {s[i] : i \in DOMAIN s}

\* expire_after_create: max(ttl_secs, 1) seconds from the insertion.
Expiry(ttl) == IF ttl = 0 THEN 1 ELSE ttl

\* What moka holds for an entry inserted now: its ttl_secs count from here.
Insert(e, warm) == [val |-> e, dead |-> now + Expiry(e.ttl), warm |-> warm]

\* try_send: a full channel refuses the entry, which still lives in RAM.
TrySend(s, x) == IF Len(s) < PERSIST_CHANNEL_CAP THEN Append(s, x) ELSE s

IsLast(s, k, i) ==
    s[i].key = k /\ \A j \in DOMAIN s : s[j].key = k => j <= i

\* write_batch inserts in order: the last row of a key wins.
Written(rows, s) ==
    [k \in Keys |->
        IF \E i \in DOMAIN s : IsLast(s, k, i)
          THEN s[CHOOSE i \in DOMAIN s : IsLast(s, k, i)].val
          ELSE rows[k]]

\* Mutant of Valid: expired rows are returned too.
AllRows == {k \in Keys : store[k] # None}

\* Keys whose row has expired, and keys read_all_valid returns.
Expired == {k \in Keys : store[k] # None /\ store[k].exp <= now}
Valid   == {k \in Keys : store[k] # None /\ store[k].exp > now}

-----------------------------------------------------------------------------
\* The query path.

\* to_cached: the next answer for k, with the TTL effective_ttl gives it.
ToCached(k, ttl) == [ver |-> fetched[k] + 1, ttl |-> ttl, exp |-> now + ttl]

\* A miss is answered by the upstream: the entry is offered to the persister
\* and inserted.  try_get_with lets only one task do this for a key, and only
\* while the key is absent.
Fetch(k, ttl) ==
    LET e == ToCached(k, ttl) IN
    /\ phase = "up"
    /\ ram[k] = None
    /\ fetched[k] < MaxVersion
    /\ fetched' = [fetched EXCEPT ![k] = @ + 1]
    /\ chan' = TrySend(chan, [key |-> k, val |-> e])
    /\ ram' = [ram EXCEPT ![k] = Insert(e, FALSE)]
    /\ UNCHANGED <<now, phase, buf, batch, store, doomed, load, owed>>

\* moka evicts the entry for room, or it expires within its last second.
Evict(k) ==
    /\ ram[k] # None
    /\ ram' = [ram EXCEPT ![k] = None]
    /\ UNCHANGED <<now, phase, fetched, chan, buf, batch, store, doomed, load, owed>>

\* A second passes; what is past its deadline can no longer be read.
Tick ==
    /\ now < MaxTime
    /\ now' = now + 1
    /\ ram' = [k \in Keys |->
                  IF ram[k] # None /\ ram[k].dead < now + 1 THEN None ELSE ram[k]]
    /\ delay' = IF phase = "loading" THEN delay + 1 ELSE delay
    /\ UNCHANGED <<phase, fetched, chan, buf, batch, store, doomed, loading, owed>>

-----------------------------------------------------------------------------
\* run_writer and flush.  While a batch is being committed the writer waits.

\* Mutant of WriterRecv: the size of the buffer is not looked at.
WriterRecvNoLimit ==
    /\ phase = "up" /\ batch = <<>> /\ chan # <<>>
    /\ chan' = Tail(chan)
    /\ buf' = Append(buf, Head(chan))
    /\ UNCHANGED <<now, phase, fetched, ram, batch, store, doomed, load, owed>>

\* Mutant of WriterRecv: the entry goes to the front of the buffer.
WriterRecvFront ==
    /\ phase = "up" /\ batch = <<>> /\ chan # <<>>
    /\ chan' = Tail(chan)
    /\ LET all == <<Head(chan)>> \o buf IN
          IF Len(all) >= BATCH_MAX THEN batch' = all /\ buf' = <<>>
                                   ELSE buf' = all /\ UNCHANGED batch
    /\ UNCHANGED <<now, phase, fetched, ram, store, doomed, load, owed>>

\* rx.recv() wins the select.
WriterRecv ==
    /\ phase = "up" /\ batch = <<>> /\ chan # <<>>
    /\ chan' = Tail(chan)
    /\ LET all == Append(buf, Head(chan)) IN
          IF Len(all) >= BATCH_MAX THEN batch' = all /\ buf' = <<>>
                                   ELSE buf' = all /\ UNCHANGED batch
    /\ UNCHANGED <<now, phase, fetched, ram, store, doomed, load, owed>>

\* Mutant of WriterTick: only a full batch is flushed.
WriterTickWaits ==
    /\ phase = "up" /\ batch = <<>> /\ Len(buf) >= BATCH_MAX
    /\ batch' = buf
    /\ buf' = <<>>
    /\ UNCHANGED <<now, phase, fetched, ram, chan, store, doomed, load, owed>>

\* tick.tick() wins the select; flush returns at once on an empty buffer.
WriterTick ==
    /\ phase = "up" /\ batch = <<>> /\ buf # <<>>
    /\ batch' = buf
    /\ buf' = <<>>
    /\ UNCHANGED <<now, phase, fetched, ram, chan, store, doomed, load, owed>>

\* The blocking thread commits, also while the runtime shuts down.
CommitOk ==
    /\ phase # "down" /\ batch # <<>>
    /\ store' = Written(store, batch)
    /\ batch' = <<>>
    /\ UNCHANGED <<now, phase, fetched, ram, chan, buf, doomed, load, owed>>

\* Mutant of CommitFail: the batch is queued again.
CommitFailRequeues ==
    /\ phase # "down" /\ batch # <<>>
    /\ chan' = chan \o batch
    /\ batch' = <<>>
    /\ UNCHANGED <<now, phase, fetched, ram, buf, store, doomed, load, owed>>

\* write_batch fails: a warning is logged, the batch is gone.
CommitFail ==
    /\ phase # "down" /\ batch # <<>>
    /\ batch' = <<>>
    /\ UNCHANGED <<now, phase, fetched, ram, chan, buf, store, doomed, load, owed>>

-----------------------------------------------------------------------------
\* purge_expired: a read transaction, then a write transaction.

PurgeRead ==
    /\ phase = "up" /\ doomed = {}
    /\ Expired # {}
    /\ doomed' = Expired
    /\ UNCHANGED <<now, phase, fetched, ram, chan, buf, batch, store, load, owed>>

PurgeWrite ==
    /\ phase # "down" /\ doomed # {}
    /\ store' = [k \in Keys |-> IF k \in doomed THEN None ELSE store[k]]
    /\ doomed' = {}
    /\ UNCHANGED <<now, phase, fetched, ram, chan, buf, batch, load, owed>>

PurgeFail ==
    /\ phase # "down" /\ doomed # {}
    /\ doomed' = {}
    /\ UNCHANGED <<now, phase, fetched, ram, chan, buf, batch, store, load, owed>>

-----------------------------------------------------------------------------
\* Crash, stop and start.

\* The process dies, also in the middle of the warm load: main listens for
\* SIGINT only once everything runs.
Crash ==
    /\ phase # "down"
    /\ phase' = "down"
    /\ ram' = Empty
    /\ chan' = <<>> /\ buf' = <<>> /\ batch' = <<>>
    /\ doomed' = {}
    /\ loading' = Empty /\ delay' = 0
    /\ owed' = {}
    /\ UNCHANGED <<now, fetched, store>>

\* ctrl_c(): main returns and the runtime drops its tasks, the writer with
\* its buffer and the channel among them.  Blocking work that has started
\* runs to its end, work that has not is dropped.
Stop ==
    /\ phase = "up"
    /\ phase' = "stopping"
    /\ owed' = Items(batch) \cup Items(buf) \cup Items(chan)
    /\ ram' = Empty
    /\ chan' = <<>> /\ buf' = <<>>
    /\ batch' \in {batch, <<>>}
    /\ doomed' \in {doomed, {}}
    /\ delay' = 0
    /\ UNCHANGED <<now, fetched, store, loading>>

Exit ==
    /\ phase = "stopping" /\ batch = <<>> /\ doomed = {}
    /\ phase' = "down"
    /\ UNCHANGED <<now, fetched, ram, chan, buf, batch, store, doomed, load, owed>>

\* Mutant of ReadAllValid: an entry keeps the TTL it was stored with.
ReadAllValidFullTtl ==
    /\ phase = "down"
    /\ phase' = "loading"
    /\ \E first \in SUBSET Valid :
          /\ Cardinality(first) <= max_entries
          /\ first # Valid => Cardinality(first) = max_entries
          /\ loading' = [k \in Keys |-> IF k \in first THEN store[k] ELSE None]
    /\ owed' = {}
    /\ UNCHANGED <<now, fetched, ram, chan, buf, batch, store, doomed, delay>>

\* main reads the unexpired rows, with what is left of their lifetime by the
\* clock of this moment, and keeps the first max_entries of them.  (Which ones
\* these are depends on the order of the rows.)
ReadAllValid ==
    /\ phase = "down"
    /\ phase' = "loading"
    /\ \E first \in SUBSET Valid :
          /\ Cardinality(first) <= max_entries
          /\ first # Valid => Cardinality(first) = max_entries
          /\ loading' = [k \in Keys |->
                            IF k \in first
                              THEN [store[k] EXCEPT !.ttl = store[k].exp - now]
                              ELSE None]
    /\ owed' = {}
    /\ UNCHANGED <<now, fetched, ram, chan, buf, batch, store, doomed, delay>>

\* One cache.insert(..).await of main's loop.
LoadEntry(k) ==
    /\ phase = "loading" /\ loading[k] # None
    /\ ram' = [ram EXCEPT ![k] = Insert(loading[k], TRUE)]
    /\ loading' = [loading EXCEPT ![k] = None]
    /\ UNCHANGED <<now, phase, fetched, chan, buf, batch, store, doomed, delay, owed>>

\* The loop is over: the writer, the purge and the listeners are started.
Loaded ==
    /\ phase = "loading" /\ loading = Empty
    /\ phase' = "up"
    /\ UNCHANGED <<now, fetched, ram, chan, buf, batch, store, doomed, load, owed>>

\* The store cannot be read: a warning, and a cold cache.
StartCold ==
    /\ phase = "down"
    /\ phase' = "up"
    /\ owed' = {}
    /\ UNCHANGED <<now, fetched, ram, chan, buf, batch, store, doomed, load>>

-----------------------------------------------------------------------------
Writer == WriterRecv \/ WriterTick \/ CommitOk \/ CommitFail

Purge == PurgeRead \/ PurgeWrite \/ PurgeFail

Start == ReadAllValid \/ (\E k \in Keys : LoadEntry(k)) \/ Loaded \/ StartCold

Process == Crash \/ Stop \/ Exit \/ Start

Next ==
    \/ \E k \in Keys : (\E ttl \in Ttls : Fetch(k, ttl)) \/ Evict(k)
    \/ Tick
    \/ Writer
    \/ Purge
    \/ Process

Spec == Init /\ [][Next]_vars

\* The writer task and its blocking thread are scheduled.
FairSpec == Spec /\ WF_vars(Writer)

-----------------------------------------------------------------------------
\* What is on its way to disk, oldest first.
Pending == batch \o buf \o chan

\* What an answer of this process may still be read after its expiry: a
\* second if its TTL is 0, which moka cannot represent, and for a row of an
\* earlier process as long as the warm load has taken.
Grace(k) ==
    IF ram[k].warm THEN delay
                   ELSE IF ram[k].val.ttl = 0 THEN 1 ELSE 0

\* README: "Entries serve until they expire".  Whatever is read from RAM is
\* gone when the expiry computed at its upstream answer has passed.  The one
\* exception is an entry of a warm load, whose remaining lifetime is measured
\* before all rows are read and counted from its insertion: it may be read
\* longer, by no more than that load took, and however many processes the
\* answer has lived through, only by the load of the last one.
NeverPastExpiry ==
    \A k \in Keys : ram[k] # None =>
        /\ now <= ram[k].dead
        /\ ram[k].dead <= ram[k].val.exp + Grace(k)

ShortLived(s) == \A i \in 1 .. Len(s) : s[i].val.exp <= now + max_ttl

\* config.rs: "TTL floor/ceiling applied to upstream answers".  Wherever an
\* answer is, in RAM, on its way to disk or in a row that a later process will
\* load, it has at most max_ttl seconds to live (one if that is 0).
BoundedLife ==
    /\ \A k \in Keys : ram[k] # None => ram[k].dead <= now + Expiry(max_ttl)
    /\ \A k \in Keys : store[k] # None => store[k].exp <= now + max_ttl
    /\ ShortLived(chan) /\ ShortLived(buf) /\ ShortLived(batch)

\* cache.rs: "Bounded so a lagging disk can't grow memory without limit".
\* However long a commit takes, the channel and one batch are all there is.
BoundedMemory ==
    /\ Len(chan) <= PERSIST_CHANNEL_CAP
    /\ Len(buf) < BATCH_MAX
    /\ Len(buf) + Len(batch) <= BATCH_MAX

\* The entries of a key come in the order of their answers ...
Ascending(s) ==
    \A i, j \in 1 .. Len(s) :
        i < j /\ s[i].key = s[j].key => s[i].val.ver < s[j].val.ver

\* ... and each is newer than the row it is going to replace.
NewerThanRows(s, rows, last) ==
    \A i \in 1 .. Len(s) :
        /\ s[i].val.ver <= last[s[i].key]
        /\ rows[s[i].key] # None => rows[s[i].key].ver < s[i].val.ver

\* Batching, commits that fail, evictions and restarts keep the order of the
\* answers of a key all the way from the channel to the row.
InOrder == Ascending(Pending) /\ NewerThanRows(Pending, store, fetched)

\* A row is only ever replaced by a newer answer.
RowsMoveForward ==
    [][\A k \in Keys : store[k] # None /\ store'[k] # None
          => store[k].ver <= store'[k].ver]_vars

\* The writer flushes a partial batch too: an entry the channel accepted does
\* not stay in memory for ever.
PendingDrains ==
    \A k \in Keys, v \in 1 .. MaxVersion :
        (\E x \in Items(Pending) : x.key = k /\ x.val.ver = v)
            ~> ~(\E x \in Items(Pending) : x.key = k /\ x.val.ver = v)

\* cache.rs on purge_expired: "Delete expired rows so the file doesn't grow
\* without bound."  A row it deletes has expired.
PurgeOnlyExpired ==
    [][\A k \in Keys : store[k] # None /\ store'[k] = None
          => store[k].exp <= now]_vars

\* deploy/rust-dns.service: "Graceful stop lets the cache flush."  After one,
\* what was on its way to disk is there.
GracefulStopFlushes ==
    phase = "down" =>
        \A x \in owed : store[x.key] # None /\ store[x.key].ver >= x.val.ver

=============================================================================
