------------------------------ MODULE QueryLog ------------------------------
(***************************************************************************)
(* The query log of qlog.rs: the bounded channel from the query path, the  *)
(* batching writer, the segments it writes through a temporary file and a  *)
(* rename, the retention that deletes the oldest of them, and the queries  *)
(* of the admin API that read the directory meanwhile.                     *)
(*                                                                         *)
(* A record is known by its number in the order of arrival.  Parquet, zstd *)
(* and SQL are left out: a segment takes one unit of disk per row, and a   *)
(* query reads every segment whatever its filters.  A graceful stop is a   *)
(* Crash that comes when no segment is being written: main returns, and    *)
(* the runtime drops the channel and the writer's buffer (the branch of    *)
(* run_writer for a closed channel is never taken, AppState holds a        *)
(* sender).  The process may die; the operating system does not.           *)
(***************************************************************************)
EXTENDS Integers, Sequences, FiniteSets

CONSTANTS LOG_CHANNEL_CAP,  \* capacity of the log channel
          flush_rows,       \* rows that trigger a flush
          max_bytes,        \* size cap, in rows
          Torn,             \* what a half-written segment holds
          MaxRecords,       \* bound: records logged
          MaxTime,          \* bound: the last millisecond
          MaxSteps          \* bound: times the wall clock steps back

Records == 1 .. MaxRecords

ASSUME QueryLogAssumption ==
    /\ LOG_CHANNEL_CAP \in Nat \ {0}
    /\ flush_rows \in Nat
    /\ max_bytes \in Nat
    /\ MaxRecords \in Nat /\ MaxTime \in Nat /\ MaxSteps \in Nat
    /\ Torn \notin Records /\ Torn \notin Seq(Records)

VARIABLES now,     \* now_ms()
          steps,   \* history: how often the clock has stepped back
          proc,    \* "up", "closed" (run_writer has returned) or "down"
          sent,    \* how many records have been handed in
          chan,    \* the log channel
          buf,     \* run_writer's buffer
          wpc,     \* where write_segment is: "idle" when none is running
          recs,    \* the records write_segment is writing
          name,    \* the segment it is writing
          SEQ,     \* the static counter
          segs,    \* the *.parquet files of the directory
          tmps,    \* the *.tmp files and their sizes
          todo,    \* the files enforce_retention has still to look at
          total,   \* its running total
          capped,  \* history: the last pass saw all files and no failure
          listed,  \* history: the files the last pass has listed
          qpc,     \* where a query is
          qfiles,  \* the files it has still to read
          rows     \* the records it has read, or Torn

memory    == <<chan, buf, recs>>
retention == <<todo, total, capped, listed>>
query     == <<qpc, qfiles, rows>>
clock     == <<now, steps>>
vars == <<clock, proc, sent, memory, wpc, name, SEQ, segs, tmps, retention,
          query>>

-----------------------------------------------------------------------------
\* Helpers.

Items(s) == {s[i] : i \in DOMAIN s}

Names == Nat \X Nat

\* The lexical order of two file names.  (It is that of the numbers as long as they
\* have the digits the format gives them: {:06} does for the first million segments
\* of a process.)
Before(m, n) == m[1] < n[1] \/ (m[1] = n[1] /\ m[2] < n[2])

Oldest(S) == CHOOSE m \in S : \A n \in S \ {m} : Before(m, n)

\* A directory entry is added or replaced, or removed.
With(d, n, x) == [m \in DOMAIN d \cup {n} |-> IF m = n THEN x ELSE d[m]]
Without(d, n) == [m \in DOMAIN d \ {n} |-> d[m]]

Rows(x) == IF x = Torn THEN 0 ELSE Len(x)

\* The disk space of some files, given the length of each: one unit per row.
DiskUsage(len, S) == Cardinality(UNION {{n} \X (1 .. len[n]) : n \in S})

SizeOf(S) == DiskUsage([n \in S |-> Rows(segs[n])], S)

\* flush_rows.max(1)
FlushRows == IF flush_rows = 0 THEN 1 ELSE flush_rows

\* Mutant of TrySend: send without a bound.
SendUnbounded(s, x) == Append(s, x)

\* try_send: a full channel refuses the record.
TrySend(s, x) == IF Len(s) < LOG_CHANNEL_CAP THEN Append(s, x) ELSE s

\* Mutant of SegName: the counter alone.
SegNameBySeq == <<0, SEQ>>

\* format!("qlog-{:014}-{:06}.parquet", now_ms(), seq)
SegName == <<now, SEQ>>

-----------------------------------------------------------------------------
TypeOK ==
    /\ now \in 0 .. MaxTime
    /\ steps \in 0 .. MaxSteps
    /\ proc \in {"up", "closed", "down"}
    /\ sent \in 0 .. MaxRecords
    /\ chan \in Seq(Records) /\ Len(chan) <= LOG_CHANNEL_CAP
    /\ buf \in Seq(Records) /\ Len(buf) < FlushRows
    /\ wpc \in {"idle", "create", "fill", "rename", "list", "delete"}
    /\ recs \in Seq(Records) /\ Len(recs) <= FlushRows
    /\ name \in Names
    /\ SEQ \in Nat
    /\ DOMAIN segs \subseteq Names
    /\ \A n \in DOMAIN segs : segs[n] = Torn \/ segs[n] \in Seq(Records)
    /\ DOMAIN tmps \subseteq Names
    /\ \A n \in DOMAIN tmps : tmps[n] \in 0 .. FlushRows
    /\ todo \subseteq DOMAIN segs
    /\ total \in Nat
    /\ capped \in BOOLEAN
    /\ listed \subseteq Names
    /\ qpc \in {"idle", "plan", "read"}
    /\ qfiles \subseteq Names
    /\ rows \subseteq Records \cup {Torn}

Init ==
    /\ now = 0 /\ steps = 0
    /\ proc = "up"
    /\ sent = 0
    /\ chan = <<>> /\ buf = <<>> /\ recs = <<>>
    /\ wpc = "idle"
    /\ name = <<0, 0>>
    /\ SEQ = 0
    /\ segs = [n \in {} |-> Torn]
    /\ tmps = [n \in {} |-> 0]
    /\ todo = {} /\ total = 0 /\ capped = TRUE /\ listed = {}
    /\ qpc = "idle" /\ qfiles = {} /\ rows = {}

-----------------------------------------------------------------------------
\* The query path hands in a record.  Without a receiver it is lost, too.
Send ==
    /\ proc # "down"
    /\ sent < MaxRecords
    /\ sent' = sent + 1
    /\ chan' = IF proc = "up" THEN TrySend(chan, sent + 1) ELSE chan
    /\ UNCHANGED <<clock, proc, buf, recs, wpc, name, SEQ, segs, tmps,
                   retention, query>>

\* run_writer awaits write_segment, so it receives only when none is running.

\* rx.recv() wins the select.
Recv ==
    /\ proc = "up" /\ wpc = "idle" /\ chan # <<>>
    /\ chan' = Tail(chan)
    /\ LET all == Append(buf, Head(chan)) IN
          IF Len(all) >= FlushRows
            THEN recs' = all /\ buf' = <<>> /\ wpc' = "create"
            ELSE buf' = all /\ UNCHANGED <<recs, wpc>>
    /\ UNCHANGED <<clock, proc, sent, name, SEQ, segs, tmps, retention, query>>

\* Mutant of FlushTick: the buffer is copied, not taken.
FlushTickCopies ==
    /\ proc = "up" /\ wpc = "idle" /\ buf # <<>>
    /\ recs' = buf
    /\ wpc' = "create"
    /\ UNCHANGED <<clock, proc, sent, chan, buf, name, SEQ, segs, tmps,
                   retention, query>>

\* Mutant of FlushTick: only a full buffer is flushed.
FlushTickWaits ==
    /\ proc = "up" /\ wpc = "idle" /\ Len(buf) >= FlushRows
    /\ recs' = buf
    /\ buf' = <<>>
    /\ wpc' = "create"
    /\ UNCHANGED <<clock, proc, sent, chan, name, SEQ, segs, tmps, retention,
                   query>>

\* tick.tick() wins the select; flush returns at once on an empty buffer.
FlushTick ==
    /\ proc = "up" /\ wpc = "idle" /\ buf # <<>>
    /\ recs' = buf
    /\ buf' = <<>>
    /\ wpc' = "create"
    /\ UNCHANGED <<clock, proc, sent, chan, name, SEQ, segs, tmps, retention,
                   query>>

-----------------------------------------------------------------------------
\* write_segment, on a blocking thread.

\* Mutant of Create: the segment is written in place.
CreateInPlace ==
    /\ wpc = "create"
    /\ name' = SegName
    /\ SEQ' = SEQ + 1
    /\ segs' = With(segs, SegName, Torn)
    /\ wpc' = "fill"
    /\ UNCHANGED <<clock, proc, sent, memory, tmps, retention, query>>

\* The name is chosen, the temporary file created and partly written.
Create ==
    /\ wpc = "create"
    /\ name' = SegName
    /\ SEQ' = SEQ + 1
    /\ \E size \in 0 .. Len(recs) : tmps' = With(tmps, SegName, size)
    /\ wpc' = "fill"
    /\ UNCHANGED <<clock, proc, sent, memory, segs, retention, query>>

\* The writer is closed: the file is complete.
Fill ==
    /\ wpc = "fill"
    /\ tmps' = With(tmps, name, Len(recs))
    /\ wpc' = "rename"
    /\ UNCHANGED <<clock, proc, sent, memory, name, SEQ, segs, retention, query>>

\* The segment appears under its final name.
Rename ==
    /\ wpc = "rename"
    /\ segs' = With(segs, name, recs)
    /\ tmps' = Without(tmps, name)
    /\ recs' = <<>>
    /\ wpc' = "list"
    /\ capped' = FALSE
    /\ UNCHANGED <<clock, proc, sent, chan, buf, name, SEQ, todo, total, listed,
                   query>>

\* A step of write_segment fails: a warning; the records are gone, what has
\* been written of the temporary file stays, retention does not run.  (The
\* counter moves between build_batch and File::create.)
WriteFail ==
    /\ wpc \in {"create", "fill", "rename"}
    /\ SEQ' \in IF wpc = "create" THEN {SEQ, SEQ + 1} ELSE {SEQ}
    /\ recs' = <<>>
    /\ wpc' = "idle"
    /\ UNCHANGED <<clock, proc, sent, chan, buf, name, segs, tmps, retention,
                   query>>

-----------------------------------------------------------------------------
\* enforce_retention.

\* The segments are listed; one whose metadata cannot be read is left out.
List ==
    /\ wpc = "list"
    /\ \E files \in SUBSET DOMAIN segs :
          /\ todo' = files
          /\ listed' = files
          /\ total' = SizeOf(files)
          /\ capped' = (files = DOMAIN segs)
    /\ wpc' = "delete"
    /\ UNCHANGED <<clock, proc, sent, memory, name, SEQ, segs, tmps, query>>

\* read_dir fails.
ListFail ==
    /\ wpc = "list"
    /\ wpc' = "idle"
    /\ UNCHANGED <<clock, proc, sent, memory, name, SEQ, segs, tmps, retention,
                   query>>

\* Mutant of Delete: a directory exactly at the cap is still cut.
DeleteAtCap ==
    /\ wpc = "delete" /\ todo # {} /\ total >= max_bytes
    /\ LET f == Oldest(todo) IN
          /\ segs' = Without(segs, f)
          /\ total' = total - Rows(segs[f])
          /\ todo' = todo \ {f}
    /\ UNCHANGED <<clock, proc, sent, memory, wpc, name, SEQ, tmps, capped, listed,
                   query>>

\* Mutant of Delete: one file per pass.
DeleteOne ==
    /\ wpc = "delete" /\ todo # {} /\ total > max_bytes
    /\ LET f == Oldest(todo) IN
          /\ segs' = Without(segs, f)
          /\ total' = total - Rows(segs[f])
          /\ todo' = {}
    /\ UNCHANGED <<clock, proc, sent, memory, wpc, name, SEQ, tmps, capped, listed,
                   query>>

\* The first file in lexical order goes while the total is over the cap.
Delete ==
    /\ wpc = "delete" /\ todo # {} /\ total > max_bytes
    /\ LET f == Oldest(todo) IN
          /\ segs' = Without(segs, f)
          /\ total' = total - Rows(segs[f])
          /\ todo' = todo \ {f}
    /\ UNCHANGED <<clock, proc, sent, memory, wpc, name, SEQ, tmps, capped, listed,
                   query>>

\* Mutant of DeleteFail: the result of remove_file is not looked at.
DeleteFailUnseen ==
    /\ wpc = "delete" /\ todo # {} /\ total > max_bytes
    /\ todo' = todo \ {Oldest(todo)}
    /\ total' = total - Rows(segs[Oldest(todo)])
    /\ capped' = FALSE
    /\ UNCHANGED <<clock, proc, sent, memory, wpc, name, SEQ, segs, tmps, listed,
                   query>>

\* remove_file fails: the file keeps counting, the next one is tried.
DeleteFail ==
    /\ wpc = "delete" /\ todo # {} /\ total > max_bytes
    /\ todo' = todo \ {Oldest(todo)}
    /\ capped' = FALSE
    /\ UNCHANGED <<clock, proc, sent, memory, wpc, name, SEQ, segs, tmps, total,
                   listed, query>>

\* The loop ends: under the cap, or out of files.
Done ==
    /\ wpc = "delete" /\ (todo = {} \/ total <= max_bytes)
    /\ todo' = {} /\ total' = 0 /\ listed' = {}
    /\ wpc' = "idle"
    /\ UNCHANGED <<clock, proc, sent, memory, name, SEQ, segs, tmps, capped, query>>

-----------------------------------------------------------------------------
\* query(): DataFusion lists the directory and then opens file after file.

\* has_segments: an empty directory is answered at once.
QueryBegin ==
    /\ proc # "down" /\ qpc = "idle"
    /\ rows' = {}
    /\ qpc' = IF DOMAIN segs = {} THEN "idle" ELSE "plan"
    /\ UNCHANGED <<clock, proc, sent, memory, wpc, name, SEQ, segs, tmps,
                   retention, qfiles>>

\* register_parquet; a table over no file has no columns and the query fails.
QueryPlan ==
    /\ qpc = "plan"
    /\ qfiles' = DOMAIN segs
    /\ qpc' = IF DOMAIN segs = {} THEN "idle" ELSE "read"
    /\ UNCHANGED <<clock, proc, sent, memory, wpc, name, SEQ, segs, tmps,
                   retention, rows>>

QueryRead(f) ==
    /\ qpc = "read" /\ f \in qfiles \cap DOMAIN segs
    /\ rows' = rows \cup (IF segs[f] = Torn THEN {Torn} ELSE Items(segs[f]))
    /\ qfiles' = qfiles \ {f}
    /\ qpc' = IF qfiles = {f} THEN "idle" ELSE "read"
    /\ UNCHANGED <<clock, proc, sent, memory, wpc, name, SEQ, segs, tmps,
                   retention>>

\* A file has been removed since it was listed, or the memory pool is used up.
QueryFail ==
    /\ qpc \in {"plan", "read"}
    /\ qpc' = "idle" /\ qfiles' = {} /\ rows' = {}
    /\ UNCHANGED <<clock, proc, sent, memory, wpc, name, SEQ, segs, tmps,
                   retention>>

-----------------------------------------------------------------------------
\* The wall clock, the process.

\* (While the process is down the clock advances with its next start.)
Tick ==
    /\ proc # "down" /\ now < MaxTime
    /\ now' = now + 1
    /\ UNCHANGED <<steps, proc, sent, memory, wpc, name, SEQ, segs, tmps,
                   retention, query>>

\* SystemTime is not monotonic.
StepBack ==
    /\ now > 0 /\ steps < MaxSteps
    /\ now' = now - 1
    /\ steps' = steps + 1
    /\ UNCHANGED <<proc, sent, memory, wpc, name, SEQ, segs, tmps, retention,
                   query>>

\* (A crash leaves time for the next start.)
Crash ==
    /\ proc # "down" /\ now < MaxTime
    /\ proc' = "down"
    /\ chan' = <<>> /\ buf' = <<>> /\ recs' = <<>>
    /\ wpc' = "idle"
    /\ todo' = {} /\ total' = 0 /\ listed' = {} /\ capped' = (capped /\ wpc # "delete")
    /\ qpc' = "idle" /\ qfiles' = {} /\ rows' = {}
    /\ UNCHANGED <<clock, sent, name, SEQ, segs, tmps>>

\* main spawns run_writer, which fails if the directory cannot be created.
\* A start takes a millisecond at least.
Start ==
    /\ proc = "down"
    /\ now' = now + 1
    /\ SEQ' = 0
    /\ proc' \in {"up", "closed"}
    /\ UNCHANGED <<steps, sent, memory, wpc, name, segs, tmps, retention, query>>

-----------------------------------------------------------------------------
WriteSegment ==
    Create \/ Fill \/ Rename \/ WriteFail \/ List \/ ListFail \/ Delete
        \/ DeleteFail \/ Done

Writer == Recv \/ FlushTick \/ WriteSegment

Query ==
    \/ QueryBegin \/ QueryPlan \/ QueryFail
    \/ \E f \in qfiles : QueryRead(f)

Next == Send \/ Writer \/ Query \/ Tick \/ StepBack \/ Crash \/ Start

Spec == Init /\ [][Next]_vars

\* The writer task and its blocking thread are scheduled.
FairSpec == Spec /\ WF_vars(Writer)

-----------------------------------------------------------------------------
InMemory == Items(chan) \cup Items(buf) \cup Items(recs)

OnDisk == UNION {Items(segs[n]) : n \in {m \in DOMAIN segs : segs[m] # Torn}}

\* A record is logged at most once: it is never in two segments, nor in one
\* and still on its way, whatever fails and whenever the process dies.
RecordOnce ==
    /\ InMemory \cap OnDisk = {}
    /\ Cardinality(InMemory) = Len(chan) + Len(buf) + Len(recs)
    /\ \A m, n \in {x \in DOMAIN segs : segs[x] # Torn} :
          m # n => Items(segs[m]) \cap Items(segs[n]) = {}

\* qlog.rs: "so a query never reads a half-written segment".
NeverHalfRead == Torn \notin rows

\* A pass of enforce_retention that saw every segment and removed what it
\* tried to leaves the segments within max_bytes.
SegmentsCapped ==
    wpc = "idle" /\ capped => SizeOf(DOMAIN segs) <= max_bytes

\* qlog.rs: "Delete oldest segments until the directory is under `max_bytes`".
\* A segment is deleted only while the segments exceed the cap.
DeletesNoMore ==
    [][DOMAIN segs \subseteq DOMAIN segs'
          \/ SizeOf(DOMAIN segs) > max_bytes]_vars

\* A pass that stops before it has tried every file it listed leaves those that
\* are still there within the cap: a file that could not be removed keeps counting,
\* and newer ones go in its place (enforce_retention subtracts only what is gone).
StopsWithinCap ==
    [][Done => todo = {} \/ SizeOf(listed \cap DOMAIN segs) <= max_bytes]_vars

\* In two segments, every record of the first in lexical order is older.
Chronological ==
    \A m, n \in {x \in DOMAIN segs : segs[x] # Torn} : Before(m, n) =>
        \A a \in Items(segs[m]), b \in Items(segs[n]) : a < b

\* qlog.rs: "Names are timestamp-prefixed, so lexical order is chronological",
\* over restarts, which reset SEQ, as long as the clock does not step back.
NamesInOrder == steps = 0 => Chronological

\* The writer flushes a partial buffer too: no record stays in memory.
RecordsLeaveMemory ==
    \A r \in Records : r \in InMemory ~> r \notin InMemory

\* config.rs on max_bytes: "Hard size cap for the log directory (bytes)."  When
\* a pass of enforce_retention ends that met no failure, the files of the
\* directory are within it: the segments, and the temporary files that
\* crashes and failed writes left behind.
DirectoryCapped ==
    [][Done /\ capped =>
          SizeOf(DOMAIN segs) + DiskUsage(tmps, DOMAIN tmps) <= max_bytes]_vars

=============================================================================
