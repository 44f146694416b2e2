# rust-dns: TLA+ specification

TLA+ modules that model the concurrent and failure-prone parts of rust-dns (a
filtering, caching DNS forwarder), TLC configurations that check them on small
instances, and TLAPS proofs of the results that should hold for every size.
Definitions are translated from the Rust code; `PROJECT.json` maps each one to
the lines it models.

## The system

| Component | State | Operations | Talks to |
|---|---|---|---|
| Listeners (`dns.rs`) | in-flight semaphore, open TCP connections | receive, admit or drop, send | pipeline (spawned task or call) |
| Pipeline `handle()` (`dns.rs`) | per task: where it is, the packet, config snapshot | parse, blocklist, cache, forward, log | cache, upstream, stats, two channels |
| Upstream (`upstream.rs`) | semaphore, token bucket, server list (ArcSwap) | resolve (UDP, TCP, failover), validate, `set_servers` | upstream servers |
| Cache (`cache.rs`) | moka cache, persist channel, writer's buffer, batch, redb rows | insert, expire, batch, commit, purge, warm load | pipeline, disk |
| Query log (`qlog.rs`) | log channel, buffer, segment and temporary files | batch, write + rename, retention, query | pipeline, admin API, disk |
| Blocklist (`blocklist.rs`) | two sets of names (ArcSwap), its file | parse, match, save, swap | pipeline, admin API |
| Admin API (`web.rs`, `config.rs`) | config (ArcSwap), token, two files and their temporary files | auth, get/set config and blocklist, stats, logs | everything above |
| Process (`main.rs`) | phase | load or create the files, generate the token, warm load, SIGINT | everything above |
| Portal (`index.html`) | browser page | read, edit, post whole lists | admin API |

Components share memory through `AppState`: swapped pointers, semaphores,
counters and channels. Every packet is a task of its own; the two writers, the
purge and the web server are tasks too, and disk work is on blocking threads.

What is hard here, and what makes each part correct:

* **Upstream** - three waits in a row (permit, rate, network) and four ways out,
  under a list that may change. Permits must be conserved; limiter and permits
  together must bound the traffic; a call must go through the list it started
  with; only a matching reply may be accepted.
* **Pipeline** - tasks of different clients share one upstream call and its
  error. No second call for a key, nobody waits for a call that is over, replies
  carry the asker's id and question, edits apply to packets that arrive after
  them, permits and counters add up, every admitted packet leaves.
* **Cache** - an answer lives in RAM and on disk, in processes that crash in
  between. Nothing is served past its expiry (but for the time a warm load takes),
  memory is bounded, rows only move forward, the purge only removes what has
  expired, no answer lives longer than `max_ttl`.
* **Query log** - files are written, listed, read and deleted concurrently, with
  failures at each step. A record is logged at most once, a query never sees half
  a segment, retention removes the oldest, down to the cap and no further, and
  keeps counting what it could not remove.
* **Admin API** - handlers read, modify and store config, files and memory without
  a lock, share a temporary file, and may fail or die at each step. Nobody without
  the token gets in, and the token in force never changes (overlapping edits can
  leave an empty `config.toml`, with which the next start fails: run
  `admin_torn`); a request that ran alone leaves memory and file in agreement, or
  has changed nothing; a crash leaves whole files; the list blocks what its lines
  mean, also after a restart.

`PROJECT.json` lists the hazards at their lines with the properties that would
catch them.

## Modules

| Module | Models | Main variables |
|---|---|---|
| `Upstream` | `Upstream::resolve`, one action per await or return | `servers`, `permits`, `tokens`; per caller `upc`, `query`, `rest`, `wire` |
| `UpstreamRate` | the same with a clock, counters of the current second and the servers a call has given up on | `slot`, `granted`, `sent`, `asked` |
| `DnsService` | what the pipeline promises to clients; no code | `asked`, `answer`, `inforce` per client; `blocklist`, `mode` |
| `Pipeline` | listeners, `handle()`, moka's `try_get_with`, live edits; composes `Upstream` through `INSTANCE ... WITH Callers <- Tasks` | per task `pc`, `req`, `cfg`, `outcome`, `reply`; `inflight`, `flight`, `cache`, `stats` |
| `CacheStore` | `effective_ttl`, RAM cache, persist channel, `run_writer`, redb, purge, crash / stop / start with the warm load | `ram`, `chan`, `buf`, `batch`, `store`, `doomed`, `loading`, `phase`, `now` |
| `QueryLog` | `run_writer`, `write_segment`, `enforce_retention`, `query` | `chan`, `buf`, `wpc`, `recs`, `segs`, `tmps`, `todo`, `qpc` |
| `Blocklist` | `from_text`, `normalize`, `is_blocked`, `to_file_text` as operators, and what a line means by the documentation | |
| `AdminApi` | `auth`, `set_config`, `set_blocklist`, `write_atomic`, `load_or_create`, the token, `from_file`, crash and start | `boot`, `config`, `servers`, `blocklist`, `file`, `tmp`; per writer `pc`, `job`, `at` |
| `UpstreamProofs`, `UpstreamRateProofs`, `PipelineProofs`, `CacheStoreProofs`, `QueryLogProofs`, `BlocklistProofs`, `AdminApiProofs` | theorems about the module of that name | |
| `AdminFilesProofs` | theorems about the files of `AdminApi`, on top of `AdminApiProofs` and `BlocklistProofs` | |
| `MCUpstream`, `MCPipeline`, `MCCacheStore`, `MCQueryLog`, `MCAdminApi` | instances for TLC | |

Correspondence, where it is not obvious:

* An action ends where the code awaits, or where another task could see the
  difference. `handle()` is cut at each load of shared state (`Parse`, `Blocked` /
  `Allowed`, `Hit` / `Miss`, `JoinLate` / `Lead` / `Follow`, `Wake`): config,
  blocklist and cache can change between any two.
* A leader's upstream call is a sequence of `Upstream` actions; `Complete` and
  `Fail` are the end of moka's init future, which wakes all followers of the key
  with the same result. moka, governor, redb and DataFusion are modelled from how
  the code uses them and marked external.
* An attempt at a server uses a fresh socket, so it sees one reply, chosen from
  all messages, or an error. `GiveUp` is a socket error, a timeout or a reply
  that `valid_response` refuses; the code does not wait for a second reply.
* A DNS message is its response bit, id and question; a question is name, type
  and class. The lower-casing of names is dropped: a name is its lower-case form.
* In `Pipeline` a blocklist is the set of the names that it blocks, and
  `set_blocklist` and `set_config` are their effect on memory: a request that is
  refused, or whose file cannot be written, changes nothing there. `set_config`
  sets the servers and then stores the config, two steps; one runs at a time.
  The files, and requests that overlap, are in `AdminApi`.
* In `Blocklist` a line is a sequence of tokens: labels, and the marks `normalize`
  and a reader of URLs look for, `Sep` (`://`), `Cut` (`/` or `:`) and `Query`
  (`?`). Dots are between labels that stand side by side; `Nil` is an empty label,
  as after a final dot. `Normalize` cuts as the code does: behind the first `://`
  wherever it is, in front of the first `/` or `:`, without final dots. `Covers` is
  the reference: what the documentation says a line blocks, by the host a pasted
  URL has. `Misread` marks the lines where the two part: a `://` that does not end
  a scheme (`a.com/?next=https://b.com` is read as `b.com`), and a query right
  behind the host, which is not cut off (`a.com?x`). The comment at
  `blocklist.rs:109` promises to strip "scheme/path/port/trailing dot if a user
  pastes a URL"; the code does so for all other lines, which is what
  `BlocksAsDocumented` says.
* `IsOdd` marks the lists with an entry whose scheme hides a leading `*.` or `#`
  (`http://*.x`): the code stores the host as a plain name, writes it without the
  scheme and reads it back as a wildcard or a comment. The documentation gives such
  a line no meaning, and the properties leave these lists out.
* `write_atomic` is three steps, `Open` (create or truncate), `Write`, `Rename`,
  and each may fail. Both files have one temporary file each, whoever writes: two
  requests can have it open at a time. A descriptor follows its file through a
  rename (`at` = `"path"`) and out of the directory (`"unlinked"`). A text written
  over another one leaves the end of a longer one behind: `Torn`, or harmless.
* A torn blocklist parses, as some list; a torn or empty config does not, and
  `main()` returns the error.
* Bodies of requests are any of a set, at any time and in any order: also what
  a portal page sends that was loaded before somebody else's edit. The portal
  itself keeps no state on the server.
* History variables of `AdminApi`: `served` (tokens that were in force), `solo`
  and `clean` (whether the last change of a file was one request without another
  one beside it), `kept` (what was in force, or about to be, at a crash).
* In `CacheStore` a `Fetch` is a whole miss (what happens inside it is
  `Pipeline`'s part): `try_send` and insertion. A version numbers the upstream
  answers of a key, so that "newer" can be said. An upstream answer is its response
  code and the TTLs of its records; `EffectiveTtl` is what the code makes of them
  (the least one, or the negative TTL, between `min_ttl` and `max_ttl`).
* `DnsService` has one step per thing a client can see: `Ask`, `Answer`, `Over`, and
  the admin's `Edit`. A reply has the asker's id; it is the sinkhole's if a list
  in force since the packet came has the name, and an answer for the name and type,
  or a SERVFAIL, if one does not. `Pipeline!Service` maps to it. So an edit applies
  to every packet that comes after it, while a packet that is being handled may
  still meet what was in force before (list and mode are loaded one after the
  other, so it may meet one of each).
* The wall clock of `CacheStore` never steps back. The one of `QueryLog` may.
* On SIGINT main returns and the runtime drops its tasks, and the writer's buffer
  and channel with them. Blocking work that has started runs to its end.
* The warm load is a step per await: `ReadAllValid` reads the clock and the rows,
  `LoadEntry` inserts one, `Loaded` starts the rest; the clock may tick and the
  process die in between. It keeps at most `max_entries` rows in table order, which
  the abstract keys do not show: any subset of that size. `ttl_secs` is the rest of
  the lifetime at the one reading of the clock (`cache.rs:102`), and moka counts it
  from the insertion (`main.rs:64-66`): an entry may be served past `expires_unix`,
  by as long as the load took. `NeverPastExpiry` states exactly that (`Grace`,
  history `delay`); the row keeps its expiry, so the delays of several restarts do
  not add up. src/README.md:221 does not mention it.
* The key of the cache is name and type. A question of another class gets the
  cached answer, question section included (`dns.rs:43-51`), although
  `valid_response` compares the class of an upstream's reply. No document claims
  otherwise, and `ReplyForAsker` speaks of id, name and type.
* `qlog` being `None` (logging disabled) is a log channel of size 0 in `Pipeline`:
  the result of `try_send` is ignored either way.
* Segment names are compared as pairs of milliseconds and `SEQ`. As text they are
  ordered the same way until `SEQ` has more than six digits within a millisecond.

## Runs

| Run | Expectation | Shows |
|---|---|---|
| `upstream` | pass | permits conserved, grants and traffic of a second bounded, a call keeps to one list while it is swapped |
| `upstream_ceiling` | violation | `max_qps` is not a ceiling on queries: failover and TCP retry are not metered |
| `pipeline` | pass | the safety properties of the query path |
| `pipeline_edits` | pass | with live edits and limits of 0: implements `DnsService`, every packet leaves |
| `store` | pass | expiry over restarts and slow warm loads, TTL ceiling, bounded memory, order of answers, draining |
| `store_purge` | violation | the purge can delete a fresh row |
| `store_stop` | violation | a graceful stop does not flush the cache |
| `qlog` | pass | once-only logging, whole segments, retention with failing removals, order of names, draining |
| `qlog_cap` | violation | left-over temporary files escape the cap |
| `admin` | pass | the token gate holds and the token in force stays the same through edits, failures and crashes; files and memory agree; crashes leave whole files; the list blocks what it says |
| `admin_open` | violation | an empty token does not disable auth: a random one replaces it |
| `admin_torn` | violation | two requests at a time can leave an empty `config.toml` |

The violations are findings: a doc or comment says one thing, the code does
another. Each is quoted in `PROJECT.json`. In `admin_open` the comment at
`config.rs:119` is wrong and the code is right: `src/README.md:179`,
`config.example.toml` and another comment of `config.rs` agree with it. `Authorised`
states what holds.

Bounds. `upstream`: three callers over two permits make one wait; a list of two
servers has a failover, and swapping lists under a caller's feet is possible.
`pipeline`: two UDP handlers and a connection over two in-flight permits make
one packet too many; three packets (two of the same question from different ids,
one of another type, or malformed) allow a leader, a follower and a late joiner;
channels of one are full at once; the cache may be warm at the start.
`pipeline_edits`: an edit and its opposite around two packets. `store`: two
answers for each of two keys, a channel of one and batches of two, so entries are
refused and batches full or partial; room for one of two rows in the warm load;
TTL 0 and a TTL that spans a crash; two seconds, which may pass in a load. `qlog`: a
segment of two rows and one of one row over a cap of one row, so a pass deletes
none, one or two; two milliseconds, two starts, one step back. `admin`: two
handlers at a time and three requests, so that two overlap and one comes after
them (or after a crash); three starts, so that a crash during the start, one
while serving and the start after it all happen; first starts without files, with
a legacy token and with an operator's token; bodies with good, empty and bad
entries; lists with plain, wildcard and comment lines, URLs with port, path, final
dot or another URL inside, and lines that are misread, against all names of up to
three labels. It says `CHECK_DEADLOCK FALSE`: after the last request and the
last crash nothing is left to do. Arrivals, edits,
answers, records and time are bounded by constants named `Max...`.

Symmetry is used in runs without liveness, over UDP handlers, callers, request
handlers and random tokens only.

Fairness. `Pipeline!FairSpec`: weak fairness of each task's own steps (tokio
runs a task that is ready, and every network wait of `resolve()` except the
write of `query_tcp` has a timeout) and of the refill of the bucket (time
passes). Nothing is assumed about clients, admins, or the writers behind the
channels. Weak fairness is enough although neither the limiter nor a task that
loses a race is served in order, because arrivals are finite.
`CacheStore!FairSpec` and `QueryLog!FairSpec`: weak fairness of the writer task
and its blocking thread together; a commit may fail, it does not hang.

## Proofs

Every invariant that a passing run checks is proved for every value of the
constants, and so are the action properties and the two refinements. Liveness is
not (see the end of this section).

Assumptions are the named `ASSUME`s of the modules, which TLC evaluates in every
run: limits are naturals, channel capacities and `BATCH_MAX` positive (they are
constants of the code), tasks, callers and keys finite; the values that stand for
"nothing", "empty" and "torn" are none of the values beside which they are used;
what operators and clients send is made of the labels, servers and options there
are; random tokens are not guessed; the label `*` is not one that starts with
`#`. `AddrsAssumption` states what `SelectSeq` makes of a server list, which the
prover's library has no theorem about.

* `UpstreamInvariant`: `Spec => [](TypeOK /\ PermitsConserved)`. Their
  conjunction is inductive, neither is alone: that a returned permit does not
  exceed the semaphore needs the count, and the count needs `permits` to be a
  number. One step per action;
  the counting is in the lemmas `OneMore`, `OneLess` and `SameHolders`.
* `ResolveAnswers`: a call that succeeds has a response with the id and the
  question it was called with, and a call between two servers has one left.
* `RatePermits`, `RateInvariant`, `RateTypes`: every step of the rate
  specification is one of `Upstream`'s (lemma `RateImplements`), so its invariants
  hold there; `GrantBound` is inductive with the types.
* `CallsKeepTheirList`: `OneList` from `AskedInv`, which adds that a call that has
  not begun its loop has given up on nobody and that the list in use is a
  configured one. A swap changes `servers` and no call's `rest`; a server a call
  gives up on moves from the head of `rest` to the end of `asked`.
* `RateWireBound`: `WireBound` alone is not inductive: a call granted in one
  second may send in the next. `Left` is the number of queries each caller may still
  send before it must ask the limiter again (two per server left, less what it has
  sent to the present one); the strengthening `WireInv` is that what was sent and
  what is left fit the bound together. A new second starts with what is left,
  at most two per server and permit, because only holders of a permit have any; a
  grant adds two per server. `Left` is counted as a set of tickets, one per query,
  to use the library's theorems on cardinality. The longest list so far is a
  witness, since the list may be swapped at any time.
* `PipelineServesClients`, `PipelineSingleFlight`, `PipelineNoOrphans`,
  `PipelineReplyForAsker`, `PipelineCacheHoldsOwnKey`,
  `PipelineInflightConserved`, `PipelineStatsAddUp`, `PipelineTypes`. The
  invariant comes in parts, each inductive given the earlier ones. `Control`
  (where a packet may be) suffices to show that every step is one of `Upstream`'s
  or leaves it alone (lemma `PipelineUsesUpstream`); so `UpstreamInvariant` and
  `ResolveAnswers` hold of the calls made here. `Flights`: a key has a leader
  exactly while that task is inside `resolve()` with its own packet, and nobody
  waits at a key without one. `Answers`: outcome, reply and cache entries belong
  to their keys (from `ResolveAnswers`, since `Complete` publishes what the leader
  got). `Ledgers`: free permits plus those who occupy one, and counters plus those
  inside `handle()`. `Seen`: the history of what was in force contains the mode a
  task loaded and, past the blocklist, a moment when its name was not on it; with
  it each step maps to one of `DnsService` or a stutter.
* `TypeCorrect`, `NeverServedStale`: `Valid` keeps the remaining lifetime positive.
  `ExpiryInv` adds to `NeverPastExpiry` that an entry still to be inserted has as
  remaining lifetime its expiry less the time of the reading, so that what a tick
  during the load adds to its deadline it adds to `delay`, too; once the process
  is up, `delay` stands still.
* `LifeIsBounded`: no answer in RAM, in the channel, in a batch or on disk has more
  than `max_ttl` seconds left. It rests on `TtlBounds` (`EffectiveTtl` is between
  the limits, whatever the answer) and on the clock that only advances. It assumes
  `min_ttl <= max_ttl`: otherwise `clamp` panics.
* `MemoryIsBounded`: buffer and batch are never full together, because the
  writer receives only while no batch is being committed.
* `AnswersInOrder`, `RowsOnlyMoveForward`: `InOrder` speaks of the concatenation
  of batch, buffer and channel; the strengthening adds that rows hold versions
  that were fetched. The writer's moves leave the concatenation as it is, a fetch
  appends a version nobody has seen, a commit moves a prefix into the rows (the
  last entry of each key wins), a failed commit or a crash drops a part.
* `QueryLogTypes`, `QueryLogRecordOnce`, `QueryLogNeverHalfRead`,
  `QueryLogSegmentsCapped`, `QueryLogStopsWithinCap`, `QueryLogNamesInOrder`,
  `QueryLogDeletesNoMore`, from one invariant of eight parts. Once-only logging
  follows from the order of arrival: what is in memory is newer than what is on
  disk (`Ordered`), and the rename is the one step that moves records from one to
  the other. For retention the running total of `enforce_retention` is at least
  what it may still remove and at most what is there, and equal to both in a pass
  that met no failure (`Retention`); so it does not underflow, deletes nothing
  below the cap, and stops at or below it. With failures it is exactly what the
  listed files that are still there take (`Account`), so a file that cannot be
  removed counts on. For the names, no name in use comes after the next one while
  the clock has not stepped back (`Named`), over restarts too, when the counter
  starts from 0 again.
* `BlocksWhatLinesCover`, `SavedListReadBack`: of the operators of `Blocklist`, for
  all texts and names. What the loop of `is_blocked` computes is a recursive
  function over the labels: `SuffixInMeans` shows by an explicit solution of its
  equation, and the least place where another one could differ, that it finds
  exactly the suffixes in the set. `NormalizeFindsHost` shows that the cuts of
  `normalize` leave the host of every line that is not `Misread`.
* `OnlyAuthorised`, `TokenSurvives`: `IInv` of `AdminApiProofs`. That the token is
  kept is not inductive: a rename publishes whatever the shared temporary file
  holds. The strengthening says that every whole text on disk has the token
  that has ever been served (`Disk`), that every request writes it (`Edits`), and
  how far the start is: a generated token is in the file before anything is served
  (`Stage`, `MainWrites`). A temporary file left by a crashed start may hold
  another token; then the file beside it has none that is usable, and the next
  start truncates the temporary file before it renames it (last conjunct of `Disk`).

* `FilesSettled`, `FilesDurable`, `ListBlocksAsDocumented`, `AdminTypes`: `FInv` of
  `AdminFilesProofs`, beside `IInv`. Requests that overlap share a temporary file,
  and nothing can be said of it then. A request that has been alone since it
  began (`solo`) owns it (`Solos`): it is empty when the request writes, has its
  text when it renames, and what was renamed is in the file until it is
  installed. What it writes is what saves what it will install (`Jobs`, with
  `SavedListReadBack`). While a file is `clean`, only such requests are under
  way for it and memory and file agree up to the rename (`Cleans`), and this
  is restored by the `Store` of any such request, also over a file that was
  not clean. So a crash finds the old or the new version (`Left`), and a start reads
  it. `ListBlocksAsDocumented` adds `BlocksWhatLinesCover`. `AdminTypes` holds of
  overlapping requests, too: a blocklist file that is neither missing, empty nor
  torn has an operator's text, the default one or what `to_file_text` makes of a
  posted text, and the list in force was read from one of these or from a posted
  text; a config is made of servers and tokens that came from operators, bodies and
  `random_token`.

Checked by TLC only: liveness (`EveryPacketLeaves`, `PendingDrains`,
`RecordsLeaveMemory`), which is out of the prover's reach. The violations of the
other runs are counterexamples, not theorems.

## Not modelled

* Byte formats: DNS messages, the codec of redb rows, Parquet, TOML, HTTP, the
  characters of a blocklist line. They change no state; each is abstracted to what
  the rest of the code tells apart.
* The portal (rendering and input), the load generator and the tests, and the
  handlers that only read (`get_config`, `get_blocklist`, `get_stats`).
* Panics (`clamp` with `min_ttl > max_ttl`, a poisoned worker) and listeners that
  cannot bind.
* Loss of power: what was written and renamed is taken to be on disk
  (`write_atomic` does not sync). SIGINT is a `Crash` of `AdminApi`.
* A wall clock that steps back under the cache; it may under the query log.

Two statements of the documentation are about nothing in the code, so there is
nothing to check: that a blocklist file copied over is picked up while running
(src/README.md:171-172; no code watches or rereads the file, only a start does)
and that records refused by a full log channel count as dropped
(src/README.md:186-187; `try_send`'s result is ignored in `dns.rs`, and `dropped`
counts packets).

## Plan

1. For `config.toml`, `AdminTypes` bounds each field by itself; that a whole config
   on disk is, as a whole, one that some request was asked to write would need a
   history of what was asked. For the blocklist file it is proved.
2. The safety half of what liveness rests on: that a writer with something to
   do always has a step that is enabled, stated without `ENABLED`.
