# A verification of rust-http-proxy in TLA+

This directory holds TLA+ models of `rust-http-proxy`, a caching forward proxy for
HTTP and HTTPS written in Rust with the standard library only, the TLC
configurations that check them, and proofs that TLAPS checks. The models are read
from the code under `src/`; every definition that stands for code is listed with
its file and lines in `PROJECT.json` under `map`.

To check: `tlc -config <run>.cfg <Module>.tla` for each run of section 4, and
`tlapm <Module>Proofs.tla` for each module of section 5.

## 1. Inventory of the system

The proxy is one process with many threads and no async runtime. The threads that
matter for correctness:

* one accept thread per listening socket (`crates/server/src/lib.rs`),
* pool threads `conn`, one per connection being served (`crates/workers`),
* one idle watcher that keeps parked keep-alive connections and quiet tunnels in
  epoll (`crates/server/src/idle.rs`),
* housekeeping threads: cache prober and sweeper, DNS refresher and resolvers, pool
  sweeper, `.env` watcher, blocklist, history and its savers.

They share state through mutexes and atomic counters. Locks are short: most
operations look at the state under a lock and act (send, connect, open a file)
without it. Nearly every hazard of `PROJECT.json` is of that kind.

### Components

| Component (lines) | State | What is hard | What makes it correct | Module |
|---|---|---|---|---|
| Thread pool `workers` (793) | idle stack of senders, queue of jobs, count of live threads, limit | a submit racing a thread that times out; seats over panics and failed spawns; changes of the limit | seats add up, no job waits without a watcher, each job in one place, first in first out | `Workers`, `JobPool` |
| Connections `server` (4081) | open and overflow counts, table of clients, parked connections, deadlines | limits checked before they are counted; wake-ups; expiry racing readiness and eviction; three timeouts on one socket option | each connection has one custodian, is closed or resumed once and returns its share once; waits end; what is parked is clean | `Admission`, `IdleWatch`, `ConnLoop` |
| Requests `http` (5167), `msg` (2948) | attempts, body read so far, 1xx sent, entry to fall back to; framing, stores and followers of an answer; pipes | dead pooled connections, early answers, 304s, stale entries; an origin that breaks off at any piece | a request that must not be repeated acts once, one answer; a body that is taken for complete is | `OriginFetch`, `Delivery`, `Bodies`, `Ranges`, `Passthrough` |
| Origin pool `origin` (1735) | idle sockets per host, atomic total, caps | the total is kept outside the lock | no socket has two users, the total is right up to what is under way | `OriginPool` |
| Disk tier `cachedisk` (1167) | index, files, bytes in flight | files and index change apart, check and reservation of room are apart, a crash anywhere | files and index agree, room is returned once, what was fresh survives | `DiskTier` |
| Two tiers `cache` (3666), coalescing `cachemem/inflight` | the tiers, variants per URL, revalidation tickets; leader and followers of a key | promotion racing invalidation; a leader that ends in any way, a follower that times out | a purged entry stays purged; a flight has its leader; tickets pair up | `Cache` |
| Memory tier `cachemem` (1314) | LRU store, ballast; filters of keys | batches, capacity read before the lock; two threads turn a filter over | accounts equal the contents, least recently used goes first, a key is remembered for its period | `MemTier`, `NotStored`, `Doorkeeper` |
| Freshness `freshness` (1117) | the head of an entry | a 304 that brings part of what a lifetime is computed from | no answer is kept or given longer than its origin let it | `Freshness` |
| Budget `capacity` (832), `cache/probe` | margins, history of usage | feedback with others, a walk that is old | the cache gives way, raises and refills are spaced | `Budget` |
| Size of the disk `diskprobe` (842) | the search and its small file | the process is killed for what it holds | what is learned fits, kills are bounded | `DiskProbe` |
| DNS `net-dns` (3331) | table of answers, names being refreshed, lookups in flight | a refresh lost on the way, late answers, idle exits | counters come back, a refresh that is marked is coming | `DnsTable`, `ResolverPool` |
| Connecting `net-conn` (2308) | candidates, attempts; losses and wins of IPv6 | deadline racing a late winner; counters without a lock | fails for cause only, no wait without an attempt; probes are spaced | `HappyEyeballs`, `Ipv6Policy` |
| Tunnels `tunnel` (2149) | two directions, pipes, half-closes | bytes left in a pipe, half-closes, parking | each byte once, the end last | `Tunnel`, `IdleWatch` |
| Configuration `config` (2960), `reload` (774), `base` (3364) | current settings, `.env` as last read | an edit between stamp and read; settings that need a restart | the settings are those of the file | `Reload` |
| Blocklist `blocklist` (965) | the list, the saved copy, stamps | settings, file and copy read at different moments | a change is noticed, an URL is not troubled too often | `Blocklist` |
| Records and rows `metrics-recent` (5560) | rings of records and their file; rows of connections; pictures of bursts | three writers to a row; a restart between two writes | a row fits who has it; the newest records are found again | `RecentFile`, `ConnRow`, `Bursts` |
| Statistics and history `metrics` (2342), `metrics-window` (4234), `metrics-slo` (4884), `rrd` (960) | tables and rings with a file; lines and snapshots of the days | a stop between two slots, conversion of old files, a clock that is set | in order, true, the newest survive; a day is written once | `StateFile`, `History`, `Days` |
| Other metrics `metrics-core` (4868), `-profile` (2509), `-types` (4440), `-watch` (4112), `prom` (1806) | counters, histograms | relaxed counters read one by one | nothing feeds back into the proxy | - |
| Keys and format `cachekey` (493), settings of the cache `cachecfg` (810), TLS `tls` (570), ACL `net` (756), pages `endpoints` (5343), `-core`, `-explain`, `web`, system `sys` (1793), `sysinfo` (3440), `run` (1042), tools `bench` (2666), `selfbench` (1132) | little or none of their own | - | - | - |

### How they interact

```
listener --admit--> Workers --ConnLoop--> lookup --miss--> OriginFetch --> OriginPool / HappyEyeballs
   |                  ^   |                 |                   |                        |
   |                  |   park            Cache <--store-- Delivery, Bodies        DnsTable, ResolverPool
   shares             |   v               /    \           Passthrough
 (Admission)        IdleWatch (epoll)  MemTier  DiskTier <-- Budget, DiskProbe
                      ^
                      +---- quiet tunnels (Tunnel)
```

A connection is accepted, gets a share of the limit (`OpenGuard`) and is handed to
the pool; a thread serves a request, parks the connection with the watcher, and the
watcher hands it to the pool again when it is readable, or closes it when it is
due or a tunnel is evicted to make room. A request that misses the cache is
forwarded over a pooled or a new connection and its body stored while it is
delivered. A reload changes the limits at any time.

## 2. Modules

| Module | Models | State and actions |
|---|---|---|
| `Workers` | `workers/src/workers.rs` | `queue`, `idle`, `live`, `max_live` are `Inner`; each thread and caller has a `pc` between two critical sections; a channel holds one job |
| `JobPool` | the promise of `Workers` | a job is accepted or given back, runs at most once, waits in order |
| `IdleWatch` | `server/src/idle.rs`, with `park_now`/`pump` of `conn.rs` and the resumption of tunnels | entries, deadlines, epoll registrations, events returned but not handled; the watcher step by step |
| `Admission` | `Admission`, `Limiter`, `spawn_connection` of `server/src/lib.rs`, guards of `conn.rs`, `conn_table.rs` | listeners with what they read; connections with the guards they hold; counters |
| `ConnLoop` | `server/src/conn.rs`, `conn/*.rs`, `msg/src/clientio.rs` | a connection from head to head: the socket's timeout, the deadlines, the buffer, parking, refusals and linger |
| `OriginFetch` | `fetch.rs`, `acquire_origin`, `examine_head` | one request: attempts, body, 1xx, stored entry, what the client gets |
| `Delivery` | `http/src/http/deliver.rs` | one answer: plan, head, body, store, flight, both connections |
| `Bodies` | `msg/src/body/framing.rs`, `reader.rs` | what comes of a body (whole, cut off, in the middle of a line, or with a bad line) and its reader |
| `Ranges` | `msg/src/body/range.rs`, `http/src/http/serve.rs` | an entry, an origin that publishes anew, a client that puts parts together |
| `Passthrough` | `http/src/http/passthrough.rs` | pipes, borrowed and given back |
| `OriginPool` | `origin/src/pool.rs` with `upstream.rs` | rows per host, the wrapping counter, threads between lock and counter |
| `Cache` | `cache/src/cache/*.rs`, `cachemem/src/inflight.rs`, `lookup.rs`, `refresh.rs` | both tiers, variants, flights, tickets; handlers and a background job |
| `MemTier`, `NotStored`, `Doorkeeper` | `cachemem/src/` | the LRU store with its ballast and capacity; the two filters |
| `DiskTier` | `cachedisk/src/disk/` | index, files, `in_flight`; writers, users between lock and file; crash and scan |
| `Freshness` | `freshness/src/freshness/`, `lookup.rs`, `reply.rs` | one entry, what its origin says, 304s, requests, the clock |
| `Budget`, `DiskProbe` | `cache/probe.rs`, `capacity`; `diskprobe` | the measuring thread against what others use; the search with kills and restarts |
| `DnsTable`, `ResolverPool` | `net-dns/src/dns/` | the table with its refresher; callers and resolver threads |
| `HappyEyeballs`, `Ipv6Policy` | `net-conn/src/net/` | one race of attempts; the counters that say which family goes first |
| `Tunnel` | `tunnel/src/tunnel/` | two directions, pumped by one thread; parking |
| `Reload`, `Blocklist` | `reload`, `base/src/envfile.rs`, `sysinfo/inotify.rs`; `blocklist` | the file with its edits and stamps, the thread that follows it |
| `RecentFile`, `StateFile`, `History`, `Days` | `metrics-recent`, `metrics/persist*`, `metrics-window`, `rrd`, `metrics-slo` | rings and tables in memory, their files write by write, stops at any point, restarts |
| `ConnRow`, `Bursts` | `metrics-recent/src/recent/` | the row of one connection and its writers; the picture of a burst |
| `MCWorkers`, `MCOriginFetch`, `MCCache` | instances | symmetry sets and sample values |
| `MCTables`, `MCFiles`, `MCServing` | instances of several modules side by side | `part` says which of them a behaviour is one of |
| `WorkersProofs`, `OriginFetchProofs`, `CacheProofs`, `IdleWatchProofs` | theorems about the module of that name (section 5) | inductive invariants |
| `ServingProofs`, `TablesProofs`, `BudgetProofs`, `DiskProofs` | theorems about the parts of `MCServing`, `MCTables` and `MCFiles` | the invariants of the parts, each under its `part` |

Conventions: one action is one critical section or one system call; where code
between two locks has no effect of its own, the model joins it to the section
before it. Names are those of the code. `Variant` definitions are broken forms of
the definition that follows; they are used to see that a property can fail and
are no part of a specification.

What is abstracted: names, bytes and times are small sets; sizes count units; an
LRU victim is any entry in `DiskTier` and `Cache`, while order matters in `Workers`
(queue), `MemTier` (use), `OriginPool` (newest first) and `IdleWatch` (deadlines,
oldest tunnel). Atomic counters are relaxed in the code; each has a single total
order, and no property here depends on the order between two counters.

## 3. Plan

1. Done: the modules above.
2. Proofs: done for `Workers`, `OriginFetch`, `Cache`, `IdleWatch`, every part of
   `serving` and of `tables`, and of `files` the disk tier, the settings, the blocklist and
   the size learned, see section 5. Left is what `FilesTellTheTruth` says.
3. Left to model, in the order of what they would add: the series of the busiest
   hosts (`metrics-types/hostseries.rs`), the tracker of the objectives
   (`metrics-slo/slo`), the detectors of `metrics-watch`, the end of the process
   (`sys/signal.rs`, `run/startup.rs`).

## 4. Runs

Several components are small enough that a run of their own would say little.
`MCTables`, `MCFiles` and `MCServing` put such modules side by side: a behaviour is
one of a single part (`part`), the parts share no state, and an invariant of the sum is
one of its parts under the condition that this part is followed. A part explores
the same states as it would alone.

### Runs that pass

**`workers_faults`** (2 callers, 3 threads, 3 jobs, one idle thread kept, limit
switching between 1 and 2, panics and failing `spawn`). Three jobs and a limit of one or
two make the queue grow to two and let a lowered limit leave a surplus thread; two
callers give every race between two submits, and between a submit and a thread on its
way out. It checks `JobsAccounted` (each job has one owner until it has run, come back
or been dropped, each idle thread one sender), `SeatsAccounted`, `QueueIsWatched`,
`NoIdleWhileQueued`, that seats are only added within the limit (`SeatsWithinLimit`),
and that the pool implements `JobPool`.

**`workers_live`** (1 caller, 3 threads, 3 jobs, limit 0 or 1, no faults).
`QueuedIsTaken`: a queued job is taken in the end. Here 0 is "no limit".

**`idle_safety`** (a keep-alive connection and a tunnel with two descriptors,
lifetimes 1 and 2, expiry in batches of 1, two events per `epoll_wait`, clock to 2,
three stays, failing `epoll_ctl`/`epoll_wait`, refusing pool, panicking watcher).
`LotAccounted` (entries, deadlines and counts agree; one custodian; a stopped
watcher holds nothing), `NoLostWake` (the watcher never sleeps past the earliest
deadline without a ring on its way), `WokenForCause` (no connection is resumed by an
event of an earlier stay), `KeptUntilDue`. One connection of each kind is enough for
every order of park, event, expiry and eviction; batches and events of one and two
are the smallest that split.

**`idle_live`** (the same, no faults but a watcher that starts late).
`DueIsReleased`, `ReadyIsReleased`.

**`fetch`** (3 connections; every kind of request, stored entry and answer).
`TriesBounded`, `ActedOnOnce` (a request with a body, or of another method than GET and
HEAD, reaches the origin once), `InterimFromOneTry`, `AnswerAllowed`,
`NextRequestAligned`. One request uses at most four connections, three of which may
have been pooled by others before.

**`cache`** (2 handlers, a background job, the key of a URL and one variant, two
versions at the origin, three requests). `FlightHasLeader` (who waits for a key
waits for somebody who is at work), `TicketsPaired` (a key is being revalidated only
while a job is), `PurgedFromDisk` (what was purged from the disk does not come back).
Two handlers give leader and follower, store and purge; the job is the third
party.

**`tables`**. The memory tier (`MemoryAgrees`, `LruFirst`), the filters
(`KeysAreRemembered`), freshness (`AnswersAreFresh`), the budget of each kind (memory of a
host, memory within a control group, a disk, a quota on it: `BudgetHolds`), the
pool of origin connections (`PoolAccounted`), names (`NamesAreServed`), the race of
attempts and the choice of the family (`RaceIsFair`), a tunnel
(`TunnelIsTransparent`), and what the pages show of bursts and connections
(`ShownIsTrue`). Bounds: three keys of sizes 1 and 2 in a capacity of 0 or 3; three
hosts, one more than the rows of the pool that may stay; two resolver threads and
three callers; two addresses per family; two bytes in a pipe; four rounds of the
thread that measures, with one change by others or by the requests between them.

**`files`**. `DiskAgrees` says that what the process goes by agrees with what is
outside of it: the disk tier with its files (2 keys, 2 writers, one other thread,
capacity 2 or 4 units with bodies of up to 3, one step of room ahead, one or two
entries in the index, a crash at any moment; also `FreshSurvive`), the settings with
theirs (3 edits), the blocklist with its file and its sources (an edit, a reload, a
restart), and the size learned with what the host grants (limits below, at and above
the first size). `FilesTellTheTruth` is about what is read back: the file of records
(ring of 2 in memory, 3 slots on disk, two stops), the file of hosts (2 slots), the
history (minutes of 2 and hours of 4 samples), the lines and snapshots of the days
(two days and a half with one stop, one write that fails and one setting of the
clock, two of the three together), and how often the search for the size is stopped.

**`serving`**. Admission (`SharesAccounted`: 2 listeners, 4 connections of 2 clients,
limit 1, one overflow slot, limit per client switched on and off; with `--lite` two
connections are followed), the life of a connection (`WaitsEnd`, `ParkedIsClean`,
`HeadPartIsKept`: each timeout off or on, three requests of at most five pieces),
bodies, their delivery, pipes and parts (`BodiesAreWhole`), and followers of an
answer (`WaitersAreTold`).

### Runs that show a disagreement

* **`workers_kept`**: a job is lost when a `submit` that popped a thread's sender
  sends after `recv_timeout` gave up and before the thread drops its receiver.
  `run` has returned `Ok`; the comments of `workers.rs` (20, 380) rule it out.
* **`splice`**: a pipe goes back to the pool with the bytes in it that a client broke
  off before, and the next transfer writes them out first (`passthrough.rs:43`;
  `passthrough.rs:55` says they are lost).
* **`blocklist`**: after a reload that changes `PROXY_BLOCKLIST_URL` the list is built
  from the saved copy of the old URL until the new one is due (`mod.rs:474`;
  `mod.rs:8` says that everything is applied at once).

### Seen while modelling, not made a run

Connections and threads:

* The cap of the pool in total is exceeded by puts that race (`pool.rs:33,137`);
  `OvershootBounded` says by how much. Between the push and the `fetch_add` of a
  `put`, a `get` subtracts first and the total wraps around (`pool.rs:159`). Two
  generations of rows may be there, where `pool.rs:109` speaks of `max_total + 1`.
* A submit that meets a timed-out thread whose seat is not back yet queues its job
  although a seat becomes free without being used (`workers.rs:199,207`).
* Connections that wait for a worker are not counted for their client yet
  (`conn.rs:287`), so a client may pass `PROXY_MAX_CONNS_PER_CLIENT`; and racing
  accept threads pass the limit in total by more than the four slots of
  `README.md:495-498`.
* `start` stores `true` into `park_watcher_alive` after the watcher may have
  stopped (`idle.rs:247`).
* `resume_conn` without a thread drops the connection without its `finish`; a read
  that times out drops a partial tail that is not UTF-8; an end of the stream ends a
  head as if it were complete; the limit of a line starts anew after an extension.
* The idle time of a new connection counts a whole interval of the tick; a CONNECT
  after other requests overwrites the target of the row.
* A hill may get more than one picture (`burst.rs:287` says one).
* A resolver's answer that comes after the timeout is lost (`pool.rs:152`).
* Requests probe IPv6 once in `PROBE_SECS` (`ipv6.rs:155`), but for one probe ever: one
  that slips in between the last loss and the store of its time lets the next one
  come at once (`ipv6.rs:122`).

Requests and cache:

* The retry of a request may use another pooled connection, though comments speak
  of a new one (`fetch.rs:315,322`).
* A body of unknown length exceeds `PROXY_CACHE_MAX_OBJECT_MB`, or its quarter of
  the budget, by the room reserved ahead, because `ensure_room` returns before it
  looks at the limit (`writer.rs:88`; `README.md:831`); two writers check the room
  together and both reserve it (`writer.rs:113`; `README.md:812`).
* `DiskTier::open` takes the later of two expiries, its comment says the one of the
  index (`mod.rs:281,293`). A removal that a reader or the sweeper has decided on
  may take an entry committed since. At the entry cap the scan does not compare
  the expiry of a twin it drops (`scan.rs:154`).
* An invalidation may leave the entry in memory that a promotion puts back
  (`ops.rs:364`); `PurgedFromDisk` is what holds.
* Entries and ballast pass the budget of the memory during races (`memory.rs` says
  always); a key that is not stored is remembered for longer than two periods when
  nobody asks.
* A 304 that brings only `Expires` overrides a stored `no-cache` or `max-age` in the
  lifetime, while the merged head keeps the old `Cache-Control`; a revalidated 404 is
  judged with status 200 (`policy.rs:127,196`); `Pragma` counts for a new answer and
  not for a stored head; a 304 without `Date` reuses the stored one.
* `If-Range` by date accepts two versions of one second; a range that is no number
  gives 416; a short body on disk would still keep the connection alive.
* `probe.rs:292` says that growth is never lost: it is when growth and shrinking
  fall into one interval, or `statvfs` failed at the walk. With a fixed quota the
  window of 60 s forgets what a walk every 600 s sees; with a fixed limit a shortage
  makes nothing back off.
* The slow mode of `DiskProbe` confirms by time only; an allocation that is not
  reached within ten minutes in the fast mode leads to the same kill again, where
  `README.md:1126` says that it is stopped twice at worst; the floor that was learned is
  not tried again.

Files and settings:

* Start-up: the reload thread starts (`startup.rs:36`) before the settings of the
  objectives, detectors and blocklist are configured from the snapshot of the start
  (204-212, 271), so a reload in between is overwritten. An edit between the load at
  start and the first stamp is unnoticed until the next one. After a rejected reload
  `restart_required` keeps the old list (`README.md:345`); `/config` may name the old
  layer as source (`README.md:348`).
* The blocklist stays `RUNNING` if its thread cannot be created; edits within one
  second are not seen.
* `slots.rs:50` says that the first record of a name counts, `restore` takes the
  newest (`persist.rs:139`). Rows overwritten before a tick are not in `dropped`;
  repeats that are merged after a write are not on disk.
* Only the window just over is rolled, a gap loses a minute or an hour. A record of
  the same second across the wrap of the ring makes `Ring::load` overwrite the
  newest. A crash during the conversion of an old file loses the statistics (as
  documented).
* Days: a write that failed is not tried again; a clock that went ahead suppresses
  later days until it is caught up; a restart over midnight loses the line and the
  snapshot of the day that ended; a line that was cut off is joined with the next and
  read as one; the sample at the border is counted twice after a restart; a snapshot
  taken after the clock was set back may be pruned at once. The snapshot at the end
  comes before the statistics and may use up the three seconds of grace.
* `hostseries.rs:23` bounds the rows by the table of hosts, but a row of `recent` is
  never removed; a host that was evicted from the table may get a slot by its old
  hits and then has no flag; a clock that is set back underflows
  `w - self.cur_win`; an absorbed row makes the delta of "other" jump.
* The prober may extend the ballast between its truncation and the end of the
  process.

### Bounds

Constants named `Max...` that have no counterpart in the code bound a counter: the
clock (`MaxNow` and its names in the sums), the stays (`MaxKey`), the commits
(`MaxStores`), stops, faults and edits. `Wrap` stands for 2^64: what matters is that it
is more than all threads together may owe the total. `LiteIsSmall` bounds
the part of `Admission` with `--lite`. Symmetry is used in safety runs only, over
threads, connections, hosts, keys and clients. `CHECK_DEADLOCK FALSE` stands where a
behaviour comes to its end: a request, a connection, a race, or a clock at its bound.

### Fairness

* `Workers`: weak fairness of every step of a caller, of a release and of a
  thread that has something to do. A thread between two locks does go on, and jobs
  are assumed to end (no panics: with panics a queued job can be overtaken for
  ever by new ones). Submits, changes of the limit and idle timeouts are not fair:
  the property holds although threads may never time out.
* `IdleWatch`: weak fairness of the watcher (a thread), of the clock and of the
  ring of every parker (a thread that has left the lock). What peers and the pool
  do is not fair.

The other modules have safety properties only.

## 5. Proofs

A theorem holds for all values of the constants: any number of threads,
connections, jobs or versions, any clock, any size of a body. The constants that
bound a counter (`Max...`) are arbitrary, so no theorem depends on a bound. In each
module an invariant is inductive: the initial states satisfy it, every action and
every stutter keeps it, and it implies the property that is stated.

**`WorkersProofs`** (`TypeCorrect`, `SeatsAlwaysAccounted`, `SeatsStayWithinLimit`,
`NeverIdleWhileQueued`, `QueueAlwaysWatched`, `JobsAlwaysAccounted`,
`PoolIsImplemented`). `IInv` says what each thread and caller has in its hand at
each step, and that the threads that hold a seat are as many as are counted; the
types alone are not inductive because a caller that sends needs a sender.
`SeatsStayWithinLimit` follows from it step by step. `WInv`
adds that every idle thread can still be reached (a job, a sender that somebody
popped, or one in the stack) and that a queue has a seat behind it: without this,
a thread that gives its seat back could leave the queue with nobody. `JInv` adds
that what is in a hand, in a channel and in the queue are different pending jobs,
and that senders are apart; this is what makes each job run at most once. A job
that was dropped is at its end like one that has run: `JobsAlwaysAccounted` does not say
that none is dropped, and the run `workers_kept` shows one that is. The
refinement maps the places of a job to the status that `JobPool` gives it
(`StatusTable`); each critical section is a step of `JobPool` or a stutter.

**`OriginFetchProofs`** (`FetchTyped`, `FetchTriesBounded`, `FetchActsOnce`,
`FetchInterimOnce`, `FetchAligned`, `FetchAnswersOnce`). `FInv` counts the tries
from the last refetch (`Attempts`), ties a request that may not be repeated to one try
(`OneTry`), and a 1xx to the try it came from (`OneSource`), and keeps in mind what
is left of the body until the answer is chosen (`Remembered`). `AInv` adds what the
client has been told so far (`Told`) and that an entry that may be needed is at
hand (`EntryInHand`).

**`CacheProofs`** (`CacheTypeCorrect`, `FlightAlwaysHasLeader`, `TicketsAlwaysPaired`,
`PurgedStaysOffDisk`). `CInv` says for each step of a request what its thread holds
(`HasKey`, `HasEntries`, `HasRole`), what a background job may do (`IsJob`) and that a
purge concerns versions that were published before it (`Purging`). `EveryStep` sorts the
actions into those that leave flights, tickets and disk alone and the few that do
not, so that each property is proved over the latter. A ticket has exactly one
owner, the handler until the job is started and the job from then on (`Tickets`).
A purge is final on the disk because whatever is still under way to the disk under
the key is not of the purged version (`NotBack`).

**`IdleWatchProofs`** (`LotAlwaysAccounted`, `NoWakeIsLost`, `WokenOnlyForCause`,
`ParkedIsKeptUntilDue`). `LInv` relates the table of entries, the ordered deadlines,
the registrations with epoll and the custodian of each connection, and says that
keys grow (`KeysAreOld`) and that an event that has been returned and whose entry is
still there is about a peer of that entry that did something (`Caused`): an event of
an earlier stay finds no entry because keys are not used again. `WakesInTime`
compares the watcher's timeout with every deadline instead of the first one: what
comes in later than the measurement and is due earlier leaves the bell standing, or
a parker about to ring it. `SmallestOf` (a finite set of
deadlines has a first one) rests on the library's theorem that finite subsets are
well-founded.

**`ServingProofs`** (`WaitsAlwaysEnd`, `ParkedAlwaysClean`, `HeadPartAlwaysKept`,
`WaitersAlwaysTold`, `SharesAlwaysAccounted`, `BodiesAlwaysWhole`) proves what the run
`serving` checks. `SamePart`: no step changes the part, so each part has an invariant
of its own (`EntryInv`, `ConnInv`, `BodyInv`, `AnswerInv`, `PipesInv`, `PartsInv`), and
what is proved is about the sum's instance of its module.

* The life of a connection (`LoopInv`, at the end of `ConnLoop`). It says what the thread
  knows of the one timeout of its socket, which keep-alive, header and read timeouts
  share (`SocketKnown`: what it remembers is what is set, and a socket without a timeout
  means that none is configured), that the deadline of a head is settled at its first
  byte and no `recv` is given more than what is left (`HeadClock`), and that nothing of a
  head is in hand between two requests (`HandsEmpty`). `KeptAlive` is needed because
  the wait of a kept connection is the keep-alive timeout, which must not be 0 there.
  That the parked are clean (`ParkedHoldsNothing`) is `HandsEmpty` at a step to
  the watcher.
* Admission (`AdmissionInv`). Each action gives one share, takes one back or none
  (`Gains`, `Returns`, `Steady`), which settles the counters. The bound on what is
  served is that of `PlainBounded`: the connections inside the limit and the threads
  that have found room for one more are together no more than the limit and the
  other threads, because a thread looks while at most the others are between their
  look and their count. The number of listeners, connections and clients and the
  limits that reloads may bring are arbitrary, where the run has one limit.
* Delivery (`DInv`, at the end of `Delivery`). It says how much of the answer has been
  passed on at each step (`Passed`), what a client sees whose answer was given up
  (`GivenUp`), how store, pool and flight stand (`Behind`) and what is out of the cache
  (`Replaced`). A body that was read before its head is whole when the head goes out;
  a body of known length is whole exactly when all of it is there (`LengthIsWhole`),
  which is why a client's count of bytes can be trusted. `WaitersAlwaysTold` is about
  this part alone, `BodiesAlwaysWhole` about it together with readers, pipes and parts.
* Bodies (`BodiesInv`). A body is told by where its size lines are and a reader by
  its position (`InPlace`): at such a line, in data of which as much is left as up
  to the next line, at their end, or in the trailers, as many as have been
  counted. What comes agrees with the body except for one line (`AsSent`). A reader
  that has taken a torn line for whole is at the end of the connection and gets no
  further. `OneLength` is about the scan of heads, for heads of any number of lines.
* Pipes (`PipesInv`). As long as nobody broke off, a pipe holds exactly what its
  transfer has not passed on, and pieces of its own body alone.
* Parts (`PartsInv`). What the client joins and what it is told is of the version
  that its condition names (`Tells`).

**`TablesProofs`** (`KeysAlwaysRemembered`, `AnswersAlwaysFresh`, `NamesAlwaysServed`,
`RaceAlwaysFair`, `TunnelAlwaysTransparent`, `PoolAlwaysAccounted`, `ShownIsAlwaysTrue`)
does the same for parts of `MCTables`; the inductive invariants stand at the end of
the modules.

* Filters (`FiltersInv`). A key that still counts is in the current filter, and was
  remembered before the turn that is due, or in the other one, and its period is over
  when the next turn is due. Threads read the clock before they take the lock, so what
  has to be said of a thread that turns the filters over is that by its own clock that
  is due (`TurnIsDue`), which the second look under the lock gives.
* Doorkeeper (`DoorInv`). A key that was met is in the current filter, or in the
  previous one and no more keys came after the turn than after itself.
* Freshness (`FreshnessInv`). What is stored says the same as the last
  `Cache-Control` of the origin (`SaysTheSame`), and is over or does not live longer
  than that gave it (`LivesAsLong`). Heads are arbitrary records of what a head may
  say, where the run has those of up to two lines; most lemmas are about lifetimes,
  ages and what a 304 fills in.
* The threads that resolve (`ResolverInv`). What the pool counts is what its callers
  and threads are doing: each number of the code is the size of a set of them or the
  length of the queue (`Books`), and a step moves one member from one set to another
  (`OneMoves`). The lookups in flight stay within a limit that was set. The queue is
  longer than the threads that are free for it only when the last attempt to have one
  more found them at their limit or was refused.
* The table of names (`DnsInv`). A name that is marked as being refreshed is in the
  channel, with the refresher or held by a request about to ask; a place in the list of
  warm names is known by its name alone (`OnePlace`), so that the table and that list
  agree (`Held`) whatever is dropped from either.
* The race (`RaceInv`). Every attempt that was launched is under way, has sent its
  result or has failed, and a race that is not over has something to wait for or to
  launch. The lists of addresses are arbitrary.
* The choice of the family (`PolicyInv`). One thread at most is about to store the
  time of the first probe, because the streak reaches its limit once; until it has
  done so, and while no probe came after it, none was too early. With two threads
  the last of three probes is always `ProbeSecs` after the first; the proof showed
  that with three it need not be, so `ProbesAreSpaced` counts the probes that came too
  early, of which there is one at most.
* The pool of origin connections (`PoolInv`). A connection is in one row or in the
  hands of one thread, and a thread owes the total something only between the lock and
  the counter. The total is what is in the rows without what is about to be
  added and with what is about to be taken off, modulo `Wrap`; the threads that have
  looked and not yet pushed are what the cap may be passed by. Hosts, connections and
  threads are arbitrary finite sets.
* Tunnels (`TunnelInv`). What a peer sent is with its socket, in the pipe, passed on or
  given up because the other side is broken, an end is read after all of that, and
  after the first direction was pumped it has nothing left that could be passed on
  (`NothingToPassOn`).
* Bursts (`BurstsInv`). Only the accepting thread takes the flag down, and it stores the
  threshold before it is through; nobody takes that back, so the flag can come up again.
* The row of a connection (`RowInv`). It tells what happened at any moment, not only in
  the record that is left of it (`RowTells`), as it goes back and forth between threads and
  lot; the time without a byte is right at the last tick while none has moved since
  (`RateFits`). The interval and the number of ticks, bytes and parks are arbitrary.

**`BudgetProofs`** (`MemoryAlwaysAgrees`, `EvictsLeastRecent`, `BudgetAlwaysHolds`) is about
the two parts of `MCTables` that keep within a limit.

* The memory tier (`MemInv`). Under the lock the index, the order and the sum agree
  (`Sound`), numbers that were drawn and not yet used are new (`NumbersAreNew`), and who
  has stored something that may not fit is about to make room, or the prober is about
  to release (`RoomIsMade`). The sum of the sizes is the size of a set of places, as many
  for each key as its entry has units (`Load`), so that no induction is needed; what
  `pop_lru` drops again and again are the entries with the lowest numbers (`First`).
  Threads, keys, sizes, limits and rounds are arbitrary. That the least recently used
  goes first (`LruFirst`) follows from what one step does to a store that agrees.
* The budget (`BudgetInv`). Between the measurement and the decision the thread knows
  what others used when it looked, and so do the margins (`Remembered`); after the
  decision the capacity leaves free what it must (`CapFits`), unless a request stored in
  between. Which shortage makes the refills wait is what the code decides
  (`UnderPressure`): the group's own where it can be read, so that a host that is short
  beside a calm group widens the margin and pauses nothing. What the filesystem hides
  from the walk of a quota is at most what grew while nobody looked (`Seen`). A backoff
  that was asked for stays for `Decay` rounds and rises once in `Escalate` (`Settled`);
  for that the times of the rises are kept (`raises`, `hot`). The lengths of windows and
  pauses and the sizes are arbitrary. The proof showed that a part of `CacheGivesWay`
  held by the shape of the capacity alone; it says now that the margin is free beside
  what is owned.

**`DiskProofs`** (`DiskAlwaysAccounted`, `FreshAlwaysSurvives`, `SettingsAlwaysFollow`,
`ListAlwaysFollows`, `LearnedAlwaysFits`, and from these `AlwaysAgreesWithDisk`) is about four
parts of `MCFiles`. Of the disk tier, for any number of keys, writers and threads
and any capacities, through crashes and restarts (`DiskInv`, at the end of `DiskTier`):

* Sums. The bytes of the index, of the files being written and of the room reserved
  for them are `Total`, the size of a set of places, so that `TotalMono`, `TotalChange` and
  their like follow from the library's theorems on cardinality without an induction.
* The bound on the disk. `room` and `written` alone are not inductive: a writer looks at the
  bytes of the index, then at the counter, and takes its room in a third step, while others
  do the same. What a writer may fill without another look is its `Pledge`. `RoomForEach`
  says for every set of the writers that are between a look and its use (`Looking`): if
  all of them took the most that a body may have (`Grown`), the bound would still be
  kept, or one of them has looked so late that it will not find room unless the bound is
  kept. Evictions make this weaker, never stronger, so whoever looks last decides.
* Index and files (`FilesIndexed`). What a commit leaves at each point at which the process
  may die (`Left`) is the files as they were but for two names of one key. The scan of a
  start goes through the files in any order; that it keeps its promise (`ScanOK`: each
  entry has its file, each file read so far that is left has its entry, and a fresh one is
  only missing when the index is full) is shown by the first file at which it would fail,
  as the natural numbers are well-founded. The rule that the longer-lived of two names
  stays is what makes a fresh entry survive whichever is found first.

The proof showed that `Survives` did not say what it was meant to: for want of bullets
an implication had taken in the first conjunct. `files` has `MaxStale = 0`
(`PROXY_CACHE_MAX_STALE_SECS` may be 0), so that a scan at time 1 meets garbage.

Of the other three:

* Settings (`ReloadInv`). What is in the file is loaded, or the thread will look: for a
  report, for the stamp, or because it is on its way (`WillBeRead`); what is loaded is in
  force but while it is being applied (`InForce`). That the stamp is taken before the file
  is read is what keeps the first of these: a write in between makes the stamp old.
* The list of blocked domains (`BlocklistInv`). As long as no change of the sources is
  marked, the thread works with them; the time of the file that it remembers is one the
  file had before it was read, so the file is as it was read or was changed in that
  second or later (`ListFollows`). The time of the last fetch is kept so that it holds the
  pause (`TriesRecorded`). The proof showed that `FetchesAreSpaced` was false as it stood: the
  thread decides that a fetch is due by the refresh of one moment and takes the
  settings for the fetch at a later one, with a reload in between (`mod.rs:466`). It now
  speaks of the refresh by which the fetch was found due.
* The size learned (`ProbeInv`). A size that the host does not grant can have been asked
  for only as long as the reservation was held back, since at the first tick it is owned
  the host stops the process (`AskedSince`). `MaxSlack`, which bounds that, has to be less
  than the time to confirm a size: no code sees to it, and with more the slow mode, which
  goes by the time alone, would confirm a size that nobody ever owned. What a start learns from the file is sound
  because whoever went beyond the limit was stopped early, and the file says so
  (`Sound`), or it was lost and says nothing. The fast mode takes for its find what is owned
  at a tick that the host has let pass (`LetPass`).

Each invariant was checked with TLC on the instance of its run before it was
proved.

Assumptions on the constants: `None` differs from every value that may stand in
its place (`NoneAssumption`, `CacheAssumption`, `DeliveryAssumption`, `ConnLoopAssumption`); callers and
threads, handlers and jobs, keep-alive connections and tunnels are different
(`ThreadsAssumption`, `CacheAssumption`, `ConnAssumption`); limits, times and bounds
are natural numbers, batches of the watcher are not empty, as in the code
(`BoundsAssumption`, `TimeAssumption`, `BatchAssumption`, `BodiesAssumption`,
`PassthroughAssumption`, `RangesAssumption`, `NotStoredAssumption`,
`DoorkeeperAssumption`, `FreshnessAssumption`, `Ipv6PolicyAssumption`,
`TunnelAssumption`); periods are positive, a window holds two measurements and a quota
is large enough that its percentage is not zero (`BudgetAssumption`); hosts and
connections to origins are finitely many and `Wrap` is larger than what may be pooled
or owed (`LimitsAssumption` of `OriginPool`); no address is of both families and there are finitely many
(`HappyEyeballsAssumption`); callers, resolver threads and names are finitely many, and
`None` is neither a name nor an entry (`ResolverPoolAssumption`, `DnsTableAssumption`); so
are the keys of the memory tier (`MemTierAssumption`) and those and the writers of the disk
tier, whose capacities have a largest one (`TierAssumption`); a connection's clock ticks at
positive intervals (`ConnRowAssumption`) and a threshold of bursts is a number of
connections that can be open (`BurstsAssumption`); a file of settings that says nothing
stands for values there are (`ReloadAssumption`); the first fetch of a list is not so early
that a refresh before it is negative (`BlocklistAssumption`); the floor is below the first
size and no host grants less, as the search assumes, a heartbeat is shorter than the time to
confirm a size, that is shorter than the time to look anew, and a reservation is held back for less than it
(`DiskProbeAssumption`); listeners and connections are finitely
many and there is a largest limit that a reload may bring, since a limit is a
machine integer (`LimitAssumption`); the sets that choose
operations, faults, peers, kinds and shapes hold no others than the model knows
(`OpsAssumption`, `FaultsAssumption`, `PeerAssumption`, `CacheAssumption`); the
connections of the lot are finitely many, and there is a version to begin with.
TLC evaluates each of them in the run of the module.

Only model-checked:

* liveness (`QueuedIsTaken`, `DueIsReleased`, `ReadyIsReleased`): fairness and
  ENABLED are out of the provers' reach;
* of `files`, what is read back (`FilesTellTheTruth`): `RecentFile`, `StateFile`, `History` and
  `Days` order, sum and thin out the contents of a file, which needs induction over
  data; and how often the search for the size is stopped (`KillsBounded`), which depends
  on the allocation being reached in the fast mode within the time to confirm it, as it
  is in the run;
* what a recursive definition computes.

## 6. Not modelled

`PROJECT.json` lists every part with its reason. In short: parsing and formatting,
TLS, pages, most metrics, measurement of the system and benchmarks have no protocol
that a model would add to. In the modelled parts the following is left out:
lock-contention counters and statistics; the RTT callback of the pool; client ACL
and socket options; the old flat layout of the disk tier and failing removals of
files; the fixed capacities that stand in where memory or filesystem cannot be measured
or the quota of a Pterodactyl host is unknown; control groups beside the tightest;
that the ballast of the memory waits for a disk that was full, as a budget is followed
for one tier at a time; the length of a `stale-while-revalidate`, which may be any;
`101` and `Age` in `examine_head`; matching of names in the blocklist; the
parsing of settings; the fields of records.
