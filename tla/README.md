# Tokemon in TLA+

Tokemon collects the token usage of coding assistants: an *agent* on every
machine reads the assistants' logs and databases, and a *hub* stores the usage
and shows dashboards. This directory holds TLA+ models of the parts of the Go
program whose correctness depends on order, failure or concurrency, the TLC
configurations that check them, and TLAPS proofs of their main properties.

Run from this directory, for instance

    tlc -workers 2 -config MCRecovery.cfg MCRecovery
    tlapm AgentPassProofs.tla

## The system

| Part | Code | State | Operations | What is hard | Model |
|---|---|---|---|---|---|
| Agent pass | `cmd/tokemon/main.go` `runAgent`, `internal/agent/state.go`, `client.go`, `internal/adapters/adapter.go` | state database: cursor per source, fingerprint per event | collect, diff, upload, commit; once per interval | failures between any two steps, lost answers, two agents on one state database | `AgentPass` |
| Upload | `internal/agent/client.go`, `internal/usage` | none | sanitise, guard, split, post | partial uploads, several machines at once | `Upload` |
| Snapshot cache | `internal/adapters/cache.go` | per source: signature, request, result, in memory | Lookup, Store, Prune | stale entries; dies with the process | `AgentPass`, `DatabaseSources` |
| Log adapters | `internal/adapters/{claude,openclaw,generic}` | offset and line in the cursor | Parse | partial lines, truncation, replacement, rescans | `LogCursor` |
| Codex adapter | `internal/adapters/codex` | parse state in the cursor, session index | Discover, Parse | forks whose parent is not known yet | `CodexLog` |
| Database adapters | `internal/adapters/{opencode,hermes,zcode,copilot,antigravity}` | a constant or small cursor | Parse | the tool writes during a read | `DatabaseSources` |
| SQLite handle cache | `internal/adapters/sqlite.go` | open read-only handles | Get, drop | replaced files | `DatabaseSources` |
| Usage store | `internal/database/database.go` | `usage_events` in SQLite | Ingest, migrate, purge | the same usage under several identities, in any order | `UsageStore` |
| Reports | `Analytics`, `Insights`, `Overview`, `Activity` in `database.go` | none | several queries each | rows that arrive between queries, bucket and window edges | `Analytics` |
| Ingest handler, response caches | `internal/api/server.go` | two cached responses, each with a channel and a generation | ingest, evolution, overview | handlers in parallel | `ResponseCache` |
| Insights recap | `internal/insights/synthesis.go`, `aggregateAIInput` | answers kept for a while | Synthesize | cards that move while a model is asked | `InsightsRecap` |
| Machine health | `RecordHeartbeat`, `upsertMachine`, the poll loop | last seen, per-source health, poll interval | heartbeat, status, backoff | late heartbeats, backoff against windows | `MachineHealth` |
| Database lock | `internal/database/lock.go` | a lock file, its age, `flock` | acquire, refresh, Close | crashes, suspended processes | `DatabaseLock` |
| Backup and restore | `internal/database/backup.go` | snapshot files, the database file and its log | create, restore, prune, snapshot before a migration | a crash between two steps, a backup beside the server | `BackupRestore` |

They interact like this. An agent pass checks the hub's health, reads the
committed cursors, parses each source from its cursor (through the snapshot
cache), sends a heartbeat, drops the events whose fingerprint is recorded, posts
the others in batches, and commits cursors and fingerprints in one transaction
only if everything was accepted. The hub's handler folds a batch into the store
in one transaction, then invalidates the cached responses, then answers. Pages
read the store with queries of their own; an insights page may add a recap made
by an external model. Backups read the same file beside the server; restore,
import and purge take the database lock first.

## Modules

| Module | Models | Extends |
|---|---|---|
| `AgentPass` | one pass of each agent, its sources, cache, state database and the hub as a table of versions | |
| `AgentPassProps` | the properties of a pass and the refinement of `Outbox` | `AgentPass` |
| `Outbox` | abstract: what the agent promises about one record | |
| `LogCursor` | `Parse` of the Claude, OpenClaw and generic adapters on a growing file | |
| `CodexLog` | the Codex adapter: forks and the resumed parse state | |
| `DatabaseSources` | the five adapters that read a source as a whole, with the two caches | |
| `Upload` | one `Client.Ingest`: guard, batches, requests, the hub's totals | |
| `MachineHealth` | the poll loop, heartbeats, what the hub keeps and shows | |
| `UsageStore` | the rules of `Store.Ingest`, `migrate` and `PurgeBefore` on `usage_events` | |
| `Analytics` | analytics, insights and overview reports, query by query | |
| `ResponseCache` | `cachedEvolution`, `cachedOverview`, the ingest handler | |
| `InsightsRecap` | the recap of an insights page and its cache | |
| `DatabaseLock` | `acquireDatabaseLock`, the lock's heartbeat, `Close` | |
| `BackupRestore` | scheduled backup, migration snapshot, restore, pruning | |
| `AgentPassProofs`, `UsageStoreProofs`, `ResponseCacheProofs` | proofs | the module (or its properties) |
| `CodexProofs` | proofs | `CodexLog`, `FoldLemmas` |
| `RecoveryProofs`, `LocalProofs`, `HubProofs` | proofs about the parts of a composite, and what they give for it | `MCRecovery`, `MCLocal`, `MCHub` |
| `FoldLemmas` | induction over sets, folds and sums, for the proofs | |
| `MCRecovery` | `AgentPass`, `LogCursor` and `DatabaseLock`, with the fairness of the last two | the three |
| `MCArrival` | `AgentPass` and `ResponseCache`, with their fairness | both |
| `MCLocal` | `CodexLog`, `DatabaseSources`, `MachineHealth` | the three |
| `MCHub` | `UsageStore`, `BackupRestore`, `Upload`, `Analytics`, `InsightsRecap` | the five |
| other `MC*` | values for the constants | the module after `MC` |

`MCRecovery`, `MCArrival`, `MCLocal` and `MCHub` check several modules in one run.
The modules of one composite share no state, so their interleavings would show
nothing the parts do not: the initial state picks the part that runs (`part`) and
the other modules stay in an initial state. The states of a composite are
therefore the sum, not the product, of the states of its parts.

Operators whose comment starts with "Faulty variant" model a plausible bug in
the definition below them. No specification uses them; putting one in place of
that definition shows that a property notices the bug.

### AgentPass

A source is a log (`Logs`: an append-only sequence of records, the cursor is how
many were read) or a database (`Snaps`: sessions that change in place, the
cursor is constant, as in `opencode.go`). A *version* stands for the content of
an event, hence also for its fingerprint; the content of the whole source stands
for its file signature. The hub is reduced to the version stored under each
event id, because its upsert lets the incoming event win.

A pass moves through `idle`, `collect`, `send`, `wait`, `replied`, `commit`:
`BeginPass` (health, `Snapshot`), then per source `LookupHit` or `LookupMiss`
followed by `Parse` or `ParseFails` (the signature is taken before the source is
read, and tools write in between), `Diff` (`Pending`), `Send`, `HubStores` or
`HubRejects`, `Reply`, `Commit`. The failures are `RequestFails`,
`RequestTimesOut` (the hub may still apply the request: `late`), `ReplyLost`,
`LocalError` and `Crash`, which clears the cache and keeps the state database.
Agents share the state database and each has its own cache.

The heartbeat of a pass is left to `MachineHealth`: it changes no state the pass
reads. Batches are any `BatchMax` events of those pending; the code's order and
its byte limit are in `Upload`. `HubRejects` stands for
`IngestResult.Rejected`: a handler of the same version refuses an invalid batch
before the store skips single events, but the agent guards against it.

With `Overtaking` FALSE the hub drops a request the agent gave up on before the
agent's next request; with TRUE it may apply it at any later time. The hub
cancels abandoned requests through their context, so the first is what happens
in general; nothing in the code excludes the second.

### LogCursor

Every record is two halves and a newline, so that a poll can find any of these at
the end of the file; that all have one length is an abstraction, and it makes a
truncated log that has grown again line up with the old offset, which is where a
resumed read goes unnoticed. `Look` is the opening of the file, its size and the decision
where to start (`Begins`: the identity check, and for Claude the line before a
duration record); `Read` is the rest of `Parse`, the upload and the commit.
`ReadFails` delivers any part of the events and commits nothing. The tool may
write between the two, and truncate the file; only that another file is put at the
path waits for the end of a poll (the code would go on reading the file it holds
open). The identity is that of the look. `torn` records that the file was
truncated since what lies before the cursor was read. Where the adapters differ is
written as `adapter = ...` in the operator concerned: the identity (inode, or first line), what is left for
the next poll, the place an event is known by, and that generic gives up on a
line it cannot decode. `hasty` records that a read overtook the writer: it took a
line before its newline, lines that came after the look, or went on at the offset
of a truncated file.

### CodexLog

A record is a cumulative total or the use of one turn. A forked log begins with a
copy of its parent's records. `Pass` is the loop of `parseLogUncached` as a fold
over the lines, on the state that the cursor keeps (`previousCumulative`,
`forkBaseline`, `remainingForkPrefix` and their flags); `Environment` is
`logCacheIdentity`, which decides whether that state may be resumed. A poll takes it
first (`Look`) and reads the parent and the log afterwards (`ParseAndCommit`,
`ParseAndLose`): the parent's log may grow, come or go in between, or fail to be read
(`ParentUnread`: `resolveForkBaseline` drops the error, and the state is committed
under the identity of the look). `resolved` records whether the parse behind the
cursor has read the parent's total. Token components are treated alike by the code
and summed here.

### DatabaseSources

A poll is `Sign`, `Stat`, `OpenSource`, one or two queries, `StoreEntry`,
`Upload`, and the tool writes between any two. A source's content is kept by
inode, so that a connection may serve a file that is no longer at the path.
`tool` picks the adapter: ZCode copies a database it cannot open, Hermes reads
sessions before models and books the difference as a residual, Copilot stops
before an unfinished line, Antigravity resumes at a generation and signs again
after its read. Signatures are counters: size and modification time are assumed
to move with every write. When the models of a Hermes session come to account for all
its tokens, no event is made of its residual any more (`hermes.go` 203-206), so one that
was sent before stays on the hub.

### Upload

`BeginUpload` is `Client.Ingest` up to its first request: sanitising, the guard
over the whole batch, and `Split` as a fold. For each request, `ReadBefore`,
`StoreBatch` and `Answer` are the three parts of `Store.Ingest`: the total before
the transaction, the transaction, the total after it. Record kinds stand for the
outcomes of validation: withheld by the guard, refused by the hub while its clock
is behind, too large, or stripped of a contradicted total.

### MachineHealth

`Collect`, `Heartbeat` and `Finish` are the parts of a pass that matter to the
machines page; `SleepAt` starts the timer and `NextPace` is the backoff. A
heartbeat the agent gave up on may be applied before the next one
(`LateHeartbeat`). `seen` is `last_seen_at`, which an ingest raises to an event's
stamp, also one slightly in the future.

### UsageStore

A row is its *kind* (which token columns are NULL), session, timestamp and
total. `Obsolete`, `WithoutAggregates`, `Placed`, `Refreshed` and `Ignored` are
the statements of the loop body in `Ingest`, in the code's order; `Apply` is one
turn of the loop. The open transaction works on `work`, a copy that `CommitTx`
publishes. `Open` is `migrate`'s removal of duplicates, with an arbitrary
survivor per group because row ids follow no order that matters; the first open of
the database, from `phase` "down", is such an `Open` too. One machine is
enough: every statement selects one machine's rows.

### Analytics

Time is counted in half seconds and days are shortened; what is kept is that a
stamp is text with a fraction and a bound is text without one (`TextBefore`), as
SQLite compares them. `ReadSummary` to `ReadAggregate` are the queries of
`Analytics` and `Insights` in order, `ReadToday` to `ReadActivity` those of
`Overview`; `page` collects what they have answered. Rows may arrive before the
steps in `Races`, and the clock may move. The zone is UTC; filters, sessions and
facets are left out.

### ResponseCache

Every mutex section is one action (`Hit`, `Wait`, `Start`, `Install`,
`Invalidate`), every query is one (`FirstQuery`, `LastQuery`), `close(ready)` is
one. The data is its version number; a response is the pair of versions its
first and last query read. `before` is a history variable: which requests and
ingests were answered before a request arrived. The two caches share nothing but
the ingest handler, which invalidates them one after the other, so the runs send
requests to one endpoint.

### InsightsRecap

`ReadCards` fixes the cards of a page, `Ask` sends what `aggregateAIInput` makes
of them, `ModelAnswers` lets the model answer anything and applies
`ValidateOutput`, `UseKept` answers from the cache, whose key is the hash of the
evidence (taken as the evidence itself). A text is the set of cards it refers to
and the set of figures it states.

### DatabaseLock

The marker file is represented by the process that created it (`NoMarker` when
there is none, `Orphan` when its creator has died) and by its age in ticks. Every
system call of `acquireDatabaseLock` and `Close` is a step, as other processes
run between any two: `Create`, `Exists`, then `Refuse` or `Reclaim` (the marker
is old, or gone by now), `RemoveStale`, `Write`, `Flock`; `Beat` is the heartbeat.
The marker is removed by its path, whoever created the file that is there. The
`flock` never conflicts: each process locks the file it has just created with
`O_EXCL`, which no other process has open.

`Tick` lets a running holder refresh the marker before it is a heartbeat old, and
a running process finish the few system calls around its use of the database
before the marker is stale. `Suspends` drops that assumption. `OneAtATime` says
that a command starts only when no other command is starting; an operator who
starts commands by hand works like this, two timers may not.

### BackupRestore

The database is two files: `main`, and `wal` with what was committed since the
last checkpoint. A content is a version number of the rows and a schema version.
The steps of `restoreWithVerifier` are `BeginRestore` (verify, copy, compare),
`RefuseRestore`, `Snapshot`, `Sweep` (remove the old log), `Install` (rename),
`Restored` or `Rollback`; each has a failing variant, and the process may end
between any two. The server and restore exclude each other through the database
lock; a scheduled backup takes no lock and may run beside either, and keeps
reading the files it has open (`view`) after they were unlinked. Snapshots are
pruned by the order of their names, in which version numbers are text (`AsText`: 10
sorts before 9), and a migration prunes those of restores too. An empty file that a
failed copy has left is opened as a new database.

## Runs

| Run | Configuration | Question | States |
|---|---|---|---|
| `recovery` | `MCRecovery.cfg` | one agent, two cached sources, two failures: is nothing marked as sent that is not there? Are logs read completely and once? Does the lock exclude, and let the next process in after a crash? | 383 k |
| `agent_cache` | `MCAgentPassCache.cfg` | counterexample to `CommitDelivers` | |
| `arrival` | `MCArrival.cfg` | a daemon and manual passes, two logs, overtaking requests: do all records arrive? Three requests and an ingest at one cache: is a response as new as what was answered before, and is every request answered? | 306 k |
| `store_collapse` | `MCUsageStoreCollapse.cfg` | counterexample to `AggregateCounts` | |
| `response_error` | `MCResponseCacheError.cfg` | counterexample to `WrittenIsInvalidated` | |
| `lock_race` | `MCDatabaseLockRace.cfg` | counterexample to `Exclusive` when processes start together | |
| `log_rescan` | `MCLogCursorRescan.cfg` | counterexample to `RescanSafe` | |
| `log_truncation` | `MCLogCursorTruncation.cfg` | counterexample to `TruncationSafe` | |
| `codex_fork` | `MCCodexLogFork.cfg` | counterexample to `ResumeAlwaysFull` | |
| `local` | `MCLocal.cfg` | Codex forks, whole-read sources, heartbeats | 4.0 M |
| `pre_restore` | `MCBackupRestorePruned.cfg` | counterexample to `PreRestoreRetained` | |
| `hub` | `MCHub.cfg` | every order of events in the store; backups and restore, uploads, reports, recaps | 3.4 M |

Bounds of the agent. Two records and a batch size of one make a pass send several
batches, so it can fail after a part of them, and leave room for a change between
two batches. Two versions of a row tell an overwritten session from a new one.
Two failures cover a failure and its failed retry. Two agents need one record
each: their races are about whole passes.

Of the store. Six ids cover each kind, two dimension values per record
make events collide or not, and transactions of two events make a rollback lose
something.

Of the response caches. Three requests are one that computes, one that waits and one
that comes late; the ingest commits and invalidates at any point of them. More
ingests and requests are covered by the proofs, but for the liveness.

Of the lock. Three processes are a holder, one that reclaims and one that comes in
between; three failures cover a crash of the holder, of the one that reclaims and
of the next. A heartbeat of one tick and a limit of two keep the order of the
code's 5 seconds and 2 minutes: young, overdue, stale.

Of the logs. Three records of two kinds give a usage record, its duration and a
successor; one truncation (at any moment), replacement or loss, and one failing poll.

Of `local`. Two turns before and two after a fork, of one or two tokens, make a
copied prefix, a total below the baseline, equal to it and past it; one change lets
a parent appear or vanish at any step of a poll, or a parse state be lost, and one
failure lets it be unreadable or a poll be lost. Two rows and four writes let a
write fall before, into and after a read, twice; two failures let a handle or an
entry be lost and the retry fail. One source more than the heartbeat's limit makes it
refused; windows 3 and 5, an interval of 2, a first backoff of 1 and a ceiling of 3
keep the order of the code's 5 and 30 minutes, 1 minute, 5 seconds and 5 minutes (the
ceiling is the connected window), with a pass that takes time.

Of `hub`. Three versions of the rows and four snapshots with a retention of two
let a restore, a backup and a migration compete for the files, and schemas 9 and 10
sort as text the other way round; two failures are a crash and a failing recovery (a
roll-back that fails counts as two). Three records in batches of two with a byte limit
of three split in each way. A day of eight half seconds and
stamps on both sides of the bounds reach every edge of a window and a bucket; two
rows of two names are a series and the rest. Two pages and a time to live of one
let a kept recap be used, expire, and be replaced while the other page asks.

The deadlock check is off where time, rows, records, requests or snapshots are bounded
and the system stops at the bound: the four composites and most of the
counterexamples.

### Fairness

`ArrivalFairness` (`arrival`), for agents: weak fairness of `Progress` for each agent in
`Polling`, as in `AgentPass!FairSpec`. `runAgent` polls for ever unless it was started
with `--once` (`main.go` 729-733): then it does one pass and exits. The manual agent of
the run is therefore not in `Polling`: each of its passes is a process of its own, with an
empty cache, that may never be started. Each request has a
deadline, and the failures of a behaviour are bounded by `MaxFaults`, so some later
poll of the daemon goes through. There is no fairness for the tools that write, nor
for failures. `LogRecordsArrive` excuses a source whose read error the cache of every
polling agent keeps (`StuckOnError`), because the code retries it only after the file
changes.

For requests: weak fairness of the steps of each arrived request. Go runs every runnable
goroutine, `sync.Mutex` prevents starvation, and queries return (they are cancelled
with the request's context). A request waiting on a channel is not fair in itself:
somebody has to close the channel.

`RecoveryFairness` (`recovery`) is that of `LogCursor!LogFairness` and
`DatabaseLock!LockFairSpec`, each where its part runs; nothing is assumed of the agent. A
tool finishes the line it has begun and the agent keeps polling (`Polled`: a poll
begins, or ends other than by failing); there is no fairness for new records. A started
process makes its next system call, a command that was refused is repeated (a
supervisor restarts the server, an operator retries), and time passes. Nothing makes
a holder finish, so `Reclaimed` asks only that the database is not left locked by
nobody.

## What the checks show

Holds:

- A committed log cursor never passes a record that the hub lacks, with any mix
  of lost answers, partial batches, rejections, crashes, late requests and a
  second agent (`CursorCovered`, `RecordsAccountedFor`). A recorded fingerprint
  never runs ahead of the hub for a single agent (`FingerprintCovered`), the hub
  never returns to an older version (`HubNeverFallsBack`), and the pass implements
  `Outbox`.
- The snapshot cache hides nothing from a pass that really reads the source
  (`ReadCommitDelivers`), nor from any pass as long as nothing has failed
  (`CalmCommitDelivers`).
- The log adapters skip no record through partial lines, replacement and failed
  polls, nor through truncation, unless a log of Claude or generic had grown past
  the old offset by the next poll (`NoRecordSkipped`); with the same exception every
  written record is read in the end (`RecordsRead`); a duration stays with its
  record across polls (`DurationKept`),
  and a rescan makes no second id unless a read overtook the writer
  (`CalmRescanSafe`).
- A Codex session counts its own use once, however its log was cut into polls and
  whenever its parent appeared (`CodexCounts`), unless the poll could not read the
  parent its environment names.
- What a source that the caches call unchanged says is on the hub, whatever was
  written during the read, copied or replaced (`HubShowsSource`). Three things are
  excepted: a write Antigravity's second signature covers, a generation written
  out of order, and a residual of Hermes that has come down to nothing. In the last
  case the code sends no event (`hermes.go` 203-206), the old residual stays on the
  hub beside the rows of the models, and the session is counted twice; no document
  says otherwise, so no run refutes it.
- What a machine has on the hub is an unbroken beginning of its log
  (`StoredInOrder`), and an evolution stage that several machines cross together
  is announced to one of them, unless a request of that upload fails
  (`EvolutionAnnounced`).
- The machines page is honest (`HealthIsHonest`): Connected follows a contact, a
  failing source shows no fresh sync, rows and count are of one heartbeat, and a
  running agent in backoff is never shown Offline.
- In the store, one detailed record has one row, no session is counted both by
  its aggregate and its records, resending is idempotent, an id that moves loses
  no other record, and reopening removes nothing of a known session.
- The parts of a report add up to its summary if no row arrived while it was read,
  and coverage stays between none and all even then (`AnalyticsAdds`).
- Cached responses are fresh, monotone for a polling client, and computed once
  at a time; every request is answered.
- A recap states nothing its page does not show (`RecapGrounded`).
- Processes that start one at a time and are not suspended never use the database
  together, and the marker of a crashed one is reclaimed.
- What a restore replaces is kept in its snapshot until as many later files have
  sorted after it as are kept, no old log is replayed over what it installed, and the file a
  scheduled backup has reported is there until a newer one is (`RestoreSafe`).

Does not hold:

- **A failed upload can be skipped** (`agent_cache`). `Lookup` takes a result as
  uploaded when its cursor equals the committed one. Database adapters return a
  constant cursor, so from the second commit on a changed source whose upload
  failed is "unchanged" in the next pass, which commits. The change stays off the
  hub until the next change of the source or a restart of the agent, while
  `docs/tokemon-spec-v0.2.md` 1539-1541 says the next pass retries the batch.
- **A session can collapse to zero** (`store_collapse`). A record without a total
  that arrives before the aggregate makes the aggregate obsolete; the comment at
  `database.go` 763-767 rules that out, and the code does so only in the other
  order.
- **An ingest can be stored without invalidating** (`response_error`). When the
  query after the commit fails, `Ingest` returns an error and the handler skips
  both invalidations, contrary to the comment at `server.go` 1758-1759.
- **Two processes can both be admitted** (`lock_race`). Between the inspection of
  a marker and its removal (`lock.go` 47-56) another process can close the
  database, or reclaim the marker, and a third, or the same, create a new one; the
  removal then takes the new marker away from its owner, and the `flock` on the
  unlinked file does not conflict. `docs/tokemon-spec-v0.2.md` 407-409 says that
  imports, purges and restores cannot run concurrently.
- **A rescan can duplicate records** (`log_rescan`). Claude and OpenClaw consume a
  last line that decodes before its newline is there and count the newline as one
  more line later; a scan from the beginning gives the records after it other
  line numbers, hence other ids. `docs/tokemon-spec-v0.2.md` 720 says that the ids
  allow "safe rescanning without duplicates".
- **A truncated log can be resumed in its middle** (`log_truncation`). Claude and generic
  compare the offset only with the size (`claude.go` 104, `generic.go` 134). A log that
  was truncated and has grown past the offset by the next poll is read from there:
  its new records before the offset are never sent. `adapter.go` 58-60 says that the
  reset "handles replacement and truncation safely". OpenClaw's identity is the
  first line, which another session's log does not share.
- **A fork can be resumed without its baseline** (`codex_fork`). The identity of a parse
  names the parent's log by its signature; the parent is read later, and
  `resolveForkBaseline` (`codex.go` 437-440) turns an error into a fork without baseline. The
  state is committed under the identity that names the parent and resumed while
  that holds, so the inherited tokens stay counted. `codex.go` 468-471 says that the
  state is what is needed "to produce events identical to a full re-parse".
- **A migration can remove the snapshot of a restore** (`pre_restore`). It prunes all
  files with the database's name (`database.go` 674), and its own sort after those of
  restores. When as many migration snapshots are there as are kept, the start of
  the server after the restore of an older database removes the pre-restore
  snapshot, although `backup.go` 47-49 says it "is retained beside CAR-79 migration snapshots
  for rollback" and `DEPLOYMENT.md` 248-253 calls this the supported rollback path.

With two agents, or requests that overtake each other, `FingerprintCovered` does
not hold either; no document promises it there. `HubNeverFallsBack` is checked and proved
with the hub dropping a request before the next one of its agent, so it covers the
order of what one agent sends, not a request that overtakes. The hazards without a property in
`PROJECT.json` say what else the models contain and no document rules out: a
cached read error, a stage that only a failed pass saw crossed, stamps in the
first second of a day, a residual of Hermes that has come down to nothing.

## What is proved

All theorems are for every value of the constants that satisfies the named
assumptions (`BoundsAssumption`, `SourcesAssumption`, `LogAssumption`,
`HealthAssumption`, `StoreAssumption`, `NoRowAssumption`, `NamesAssumption`,
`LockAssumption`, `CodexAssumption`, `BackupAssumption`, `NothingIsNoFile`, `RecapAssumption`,
`UploadAssumption`, `AnalyticsAssumption`, `DatabaseAssumption`), so for
any number of agents, sources, records, failures, ids, requests, ingests,
processes, files and pages. A theorem that needs more says so in its ASSUME.

### Agent (`AgentPassProofs`)

`TypeCorrect`, `NoRecordUnaccounted`, `CursorNeverAhead` hold for any number of
agents. `CursorCovered` alone is not inductive: the commit writes the cursor of a
report, whose records may be pending, in a batch or rejected. The invariant
`RecordsAccountedFor` therefore follows each record: below the snapshot's cursor
it is on the hub (`BaseCovered`); below a reported cursor it is on the hub or
pending (`ReportCovered`); pending records are on the hub, unsent, in the request,
or the pass has seen a rejection (`PendingCovered`), and a pass that reaches
`commit` has nothing unsent and saw no rejection (`CommitGuarded`). The diff drops
an event only if its fingerprint is recorded, which implies that the hub has it
(`LogFingerprints`). None of it needs `Overtaking` to be FALSE, as a record of a log
has one version.

`VersionsStayOrdered`, `FingerprintNeverAhead`, `HubOnlyAdvances`,
`AgentImplementsOutbox` (the refinement of `Outbox`), `ReadsAreDelivered` and
`CalmCacheHidesNothing` are about rows that change in place, under `OneAgent` and
`~Overtaking`. Both are needed: two agents on one state database upload two
versions in one order and may commit their fingerprints in the other
(`state.go:300`), and a request that arrives after a later one puts an old version
back. `FingerprintCovered` says nothing of what is on its way; the invariant
`VersionsOrdered` puts the versions in one order from the source over the cache
entry, the report, the pending events and the request to the hub, and says that a
late request is no newer than what the agent sends next. The refinement takes from
it that the hub never learns what the machine has not recorded and never falls
back; a step of the pass that moves none of hub, fingerprints and sources is a
stutter. `ReadsAreDelivered` follows what a pass read through the batches;
`CalmCacheHidesNothing` adds that, while nothing has failed, the cache holds no error
and what an entry's signature names is on the hub, unless the pass that read it is
still delivering it (`CalmCache`).

### Logs (`RecoveryProofs`)

`NothingSkipped`, `DurationsKept`, `RescanIsSafe` and `LogTypeCorrect` need no more
than `LogAssumption`. A record takes three pieces, so that what `Parse` finds from
an offset is arithmetic on the places of newlines (`LineEnds`, `StopIs`,
`ConsumedIs`, `LinesConsumed`). The invariant `LogInv` says of the cursor and of a
poll under way that its place was *reached* (`Reached`): every record before it is
on the hub, every duration record before it with its usage record. For the cursor
that holds only if the file at the path is the one it was committed for
(`SameFile`); `ResumesSame` shows that the identity check lets a poll resume in no
other, unless the file is `torn` and its adapter compares inodes, which
`NoRecordSkipped` excepts and `log_truncation` shows to be needed. A poll that
replays the line before a duration record starts before the cursor, so `LookKept`
has to remember that the duration beyond its start had been kept. For the ids,
`HubPlaces` says that each record still in the file is on the hub under its place
only; to show that a new event gets the same place, the line number must be that
of the offset, exactly while no read was hasty (`CursorLines`, `LookLines`), and
otherwise bounded, which is the only reason `LogTypeOK` holds.

### Codex sessions (`CodexProofs`)

`CodexTypeCorrect` and `CodexCountsAlways`, from `CodexAssumption` alone. The parse
state that a full parse has after a line, and what it sends for a line, are written
in closed form, with the parent known or not (`StateAt`, `Tok`). `ReadingSteps` shows
that reading a line takes one state to the next: a copied total is below the
baseline, the first own one is above it, an inherited turn uses up what is left of
the prefix, and a total that falls begins again. By the lemmas about folds a pass
from any line on therefore ends in the state of a full parse and sends what it sends
of the lines after (`PassIs`). `CodexCounts` is not inductive, as it speaks only of a
log at rest. The invariant `CodexInv` says what the tool can have written
(`ParentGrows`, `SessionShape`), that the parse state of the cursor is that of a full
parse in the environment it names (`ResumeTrue`), and that the lines before it were
sent as the parse that read them has them, unless a full parse was lost since
(`SentTrue`). Both are stated with `resolved`, what that parse knew of the parent;
`CodexCounts` then asks that it agree with the environment (`Certain`), and
`codex_fork` shows that it need not.
That a fork counts what it used itself follows from the shape: the lines that are
not repeated are sent with what they used, and the others used nothing.

### Machine health (`LocalProofs`)

`HealthTypeCorrect`, `StatusIsHonest` (`StatusFollowsContact`, `SyncWasRead`,
`RowsMatchCount`), and `HealthStaysHonest` under `PollsWithinStaleWindow`: two passes
and the longest wait fit in the stale window. The code's defaults satisfy it
(`main.go:40`, five minutes; `dashboard.go:20`, thirty minutes); with an interval
beyond the window the page shows a machine that is only waiting as Offline, so
`HealthIsHonest` is false without it. `ContactWithinPass` carries the argument: how
long ago the last contact was, at each step of a pass and of a wait.

### Databases of the tools (`LocalProofs`)

`DbTypeCorrect` and `SourceIsShown`. `HubShowsSource` speaks of an agent at rest; the
invariant `DbInv` follows a poll from its signature to its upload. A poll is calm
while its signature is still that of the source: then what it has read so far is
what the source is (`CalmHolds`), by the handle's file being the one at the path, by
the two queries of hermes seeing one state, by the copy of zcode's log completing
the copy of its database. Every write moves the signature, so that nothing the
agent holds claims to be calm after it (`ToolWrites`), and an entry that is valid at
rest was made by a calm poll whose events arrived (`EntryTrue`). A replaced file
keeps the invariant because a handle is filed under the inode of the lookup and
never claims a file that came later than the one it reads (`HandleTrue`).
antigravity signs again after its read, so none of this holds for it; there
`GenerationsKept` says that the cursor is behind a generation that is written, and
that what was written in order before it is on the hub. That the tokens of the
rows sum up, and that sums only grow, comes from `FoldLemmas`.

### Usage store (`UsageStoreProofs`)

`TypeCorrect`, `NoSessionCountedTwice`, `NoRecordCountedTwice`, `InsertNeverIgnored`,
`RefreshLosesNoRecord`, `ReopenRemovesNothing`. The first two properties speak of
the committed and the working table and are inductive with the types. The argument
is about one turn of the loop: lemmas say that removing rows keeps both
properties, that a placed row competes with no other, and that after
`WithoutAggregates` no aggregate of the session is left. The action properties
follow from the same invariant, step by step. `ResendChangesNothing` needs
`IdsOfOneAdapter`: no id is sent by Codex and by another adapter, as ids are hashes
over the adapter (`usage.DeterministicID`). Without it another adapter's event could
take the place of a session's last component, and the session's aggregate, ignored
until then, would be stored when it is sent again.

### Response caches (`ResponseCacheProofs`)

`CacheTypeCorrect`, `OneFlight`, `Freshness`, `QuietCache`, `ReadsAreMonotone`. The
inductive invariant relates an entry, or a result about to be installed under the
current generation, to the ingests that have invalidated: it is at least as new as
every ingest that passed this cache's invalidation, because an ingest commits
before it invalidates. `MonotoneReads` compares two answers, so its invariant
`MonotoneInv` says that an entry is empty while its successor is computed, and that
what was reported for a cache is no newer than its entry or than a compute that
runs; with that, the answers of successive requests can only grow.

### Database lock (`RecoveryProofs`)

`LockTypeCorrect`, and under `OneAtATime` and `~Suspends` `OwnerKept` and
`LockExcludes`. Exclusion says nothing of the steps before a process is in; the
inductive `OwnerKeepsMarker` says that whoever has created the marker still owns
the file at the path, that only an orphan grows old, and that what is about to be
removed is an orphan or gone. `lock_race` shows that the first assumption is
needed; the second is as well: a holder suspended for longer than the limit finds
another process in when it resumes.

### Backup and restore (`HubProofs`)

`BackupTypeCorrect` and `RestoreIsSafe`, the latter without further assumption.
`RestoreSafe` says nothing of the log that a running server or a closing backup
could fold over the restored file, nor of the order of the stamps that decides
what pruning removes. `RestoreInv` adds who may have the database open at each step
of a restore (`Maintained`), that stamps only grow (`StampsGrow`), and what keeps
the two snapshots that matter out of reach of pruning (`SnapshotKept`,
`ReportedOrSuperseded`), in the order of the names as text, migrations included.

### Uploads (`HubProofs`)

`UploadTypeCorrect`, `RecordsStoredInOrder` and `EvolutionIsAnnounced`. `Split` is a
fold: `SplitOfRun` proves that it divides an unbroken run of records into batches
that are runs, follow each other without a gap, and keep both limits, whatever the
lengths of the records. `StoredInOrder` is not inductive, as it says nothing of a
batch under way. The invariant `DeliveryInv` gives each machine a committed
beginning of its log, a stored one at least as long, and an upload that goes on
where the stored one ends or repeats it (`Underway`). For the stages, `StageInv`
says that each stage the total has reached is announced, or pending in an upload
that has read a smaller total or has it in its combined result, or that an upload
failed after it had stored something. Whoever stores the batch that crosses a
stage has read a total below it, as totals only grow (`TotalGrows`).

### Insights recap (`HubProofs`)

`RecapsGrounded`. The page and the evidence that was sent for it agree while a
model is asked (`EvidenceOfPage`: redaction adds no card and no figure), and every
kept output is valid for the evidence it is filed under, so that a later page with
the same evidence may show it.

`RecapTypeCorrect` adds the types to it.

### Reports (`HubProofs`)

`AnalyticsTypeCorrect`: a row that arrives between two queries gets an id of its own
(`FreshId`), and a page keeps the kind its first query gave it.

`AnalyticsAddsUp`: `AnalyticsAdds` speaks of the pages that are shown, so the invariant
`FiguresInv` says for each step which figures the page has by then, and that each is
that of the rows there are unless a row has come since the page began (`WindowTrue`
to `ReportTrue` for a report, `LifetimeTrue` to `OverviewTrue` for an overview). The
rest is about one set of rows. `GroupsAdd`: if every row falls into one of finitely
many groups, their tokens and their numbers add up to those of the rows. Points,
breakdown, series, timeline, hours and weekdays are such groups. That the buckets
on the axis take every row is `BucketsCover`: it needs that a length is a multiple of
a second, since a bound is compared by its whole second (`TextOrder`), and, unless
the period is "24h", that no row lies in the first second after the window. The
day and the week of an overview are whole days of the heatmap when no row lies in
the first second of a day (`DaysWithin`, `CellsAdd`). The lengths are any even numbers
that divide each other (`AnalyticsAssumption`), and a report's start is a moment,
never the zero start of "all".

### Composites (`RecoveryProofs`, `LocalProofs`, `HubProofs`)

`RecoveryHoldsParts`, `LocalHoldsParts` and `HubHoldsParts`: the composite satisfies
the specification of each of its parts, so that every theorem above holds of it;
`RecoveryTypeCorrect`, `LocalTypeCorrect` and `HubTypeCorrect` follow.

### Induction over data (`FoldLemmas`)

The library's induction theorems take an operator as a parameter, which the
installed provers cannot instantiate. `NatSetInduction` and `SubsetInduction` state
the same for sets, from the well-foundedness of the orders. With them the folds of
the community modules, functions defined by recursion over subsets, are shown to
have a solution (`FoldExists`), to be it (`LeftFold`), and sums are shown not to
depend on the order of their summands (`SumAdd`), nor on how these are grouped
(`SumOfParts`).

### Only model-checked

Liveness: `LogRecordsArrive`, `EveryRequestAnswered`, `RecordsRead` and `Reclaimed` are
out of the proof system's reach. Every other property of the runs that hold is
stated by a theorem above.

## Not modelled

- Pages, templates and exports render what the queries return; the catalog is a
  table loaded at start; aliases are names for display; the art validator, the
  version, metrics and configuration are helpers without shared state.
- Access control (`security.go`): this project is about the correctness of the
  counts and of their storage.
- `serveHTTP`: two calls of the HTTP library. That the process may end at any
  moment is in the modules of the state it leaves behind.
- Text: JSON, SQL columns, labels, the validation of single fields, Antigravity's
  wire format. Their outcomes are inputs of the models.
- The thread snapshots of the Codex database, `DirectoryCache`, import, reporting
  zones other than UTC, and daylight saving.

## Plan

Worth stating next: an abstract store (which usage counts, whatever the order of the
events) that `UsageStore` implements, and an abstract lock for `DatabaseLock`.
