# A verification project for USSL

USSL is a document synchronisation server. `usld` keeps named documents in
memory, serves a line protocol over TCP and WebSocket, tells subscribers about
writes, stores documents in SQLite and drops them when their time to live is
over. This directory holds TLA+ modules translated from its Rust source, the TLC
configurations that check them on small instances, and proofs, checked by TLAPS,
of what matters most. Paths below are relative to `src/`.

Run a configuration with `tlc -config X.cfg M`, a proof with `tlapm M.tla`.

## 1. Inventory

| component | state | operations | modelled in |
|---|---|---|---|
| document manager (`crates/ussl-core/src/manager.rs`) | `documents`: id to `Arc<Document>` | create, get, get_or_create, delete, set_expire, gc, list, backup, restore | `DocumentManager`, `ManagerOrder`, `BackupRestore`, `Globs` |
| presence (same file) | `presence`: id to a list of entries | set_presence, get_presence, remove_presence, the part of gc | `Presence` |
| broadcast (same file) | a ring of deltas, a position per receiver | publish_update, subscribe | `WritePath` (sending), `Connection` (receiving), `Globs` (patterns) |
| document (`document.rs`) | `meta`, `ydoc`, `lww_data`, `update_count`, `compaction_count`, a lock or atomic each | get, set, push, increment, delete, compact, encode_state, apply_state | `Document` (locks), `Content` (content), `BackupRestore` (state) |
| values and paths (`crdt.rs`) | none | get_path, set_path, the path parser | `Paths` |
| connection handler (`ussl-transport/src/handler.rs`) | parser, subscriptions, authenticated, rate limiter | process and one handler per command, cleanup | `Connection`; the document commands step by step in the modules of what they work on, and as a whole in `Content` and, from the line on, in `Session` |
| parser (`ussl-protocol/src/parser.rs`) | the buffer | feed, parse, one parser per command | `Connection`, `Grammar` |
| servers (`tcp.rs`, `websocket.rs`) | one task per connection | the select loop, its writes, its ends | `Connection`, `Presence` |
| rate limiter (`rate_limit.rs`) | tokens, time of the last refill | try_acquire, would_limit, available_tokens, reset | `RateLimiter` |
| storage (`ussl-storage`: trait, memory, SQLite, PostgreSQL) | a row per document, a size in memory | store, load, delete, list, exists, stats | `Storage` (the promise), `Backends`; `WritePath` (SQLite `store`, all the server calls) |
| daemon (`usld/src/main.rs`) | - | start, the collector's loop | `DocumentManager`, `WritePath` |
| CLI (`ussl-cli`) | the connection, a reader per command | execute_command, reconnect | `CliClient` |
| JavaScript SDK (`sdks/js`) | state, socket, timers, queue of commands | connect, disconnect, send, the events of a socket | `JsClient` (`client.ts`) |
| TLS, metrics, examples, packaging | - | - | not modelled, see section 7 |

How they interact. Every connection is a tokio task on a multi-threaded runtime.
It reads bytes, feeds its parser, and runs each command to its end without
awaiting; commands of different connections interleave at the locks they take.
They share the manager: two `DashMap`s (each access locks a shard), the
documents behind `Arc`s (each with several locks), and a broadcast channel. A
write spawns a task that stores the document. The collector is a task that wakes
every minute.

What is hard, and hence what the properties are about:

* between two accesses of a handler the world changes: an id is looked up and
  inserted later (`create`), an `Arc` is written to after its entry is gone, ids
  found expired are removed later (`gc`), a list is made and looked up again
  (`set_presence`), a text is read and replaced later (`compact`);
* the meta, the state and the version that go to the database and to the
  subscribers are read one after the other, and the tasks that store them are not
  ordered;
* a connection ends in several ways, not all of which clean up;
* lines arrive cut anywhere, errors end a round of processing, a receiver can lag;
* a backup walks through the map while everybody else changes it, and a restore can stop
  half way;
* five places match patterns, each in its own way; paths are forgiving, and writing
  along one replaces what is in its way;
* clients match answers by counting lines, over connections that time out, close and are
  replaced while events of the old ones are still to come.

`PROJECT.json` lists every hazard with its line and the properties that cover it.

## 2. The modules

**DocumentManager** has one action per access to the map or critical section of
a document. `documents` is the DashMap, `heap` the documents behind the Arcs
(`DocRefs`), `task` what each connection is doing, `gc` the sweep. A command with
two steps has two actions (`CreateCheck`/`CreateInsert`, `Get`/`Read`,
`GetOrCreate`/`Write`, `FindForDeletePath`/`DeletePath`,
`FindForExpire`/`SetTTL`); `DEL` is one (`Delete`). The collector looks at one id
at a time (`GcScan`) and then removes one id at a time (`GcRemove`). `INC` stands for
PUSH as well. The content of a document is the id of the last SET and the number
of INCs. `raced` is a history variable: the ids clients touched since the sweep began.

**ManagerOrder** extends it with the order in which the commands can be taken to have
happened, to state linearizability. The abstract specification of the manager is an atomic store:
`Allowed` says which answers it may give in a state, `Effect` what it becomes. A CREATE may succeed in any
state, and then empties the id, because it looks and inserts in two steps (section 4). `lives` is a history
variable: what the map has under an id changes from time to time, each change begins a life, and what a
command does belongs to the life of the Arc it works on, which may be over by then. The order is life by life, and in
a life as it happened (`Record`, `Evict`). `Linearized` says that the store explains it, that it ends with
what there is, respects real time, and has every command once, with the answer the client got.

**Document** opens one document up: `ydoc` (text and number of updates
remembered), `lww`, `version`, `updates` (`update_count`). A SET on text is three
steps (text, update count, version), on the other strategies one; `compact` is four
(`CompactRead`, `CompactSwap`, `CompactReset`, `CompactCount`), reached by COMPACT or
after a write through `ShouldCompact`. Contents are numbered by write.

**WritePath** composes `Document` (it extends it and uses `Work` as it is) with
`persist_document` (`PersistMeta`, `PersistSpawn`), the store tasks (`Store`, which may fail),
the publication of a SET (`PublishVersion`, `PublishSend`) and `Restart`.

**Presence** has the two accesses of `set_presence` (`SetPresence`, `Push`), the clean-up
list by list, the collector removing lists (`Collect`; which documents it collects is
nondeterministic here, because `DocumentManager` has that), and the ways a
connection ends: `closed` after `cleanup()`, `failed` by a write error, `panicked`. Each
connection has an id of its own (address and counter), so a client that
reconnects is another member of `Clients`.

**RateLimiter** is the token bucket on a clock with `UnitsPerMs` units per
millisecond, because what the code forgets is less than a millisecond. `since`,
`granted`, `earned`, `origin` are history variables.

**Connection** is one connection: pieces of lines on the `wire`, the parser's
`buffer`, `process()` line by line, the answers in `batch`, their writing, and the receiver
of the broadcast ring. A line is two pieces, and reads and frames take any number of them,
so that every cut happens. A line that was cut, or glued from pieces of several, is line 0 and may read as any
command (`Readings`): `AUTH pw` without its newline is a whole AUTH in a text frame. `executed` is what handlers ran
for which line. `transport` decides about the newline added to text frames and about QUIT. Whether the
limiter refuses is nondeterministic here.

**Globs** has the matching of ids with patterns: `GlobMatches` (KEYS and MemoryStorage),
`SubscriptionMatches` (deltas), `SqliteMatches` and `PostgresMatches` (`LIKE`, with the case folded by the one and a
backslash for an escape of the other). `Agree` has all the differences.

**Storage** is what the trait promises, as an abstract specification: a call takes effect at
one moment, scans look at each document once, errors leave open whether the call took effect. Two variables that never
change say what kind of storage it is: `volatile`, and `silent`, one that may list fewer rows than there are, without an error.
**Backends** has the three implementations, the memory one access by access, and the instance
`Contract == INSTANCE Storage WITH rows <- table, call <- ...`; `ImplementsStorage` is
`Contract!Spec`. Of the three SQLite is silent (`ListDropsRows`), the memory volatile. What a listing may contain
is what one of the two LIKEs matches. `Calls` is what the callers see of `task`, which has the fields of the abstract `call` and those of
the implementation. A character that is not a letter is its own lower case (`Lower`); PostgreSQL folds none.
`TableSize` counts the bytes of the rows, which `total_size` is compared with.

**BackupRestore** extends `DocumentManager`: `Serve` is a step of it (everything the module
has, with the entry the iterator of `backup()` is at held), `BeginBackup` to `EndBackup` and
`BeginRestore` to `EndRestore` are the two commands step by step, one job at a time. `text` says which
documents are `crdt-text`: only of those does `encode_state` have the content.

**Paths** has `PathParser`, `get_path` and `set_path` on values as records; **Grammar** the
tokenizer and one operator per parser of a command, and the lines documented in `command.rs`
(`PrintLine`). **Content** extends `Paths` by the handlers: a command, as the server has understood it, changes a
document and is answered. Commands are atomic there;
integers have a width (`Half`), and overflow panics or wraps, as the build has it. **Session** composes
it with `Grammar`: a client writes the line of a command, and the server parses and serves it. A step of `Session`
serves what was parsed, so on lines that are understood as they were meant (`Understood`) it is a step of `Content`, of which the
theorems are. Strings are TLA+ strings, taken apart by characters. `CommandAssumption` leaves out the
paths on which the parser does not come to an end (section 4).

**CliClient** is `execute_command` and the loop around it: `reader` is the BufReader made for
each command, which takes from the `inbox` of a connection any part that is there and is dropped with
what it holds; `Fail` is an error, after which the loop connects anew. The server executes what it has
read, on each connection in order, at any time. **JsClient** is `client.ts`: `phase` has the sockets, also
those the client has turned from, whose events still come; `timers` and `held` the reconnect
timers and whether the handle is one of theirs; `pending` the queue, which `handleMessage` shifts by one for each line (`Shift`). The close event
is three steps, because `handleDisconnect` and `scheduleReconnect` call the listeners of the application before they are
through: `within` says which are running, and meanwhile there may be any `Connect`, `Disconnect` and `Send`, and the listener may throw
(`ListenerThrows`). `available` is whether there is a WebSocket implementation; with one, its constructor may throw (`NoSocket`). **MCClients** runs one or
the other.

Definitions preceded by `Mutant:` are no part of the model: each is a plausible
bug, and replaces the definition it is named for when the properties are put to the test.

## 3. The runs that pass

| run | instance | what it shows |
|---|---|---|
| `DocumentManager.cfg` | 2 connections, 1 id, 3 Arcs, 3 commands, clock to 2, TTL 1, fair | `IInv`: types, every Arc in the map or in use is a live document of its id. `GcOnlyRaces`: the collector takes an unexpired document only in the race with a client. `OnlyEvictionsLose`: a document leaves the map only by DEL, gc or a racing CREATE. `ExpiredIsCollected`: an expired document is removed, replaced or given another TTL |
| `ManagerOrder.cfg` | 3 connections, 1 id, 3 Arcs, 3 commands of all 7 kinds, TTL 1, clock to 2 | `Linearized`: the answers are those of an atomic store |
| `Document.cfg` | 2 workers, 8 commands, threshold 2, both strategies | `VersionCountsWrites`: no write is missed or counted twice by the version. `HistoryBounded`: at most 1 + W(T-1) + W(W+1)/2 updates, for W workers and threshold T, a bound that is reached |
| `WritePath.cfg` | 2 workers, 3 SETs, 1 restart, failing stores | rows and deltas are never older than the version they carry; a connection's deltas have growing versions |
| `RateLimiter.cfg` | 0.4 tokens/ms, burst 2, 3 units/ms, 8 ms | `RateLimited`: never more than a burst and the rate. `AtLeastHalfRate`: never less than half of it |
| `Presence.cfg` | 3 connections, 2 documents, 5 sets, 2 collections | `OneEntryEach`, `CleanupIsComplete`, `OnlyOwnerOrGc` |
| `Connection.cfg` | 3 lines of 8 kinds, buffer of 2 lines, all transports; on TCP also 4 deltas and a ring of 2 | `OneAnswerEach`, `AuthGate`, `StrandedOnlyByErrors`. `DueArrives`: nothing due is lost but to lag |
| `BackupRestore.cfg` | 1 connection with 2 commands, 2 ids, 4 Arcs, clock to 2, a BACKUP and a RESTORE, bad entries | `BackupIsRegular`: every entry is of a moment of the backup. `RestoreKeepsTTL`, `RestoredAreSaved` |
| `Backends.cfg` | 2 callers, 2 ids, 2 rows, 4 patterns, one with an escape, sizes modulo 8, each backend | `ImplementsStorage`: the refinement. `SizeIsExact`: `total_size` is the size of the rows, unless a row changed under a store |
| `Session.cfg` | 3 commands, 7 paths, integers from -4 to 3; all texts of up to 5 characters as paths, of up to 4 as patterns | `Understood`, `WriteIsReadBack`, `OthersKept`, `RefusedChangesNothing`, `CountersAdd`, `PathsRoundTrip`, `PatternsAgree` |
| `Clients.cfg` | CLI: 4 commands, 2 connections, a delta, 2 keys. SDK: 3 calls, 2 sends, 2 sockets at a time, 1 reconnect attempt, up to 3 lines an answer | `AnswersMatch`, `OrderKept`; `PromisesMatch`, `ConnectedIsUsable`, `StaysDisconnected`, `SendsSettle`, `GivesUpOrConnects` |

Why the bounds are enough. A race of the manager needs the two accesses of one actor and
one step each of a client and of the collector: two connections and three commands contain
every pairing with a document to race for, and the theorems of section 5 are free of
the bound; three connections with three commands contain every triple for linearizability, which is a
property of each id by itself (hence one id). TTL 1 and a clock to 2 contain fresh, live and
expired documents. The counters (`MaxCommands`, `MaxNow`, `MaxSets`, `MaxGcs`, `MaxLines`,
`MaxDeltas`, `MaxRestarts`) only cut behaviours off. In `Document.cfg` 8 commands fill the history
to its bound of 6 for two workers at threshold 2 and leave room for one more to exceed it;
`SizeFloor` = 0 lets the size decide from the first update on, as it does from the 101st of
1000 in the code. `WritePath.cfg` sets the threshold
out of reach: a compaction that loses a write (section 4) would break `RowCoversItsVersion`
too. Where clients may stop, deadlock is not checked; the manager never stops, because the
collector goes on, and its runs check it.

`Connection.cfg` publishes deltas only to TCP connections and those of text frames, whose lines are about
subscriptions and whose mangled lines succeed (constraint `DeltasApart`): delivery does not look at the rest. A third line is sent only while
at most one mangled line was answered (`FewMangled`): one is enough to be an AUTH or an UNSUB nobody sent. `BackupRestore.cfg` has a
BACKUP and then a RESTORE, with the collector at work during them (constraints `BackupThenRestore`,
`SweepsDuringJobs`); four Arcs are what two ids need before and after. Two callers of a storage contain each pair of
overlapping calls, and the trait promises nothing about three. In `Session.cfg` three commands are enough to
build a nested value, break it and read it, only what may change a document is followed (`Writes`), and
`probe` is a parameter in the initial state. Five characters contain every bracketed
index with any two others before and behind it. In `Clients.cfg` two connections are one before and one after
an error; two sockets at a time (a closed one is used again) are one in use and one left behind; two sends are a pair to confuse.

Symmetry is used for connections, callers, ids, Arcs and data in runs without liveness.

Fairness (`FairSpec`, `DocumentManager.cfg`): weak fairness of each handler, which does not await
between its steps, and of the collector, which `main` spawns as a loop over an
interval timer. Nothing is assumed of clients or of the clock.
For the SDK (`Fairness` of `MCClients`, `JsFairness`): listeners return or throw, timers that were set fire, the
close event of a socket that is being closed comes, the server answers what it has read, and
an open socket delivers. That a connection is ever made is not assumed, which is what the connect timeout
is for. `ImplementsStorage` is a safety property: no call need return.

## 4. Where the code and its documentation part

`DocumentCompact.cfg` checks one sentence of the documentation ("Preserves document content
while discarding operation history", `CHANGELOG.md:16`) that the code does not keep: a SET between
the two locks of a compaction is lost (`CompactionKeepsContent` is violated).

Further differences met while modelling. The modules behave as the code does, and no run is
spent on them. The first six are incidents that properties have as their exceptions, or say less than, because
nothing in the code excludes them:

* `create()` checks and inserts in two accesses: two CREATEs of one id can both answer OK, and
  a CREATE can replace a document a SET has made and written in between (test
  `test_duplicate_create_fails`, `manager.rs:340`). `OnlyEvictionsLose` has this as its one exception.
* "Documents are saved to SQLite after every write operation" (`README.md:406`): nothing orders the
  store tasks, so the row can stay that of an older write, though no store fails (`handler.rs:581`). `RowCoversItsVersion` is
  about what a row has, not about which write it is of.
* "Clean up when connection closes" (`handler.rs:589`): a write error leaves `handle_connection`
  without it (`tcp.rs:193`), and the presence stays listed. `CleanupIsComplete` is about connections that reach `cleanup()`.
* The list `set_presence` makes in one access can be gone in the next, where it is unwrapped
  (`manager.rs:140`): `Push` has the panic, and no property excludes it.
* "TTL is preserved as remaining time from backup moment" (`CHANGELOG.md:37`): a document whose TTL runs out while BACKUP
  looks at it is restored without one (`manager.rs:267`) and lives for ever. `RestoreKeepsTTL` has it as its exception.
* "Total size tracking" (`memory.rs:16`): two stores of one id at a time subtract the same row twice, or miss each
  other's, and `total_size` is off from then on. `SizeIsExact` ends with `overlapped`.
* `gc()` ("removes expired documents", `manager.rs:172`) removes by id what it found expired
  before, so a document recreated or given a longer TTL during a sweep goes
  unexpired. `GcOnlyRaces` says exactly when that can happen.
* EXPIRE (`README.md:157`) stores a TTL that counts from the creation of the document
  (`document.rs:114`): on an older document it has run out at once.
* `encode_state()` is the state of the Yrs document; under every strategy but `crdt-text` the
  content is in `lww_data`, so what `persist_document` stores has none of it.
* "On restart, documents are loaded from the database" (`README.md:407`): nothing in the server
  reads it (`Restart` begins with an empty document).
* A refill forgets the fraction of a millisecond it came after (`rate_limit.rs:115`), so tokens are not
  quite "refilled continuously at the configured rate"; `AtLeastHalfRate` bounds the loss.
* QUIT in a binary WebSocket frame is answered, and the connection stays open
  (`websocket.rs:229`). On the others, commands behind a QUIT in the same read are executed and
  never answered.
* DEL, PUSH, INC, DEL PATH and RESTORE tell no subscriber; deletions do not reach the database.
* BACKUP answers with the Yrs state, so RESTORE brings documents of the default strategy
  back empty (`EncodeState`). A RESTORE that fails half way keeps what it has inserted and stores none of it.
  The buffer (`parser.rs:25`) bounds the size of a line, and with it of a RESTORE, but not the answer to a BACKUP.
* `list()` on SQLite drops rows it cannot read and answers without an error (`sqlite.rs:165`).
* A line that was cut is whatever its bytes say: a text frame gets a newline (`websocket.rs:210`), and after a refused
  read the next one is taken from its middle (`parser.rs:25`). So a client can be subscribed, unsubscribed or authenticated
  by lines it did not send as such; `AuthGate` and `DueArrives` have it.
* A subscriber that lags is not told: the server logs it (`tcp.rs:222`).
* Patterns: `_` and `%` are wildcards of `list()` on SQLite and PostgreSQL, a backslash is an escape on PostgreSQL, case
  does not count on SQLite, a subscription `*x` matches only the id `*x` while KEYS `*x` is a suffix (`PatternsAgree`).
* An increment beyond 64 bits panics in debug builds and wraps in release builds (`document.rs:323`).
* A path with a `[` that nothing closes makes `PathParser::next` call itself without end (`crdt.rs:295`);
  `PathsRoundTrip` says that this is the only such path. A path of dots only is
  acknowledged and changes nothing.
* A refused PUSH or SET leaves a new, empty document behind (`handler.rs:330`).
* KEYS in the CLI shows half of the lines of the answer and leaves the rest to the reader that
  is dropped, or to the socket and the next command (`main.rs:199`). A command that timed out may be
  executed after the ones that follow it, and after a reconnect nobody authenticates again.
* The SDK settles a command per line, and bulk answers have two: `get()` sees `$n`, and the next
  command the data (`client.ts:211`); an array has a line for each item. The close event of the socket `disconnect()` left behind
  discards the one `connect()` has made since (`client.ts:238`); `disconnect()` clears one reconnect timer of
  two (`client.ts:127`); the promise of `connect()` never settles if `disconnect()` is called while it connects; after a reconnect nobody authenticates again.
* Listeners of the SDK run in the middle of a close event. One of `disconnect` that calls `connect()` (`client.ts:246`) has the state
  it makes overwritten with "reconnecting": the timer opens a second socket, and when the first opens the client says
  connected while the second connects, so that `send()` throws behind its entry in the queue. One of `reconnecting` that calls `disconnect()`
  (`client.ts:263`) finds no timer to clear, and the one set afterwards connects the client again. One that throws leaves
  the state "reconnecting" without a timer. The history variables `overwritten`, `late`, `threw` and `crossed` name these in
  the properties.
* Without a WebSocket implementation `connect()` rejects and leaves the state "connecting" (`client.ts:74`), from which later calls
  return at once. When the constructor throws in a reconnect (`client.ts:81`), there is no close event: "Will trigger another
  reconnect via handleDisconnect" (`client.ts:273`) is not so.

## 5. What is proved

All theorems hold for every value of the constants allowed by the named assumptions
(`NoneAssumption`, `OpsAssumption`, `TTLAssumption`, ... in the modules that declare them); where a
theorem assumes more, it says so below.

* `DocumentManagerProofs`: `Invariance` (`Spec => []IInv`), `GcSafety`, `EvictionSafety`.
  `GcOnlyRaces` is not inductive by itself: that a victim expired when it was scanned stays
  expired needs `WellKeyed` and `HeldRefs` (a write or `SetTTL` through an Arc changes a
  document of the id it names, so an Arc of another id cannot make a victim unexpired), and
  that time only grows. There is one lemma per action; `EvictionSafety` follows from the same invariant.
  On top of it, `BackupInvariance`, and from it `BackupRegular`, `RestoredTtls` and `RestoreSaves`, the
  three action properties of `BackupRestore`: `IInv` holds there too, since a RESTORE inserts a new
  Arc of the id and makes the id `raced`; `BInv` adds that what the history variables record includes what is there
  now (`SeenInv`), that the entries so far are of recorded states and the ids passed over were absent at
  some moment (`RegularInv`), that their TTLs fit a deadline recorded (`TtlInv`), and that what was inserted is still
  there or was taken away since (`RestoreInv`). Documents have a version above zero (`Versioned`), which is what
  tells a stored one from one that was not.
  The third part is `Linearizability` (`Linearized`). `OrderInv` adds to `IInv` that a life ends, so far, with
  what is behind its Arc (`Ends`), that an Arc has one life (`Owned`), and that a life begins with a step that does the same
  whatever was there before (`Begins`, `Resets`). That is what makes the order right when a SET writes through an Arc that
  DEL has just removed: the write is put before the step that ended the life, which it does not change. That this
  is within the time of the SET is `Works`: all later lives of the id are later than its beginning.
  `Unanswered` keeps a command from being in the order twice. What a step adds is a point in a life or a new life, so most of
  the proof is two lemmas, `JoinsKeeps` and `OpensKeeps`, and one step per action on top of them.
* `WritePathProofs`, first part, about `Document`: `VersionSafety`. The invariant weighs the workers between their text
  write and their version bump (`Unversioned`) against the counters; the lemmas `Opens`,
  `Closes` and `Stays` say how a step changes that set, and need `WorkersAssumption`
  (finitely many workers). `HistorySafety` (`HistoryBounded`): `HistoryInv` bounds a `Potential`, what the
  history may yet become. It adds to the history the `Slack`, what the updates counted now
  still allow the free workers to write before each looks at the count, and, for every worker between
  its swap and its reset, what that reset will allow. No step raises it but a swap, which starts again
  from at most one update (`PotentialSwap`); a reset only moves a share of it into the slack
  (`PotentialReset`). The attempt to prove an earlier bound, W(T+2)-2, failed for a reason: it is right
  for two and three workers and too small for one (as TLC then showed) and for four or more.
* `WritePathProofs`, second part: `DeltasIncrease`, `RowCovers`, `DeltasCover`. `PathInv` says where a
  command may be and that what it has read of the version is not ahead of it. `DeltasInv` is the
  strengthening of `SessionDeltasIncrease`: the deltas of a connection are older than the version if it
  has bumped it since (`Bumped`), and than the version it is about to send. `CoverInv`, for the other two,
  says that every image of the document under way or stored has the writes its version counts. Their hypotheses are those the
  code needs: a `crdt-text` document, no INC (which counts in the version and writes no text),
  and `CompactionKeepsContent`, so a compaction that loses text (section 4) is the only way these
  two can fail. Stores that overtake each other, failing stores, and restarts are all in.
* `RateLimiterProofs`: `Invariance`, `RateSafety`, `HalfRate`. The strengthening `Budget`
  counts as spent also what the bucket holds and is still to earn, capped by a full bucket and
  the part of a millisecond a refill can leave; every step keeps the sum within the allowance of
  the window. The products of two unknowns are confined to five arithmetic lemmas.
* `PresenceProofs`: `Invariance`, for `TypeOK`, `OneEntryEach` and `CleanupIsComplete`
  together: between its two accesses a connection is not listed, and a cleanup under way has
  left nothing in the lists it has been through. `OneEntrySafety` takes one of them out.
  `OwnerSafety` (`OnlyOwnerOrGc`) follows from the invariant: each access replaces one list by one
  with the same entries of everybody else (`OthersStay`), and always moves its own task on.
* `BackendsProofs`: `Refinement` is `ImplementsStorage`, for the three implementations and any set of callers, ids,
  rows and patterns. Initial states map to initial states (`InitMaps`); every action of `Backends` is a
  step of `Storage` or a stutter (the lemmas that end in `Steps`), under `Invariant`, which ties the
  place a call is at to what it has read and will answer (`Sound`). That a listing lies between what all
  three matchers agree on and what either LIKE adds is a fact about matching
  (`GlobMatches` implies `SqliteMatches`, and of keys without a backslash, as ids are, `PostgresMatches`), shown by the least counterexample, because the library's
  induction rules cannot be used; it needs `CharAssumption`. `SizeExact`
  (`SizeIsExact`) is modulo the width of `usize`: `Account` says that `total_size` is the sum of the rows and of
  what the stores and deletes under way still owe it, as long as none was overtaken.
  `MatchersAgree`: the five matchers agree on every key and pattern, whatever their characters and length, up to what each
  adds (`Agree`). It is stated for any folding of case that takes nothing but the star to the star.
* `ContentProofs`: `WritesShow`, `WritesKeepOthers`, `RefusalsChangeNothing`, `CountersAreSums`, for all values, paths,
  strategies and widths. The recursion of `get_path` and `set_path` over the segments is written as recursive functions, whose
  existence is shown first (`FoundIs`, `BuiltIs`), again by the least counterexample. Then `ReadBack`: what is set at a path is found
  there. `Untouched`: at a path that parts from the one written there is what there was, or one of the
  exceptions `Keeps` names; to prove it, those had to be said more exactly than the runs alone had asked for (behind a
  value that gave way there is nothing, or a Null). `Shaped`: the data of a document is a value, and
  of a text document the text is a string. `CounterInv` is what `CountersAdd` needs: a document that
  has only seen INCs has, at each path of one that clashes with no other, the sum modulo 2^w (`Added`), and no number
  where no INC was (`Counted`), so that an INC that is the first at its path starts from zero.
* `ConnectionProofs`: `Invariant`, and from it `TypeCorrect`, `OneAnswer`, `Gate`,
  `Stranded`, `Due`. The invariant sees the wire, the buffer and the lines answered as parts of the one
  stream the client sent: `WireInv`, `BufferInv` and `MessagesInv` say that each has its pieces in
  the order of the stream and before those of the next; `IntactInv`, that without a dropped or glued line
  they fit together without a gap (`Aligned`), which is what `OneAnswerEach` needs; `AuthInv`, that an authenticated connection has
  executed an AUTH that admits it, and what ran for a line that arrived as sent has an answer; `StrandedInv`, that a complete line left in the buffer is left by an
  error; `DueInv`, what the two sides of a subscription know of each other.
* `ClientProofs`. For the SDK `JsInvariant`, `Promises`, `Usable`, `Disconnected`: until the first `disconnect()`, and unless a listener made another, there is
  one socket (`SocketInv`), the timers are one, and the handle is its, or it is known that there were two
  (`TimerInv`), and what waits in the queue for the open socket is what is on its way there and back,
  in one order, up to the first command with several lines (`QueueInv`). For the CLI `CliInvariant`, `Answers`, `Order`: on a connection
  without deltas and lists there is, of all that may still be read, nothing, or the whole answer to the command
  being executed, or its second line (`CleanInv`); a request waits on one connection only, and only one
  command is not given up (`RequestsInv`).

Only model-checked: liveness (`ExpiredIsCollected`, `SendsSettle`, `GivesUpOrConnects`), which is beyond
this prover; `Understood` and `PathsRoundTrip`, which are about strings taken apart by characters
and the parsers of `Grammar`, whose RECURSIVE operators it does not take; `PatternsAgree` in its form
on texts (`MatchersAgree` has it for sequences of characters); and the
properties expected to fail, which a proof cannot help.

## 6. Plan

Modelled and checked: all modules above, in the order of section 2. Proved: the theorems of section 5, and with them
every safety property of the passing runs but the three about texts that section 5 names. What is left is to
write the tokenizer of `Grammar` and the parser of paths on sequences of characters, with recursive functions in
place of RECURSIVE operators, so that `Understood` and `PathsRoundTrip` can be proved in the way `MatchersAgree` was.

## 7. Not modelled, and why

Metrics (`metrics.rs`) are counters nothing calls. TLS loads certificates and leaves the rest to
rustls. The examples are a load generator and a demo page. Of PostgreSQL, the schema and the
listener of changes (`subscribe_changes`, which nothing calls) are left out: the first is SQL, the
second another service's. Of the SDK, `document.ts` and `presence.ts` keep caches and callbacks
behind `client.ts`; a delta names no document, so every document of the client takes it. Of the CLI, argument
parsing, history and colours. Argument parsing of the daemon, logging and the wording of answers are data the
properties do not tell apart. INFO, KEYS, TTL and PRESENCE without data only read.
`Document::delete` without a path and `apply_update` are reached by no command.

JSON in `Grammar` is integers, strings without escapes, null, and empty arrays and objects; floats, booleans and
binaries behave like strings in `Paths`: nothing can be looked up in them. The timeouts of
the CLI and the SDK, five seconds each, may come at any time.
