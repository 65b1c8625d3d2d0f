# KeyFlow in TLA+

KeyFlow is a proxy in front of AI services. It keeps pools of API keys by group,
takes a key for each request, blacklists keys that fail, shares its state among a
master and slaves through a database and a store (Redis or memory), and logs what
it did. This directory holds TLA+ specifications of the parts of the program in
which the order of events decides whether it is right, the TLC configurations
that check them, and theorems checked by TLAPS.

Each definition is translated from the Go code; `PROJECT.json` ("map") names the
lines. The repository has no Go tests; what it promises stands in `README.md`
(Chinese), in the descriptions of the settings (`internal/i18n/locales`), and in
comments.

## 1. The system

### Parts, their state and operations

| Part | State | Operations |
|---|---|---|
| Key pool (`keypool/provider.go`) | rows of `api_keys`; in the store a hash `key:ID` per key and the list `group:G:active_keys` | report of success or failure, select, add, remove, restore (some, all, by status), disable, clear statistics, weights, load at the start |
| Cache-hit selection (`provider.go` from 996, `cache_hit.go`) | bindings of sessions and prompts to keys in the store, records of them in memory, reduced weights | bind, renew, give back, clean, write weights to the database |
| Configuration sync (`syncer`, `config/system_settings.go`, `services/group_manager.go`) | two caches per node, a subscription each, selectors and effective configuration computed from them | load, subscribe, reload, invalidate, stop |
| Sub-groups (`services/subgroup_manager.go`) | a selector per aggregate group with current weights and a mutex | select, rebuild |
| Request log (`services/request_log_service.go`) | bodies and a set of pending keys in the store, `request_logs`, hourly statistics, a ticker | record, flush, stop |
| Key tasks (`task_service.go`, import, deletion, manual validation) | a record `global_task` in the store, a goroutine per task and its workers | start, progress, end |
| Key migration (`commands/migrate.go`) | `api_keys`, `temp_migration`, the store | a command of eight steps |
| Proxy (`proxy/server.go`) | none but that of its requests | select a sub-group and a key, forward, report, log, retry |
| Cron checker, validator (`keypool`) | `last_validated_at` per group, a round under way | test the blacklisted keys of due groups, stop |
| Groups (`group_service.go`, `aggregate_group_service.go`) | `groups`, `group_sub_groups` | create, update, copy, delete; add, weigh, remove sub-groups |
| Store (`store`) | strings with a time to live, hashes, lists, sets; subscriptions | atomic calls, publish, subscribe |
| Channels, HTTP clients | caches by group and by configuration | get or create |
| Application (`app/app.go`) | what is running | start master or slave, stop |

The rest (handlers, middleware, routes, i18n, utilities, models, the web frontend)
decodes, checks and shows; it keeps no state between requests. `PROJECT.json`
("components") lists every part with its status.

### How they interact

A request: the proxy takes the group from the groups cache, for an aggregate group
a sub-group from its selector (which asks the store whether the sub-group has
active keys), a key from the list in the store, and an upstream; it forwards, and
reports the outcome. `UpdateStatus` handles the report in a goroutine of its own:
it reads the hash, then changes row, hash and list within a transaction. The
request log puts the outcome into the store; the master moves it to the database.

An administrator changes rows; the handlers publish a message, and the syncer of
every node reloads its table. Long operations on keys run as tasks, one at a time.
At its start a master clears the store and fills it from the database. `migrate-keys`
rewrites all rows while nothing else runs.

### What is hard

* Two copies of every key: row and store are changed call by call, by goroutines
  that decided from what they read before; calls and commits fail half-way.
* Reads before a transaction or an unlock and uses after it (`UpdateStatus`,
  `removeKeysByStatus`, the task record, imports, selectors).
* Messages that are dropped, or overtaken by the reload they ask for; caches that
  are computed from other caches.
* Batches that fail and are tried again, with commits whose answer is lost; bodies
  that expire meanwhile.
* Stops that wait for goroutines; crashes that leave records behind.
* Reports handled long after they were made; weights read and written by goroutines
  that know nothing of each other; checks on rows that another request then changes.

`PROJECT.json` ("hazards") lists them with their lines, and the properties that
would catch them.

## 2. The modules

For each module `M`: `M.tla` is the specification, `MProps.tla` states what is
expected of it, `MCM.tla` gives values to constants, `M_*.cfg` are the runs, and
`MProofs.tla` has the theorems, those of SubGroups and CacheHit together
`SelectionProofs.tla`, for which names they have in common differ (`CacheSpec`,
`CacheInit`, `CacheTypeOK`). Definitions named `Mut...` stand next to the
definition they would replace; each is a bug that one property must find.

### KeyPool

`db`, `dirty` and `lock` are the rows of one group: committed, as seen by the
transaction that wrote them, and the goroutine that holds them. `hash` and `listed` are the store;
the list is kept as how often each key is in it, for its order only decides who
is next. `loc` says for each goroutine what it runs, where it is and what it has
read. Each statement, store call and commit is a step. `SuccessRead`,
`FailureRead` .. `Block`, `Commit` are `handleSuccess` and `handleFailure`;
`BulkFind`, `BulkWrite`, the loops and `HDel` are the four ways of restoring and
removing; `AddKeys`, `ClearStats`, `Disable...`, `Select...`, `Restart` the rest.
`Serial` chooses between SQLite, where one transaction holds the database, and row
locks with committed reads (MySQL, PostgreSQL). `Refused` is the retry after
"database is locked", `CommitFails` and `TxCallFails` the errors.

* `PoolInSync`: rows that no transaction is writing agree with the store. It is
  what the whole class is for: an active row that is not listed stays unused until
  the next start, since the cron checker only looks at invalid rows.
* `OverrunBounded`: a key passes its threshold only by failures handled at the
  same time, whose number is that of the goroutines.
* `ListedOnce`: whatever fails, no key is in the list twice.
* `OperationsEnd`: no operation waits for ever, retries stop.
* `ActiveAreServed` (violated): see section 4.

### ConfigSync

Two tables, settings and groups, with their versions, their caches and listeners
on each node: `Load`, `SetCache`, the two hooks, `Subscribe`, `Receive`. The
messages of a table are all alike, so a subscription is a number; `Delivered`
drops what does not fit. `missed` remembers the node and table for which an
invalidation did not arrive (no subscription yet, publish failed, channel closed)
or its reload failed: these are the gaps that the code has, and the properties
hold for all others. Tables are written by the handlers of `Writers`.

* `StaleIsKnown`: a cache that is out of date has a reload ahead of it.
* `MasterEffectiveIsKnown`: the same of the effective configuration on the master,
  which depends on both caches.
* `ChangesArrive`, `StopEnds`: the reloads happen, and a stop ends all goroutines.
* `EffectiveArrivesEverywhere` (violated): see section 4.

### CacheHit

A name (a session id, or the hash of a conversation's head) is bound to a key in the
store, `bind`; `rec` are the records in memory from which the cleaner gives weights
back, and `adj` and `sched` the goroutines started on the way: `Adjusters` are as many
places for weight changes under way, and one that finds no free place waits. `Get` .. `SetNX` ..
`RecordSession` are `selectKeyBySession`, `HashBind` .. `HashRecord` the ways through
`selectKeyByHash`, `AdjustRead` and `AdjustWrite` the two store calls of
`AdjustKeyWeightAsync`, `Collect`, `CleanDelete`, `CleanRemove` the cleaner, `SyncFind`
.. `SyncWrite` the weight sync, `WeighHSet` .. `ClearRecords` .. `WeighCommit` an
administrator's update.

Calls to the store and the database may fail, after they were carried out or before:
`CallFails` and `SetNXFails` in a request, `AdjustFails` the `HGetAll` or `HSet` of an
adjustment, `LateDeleteFails` the `Delete` of an old hash, whose weight is then not given
back though its record goes, `SyncFails`, and `WeighFails` and `WeighAnyway` in an update:
with one key a failed `HSet` rolls it back (and may have been carried out), with several it
is only logged and the bindings are cleared. The `Delete` in `CleanDelete` and those in
`ClearRecords` are ignored. A transaction that is tried again is an update of its own.

* `OneKeyPerSession`: requests of one session get one key, unless the session lost
  its binding meanwhile. Without `SetNX`, two first requests would get two.
* `WeightIsAccounted`: a weight is its base less its bindings whenever no change is
  half done, until one of the steps that falsify the account, after which the variable
  `drifted` has the key:
  - a lost update between two adjustments, and a weight cut off at 1 or at the base;
  - an adjustment whose `HGetAll` or `HSet` fails, an old hash whose `Delete` fails, an
    administrator's `HSet` that fails;
  - a record written over another, or removed by name in place of another;
  - an administrator's update while an adjustment is under way;
  - a hash rewritten from a row whose weight is another (the key comes back to the pool),
    and a restart, for the keys whose row says less than their base.

  The code corrects none of these before an administrator sets the weight, and the
  property does not catch them: it says that the weights and records of the other keys
  agree through all the interleavings, that is, that in the model, which has these ways
  for a step to go wrong, no other step takes from a weight or gives to it.

### Groups

`there`, `row` and `links` are the groups and who is a member of whom, `owner` and
`live` the keys, `hashes` and `listed` the store. Nearly every operation checks before
the transaction that writes, so `AddSubGroups`, `AddLinks`, `AddEndpoint`,
`AddValidate`, `AddInsert`, or `UpdateGroup`, `UpdateCount`, `UpdateSave`, are steps of one
request each; `DeleteRows`, `DeleteStore`, `DeleteCommit` are one transaction with the
store calls inside it. The ghosts `disturbed` and `doubtful` mark requests that another
one overtook, and the groups they then wrote.

* `NoNesting`: however requests interleave, members are standard groups.
* `MembersAlike`: the members of an aggregate have its channel and one endpoint.
* `DeletedLeavesNothing`, `KeysAreServed`: a deletion leaves no link, key or store
  entry, and a deletion that is refused takes nothing.

The last three leave out doubtful groups: an `AddSubGroups` and an `UpdateGroup` that
overlap both succeed in the code, and so do an `AddMultipleKeys` and a `DeleteGroup`.
An empty effective endpoint (a Gemini group without one) counts as "none yet" in
`ValidateSubGroups`, so that members with and without one mix there; `MembersAlike`
is stated for channels that have a default.

### KeyStatus, Proxy, CronChecker, and Service, which composes them

`KeyStatus` is what the other two share: which keys are active, their failure counts,
and the goroutines of `UpdateStatus`, counted by what they have still to do. Each reads
the key at any later time (`ReadSuccess`, `ReadFailure`) and, later again, writes what it
has decided by then (`WriteSuccess`, `WriteFailure`), while the key may have changed: a
success that read an active key does not restore one disabled since, and failures that
read the same count take it to the threshold and beyond with the key active, as in
`KeyPool`, which bounds by how much (`OverrunBounded`). The write is one step here and
always succeeds; `KeyPool` has its calls and errors. `good` is whether calls with a key
succeed at present.
`Proxy` has requests: `Enter`, `Prepare`, `SelectKey`, `Build`, then `Succeeds`, `Fails`
with its retry or last attempt, or `Ignores`, and `Copy`. `CronChecker` has the loop
(`Tick`, `Submit`, `LoopStops`), a round for one group (`Collect`, `Distribute`, `Take`,
`Validate`, `WorkerLeaves`, `RoundEnds`, `Mark`), `Stop` and `StopEnds`, and the tests by
hand. `Service` runs them side by side on the same keys; `ServiceProps` says

* `LoggedOnce`: a log for each attempt after which the request tries again, one final
  one at most, as it ends. An attempt that ends for want of an upstream is not logged.
* `RoundIsComplete`: a round that was not stopped has validated all it found.
* `StoppedIsQuiet`: after a stop in time nothing is being validated.
* `GoodKeyStays` (of steps): a key of which no failure is still to be read or written and with which calls succeed
  is not made invalid by clients that leave, connections that are reset, validations
  or what other keys do.
* `Recovers`: a key with which calls succeed from some time on is in the pool again
  and again, however late old failures are handled.
* `LoopEnds`: a stop ends the loop, wherever the round is.

What the code does that a reader may not expect: an ignorable error (among them
"connection reset by peer", which may be the upstream's) writes no answer, so that a
client that is still there gets an empty 200 while the log says 499; an error in
`BuildUpstreamURL` or `NewRequest` ends a request without a final log; a retry may take
the same key again; with reports handled in any order, the failures that consecutive
mode counts need not be consecutive; after a stop in the middle of a round
`last_validated_at` is still written; and that write and `UpdateGroup`'s save of the
whole row may undo each other.

### SubGroups

`sels` holds every selector made, since requests keep the one they found; `current`
is the one in the map. `TakeGroup`, `FindSelector`, `MakeSelector` are
`SelectSubGroup` and `getSelector`, with the request's own copy of the group;
`search` is where each request is in it. `Lock`, `Round`, `Found`, `TryNext`,
`NoneLeft` are `selectNext` under the mutex;
`AfterRound` is `selectByWeight`. `BaseChannel.getUpstreamURL` has the same
algorithm for upstreams.

* `TurnsAreShared`: current weights sum to 0, nobody is ahead by a whole turn, and
  nobody further behind than 1/2 + 1/3 + ... + 1/n of a turn for n sub-groups. One turn
  would be the natural bound and is wrong: of eight sub-groups with the weights 1, 30, 1,
  1, 3, 20, 35 and 3 one falls behind by 1.19 turns.
* `ServedIfAny`, `SelectionEnds`: no refusal while one sub-group has keys all the
  time, and no endless search.
* `SelectorIsCurrent`: after a rebuild the selector is of the group as it is.

### RequestLog

`log` follows each log through `Record`; `body` and `pending` are the store, `rows`
and `counted` the table and the statistics, `flush` the flush under way, `ticker`
the ticker with its period, `interval` the setting. Time is counted in minutes.
Faults: the database refuses, an answer to a commit is lost, the store fails, the
process dies. `Stop` is `App.Stop`: the shutdown of the HTTP server waits for all
handlers, or it times out and `Close` leaves those at work running (`late`); these may
record while the service stops and after its last flush, until the process has ended.

* `CountedOnce`: rows and statistics agree whatever is tried again.
* `NoSilentLoss`: a recorded log is in the table, or known to the store or the
  flush, unless the code says in its own log that it gave it up.
* `ExpiresAfterFailures` (of steps): while the interval stays as it is, a body only
  expires after failed flushes. A change of the interval moves the ticks and not the
  time to live of the bodies that are there, so a run in which it was changed is exempt.
* `StopLeavesNothing`: a stop that ended in a flush that did not fail leaves no recorded
  log outside the table, also after changes of the interval. It does not speak of two
  things the code leaves behind. At interval 0 the last flush returns at once
  (`phase = "skipped"`), so what was cached before a switch to 0 stays in the store, where
  the next start of the master clears it. And what `late` handlers record is lost in the
  same way when it comes after the last flush.
* `FlushEnds`.

### KeyTasks

`record` is `global_task`, read and written in separate steps (`StartGet`,
`StartSet`, `ReportGet`, `ReportPut`, `EndGet`, `EndPut`). `job` is the goroutine
of each task: imports and deletions go chunk by chunk (`Prepare`, `Chunk`,
`ChunkFails`), a validation has workers (`Take`, `Answer`) and a collector
(`Receive`, `PoolDone`). `copies` counts the rows of each key, for `key_hash` has no
unique index.

* `OneAtATime`, `NoDuplicates`, `ResultIsTrue`, `NotLeftRunning`, `Unlocked`.

Two starts at once can both find no running record, and the code does nothing
against it; all but the last property are claimed for starts that do not overlap.
`Expire` lets a record go only when its goroutine has ended: that a task reports at
least once an hour is an assumption.

### MigrateKeys and Reencryption

A value is the sequence of keys it was encrypted with; which secret it is, its row
says. `Execute` .. `DropTempTable` are the steps of the command, `Aborts` its
errors and its death; between commands the service starts, with any
`ENCRYPTION_KEY`, adds and removes keys, and stops. `Heeded` says that nobody adds a
key while the dashboard warns (`CheckEncryptionMismatch`); without it rows under
different keys come about, which the program does not prevent.

* `AllAlike`: at every moment all rows are under one key, each encrypted once.
* `WarnsRightly`: the dashboard warns for every wrong key and no right one,
  whichever rows its sample has.
* `CopiesAreCurrent`: the store has no old copies once a migration cleared it or a
  master started.
* `CommandEnds`.
* `Implements`: all of this refines `Reencryption`, in which keys come and go one by
  one and a migration takes all of them to another key in one step. A row is mapped
  to the key it is readable with, or to a value that no abstract state has.

## 3. The runs

All bounds are constants of the configuration. The type invariants, `TypeOK`, are proved
for all constants (section 5) and are not in the runs; only `CacheTypeOK` is in one, as
it says that no weight falls below 1.

| Run | Shows | Bounds and why they are enough |
|---|---|---|
| `keypool_rowlocks` | `PoolInSync`, `OverrunBounded` with row locks | one key, three goroutines: two that work on the same reading and one that undoes it. Operations that find rows by status are not in this run, for with them it fails (section 4) |
| `keypool_faults` | `ListedOnce`, `OperationsEnd` with refused commits and failing calls on SQLite | one key: both are about a single key; the retries are those of the code; the operations whose calls fail like those of another are in `keypool_rowlocks` |
| `keypool_recover_purge` | violation of `ActiveAreServed` | |
| `config_faults` | caches, effective configuration, reloads and stops with every fault, from the start of the nodes on | a master and a slave; a write to each table, one of them possibly before all nodes listen: with the master's own invalidation two messages meet at the slave's groups. A buffer of one message (ten in the code), so that the second is dropped; one of the nodes is stopped |
| `config_effective` | violation of `EffectiveArrivesEverywhere` | |
| `cachehit` | all properties of CacheHit | two keys, two requests of one session or conversation with and without a session id, three kinds of requests; two adjustments at a time, so that updates get lost; any two of the events beside the requests, failing calls among them, or one change of weights with at most one failing call |
| `groups` | all properties of Groups, with row locks and with SQLite | an aggregate, two standard groups of different endpoints and one id still free; four requests, two at a time: one pair to bring about a state, one to race in it |
| `service` | all properties of the composition | one key, one request at a time with one retry, one worker, statements that fail, a channel that is missing at times, a stop at any moment; threshold 2 and two goroutines of the key at a time: each may overtake the other between its reading and its write, and the count goes to 3. More keys and workers are covered by the theorems |
| `subgroups` | all properties of SubGroups | a group that changes between three sub-groups of weights 3, 2, 1, two, one and none; two selectors, so that one is made of an old group; one request at a time, since rounds are under the mutex |
| `requestlog_faults` | all properties of the log | two logs in batches of two, so that one can make the batch of the other fail; intervals 0 and 2, changed at any time while the process runs, that of the last flush included; a time to live of three intervals (five in the code), so that expiry and flush can race; stops with and without late handlers |
| `keytasks_faults` | all properties of the tasks | two imports, a deletion and a validation over two keys, chunks of one key, two workers |
| `migrate_keys` | all properties of the migration | three keys in batches of two: a full batch, a short one, an empty one; samples of two of the three, two encryption keys and none |

`CHECK_DEADLOCK FALSE` stands where the bounded system comes to rest: in the key pool
the counts and keys are used up, in the configuration sync the writes.

Fairness is only of steps that the program takes by itself, and mostly weak: goroutines
are scheduled, a call to the database or the store returns, a handler that wrote a
table publishes. No fault, start, stop, write or request is fair. What is assumed in
addition:

* `SelectionEnds`: the mutex starves nobody, which Go's does not (strong fairness of
  `Lock`).
* `Unlocked`: an hour passes.
* `Recovers`, `LoopEnds`: the statement that loads the invalid keys does not fail for
  ever (strong fairness of `Collect`), nor is the group's channel missing for ever at each
  validation of a worker (of `Validate` with `CallAndReport`, which the bound on reports
  switches off and on, too), and `select` does not for ever take the tick when it could
  take the stop (`LoopStops`). Requests need not go on at all, and `last_validated_at`
  need never be written.

## 4. Where code and words differ

* `keypool_recover_purge`: `removeKeysByStatus` takes from the store the keys its
  SELECT found, and from the database those its DELETE finds. With row locks, a key
  that recovers in between stays in the database as active and is gone from the
  store. On SQLite this does not happen (`PoolStaysInSync`, section 5).
* `config_effective`: only the master invalidates the groups after it reloaded the
  settings. A slave that reloads its groups first computes their effective
  configuration from its old settings and keeps it, while README says that a change
  takes effect at once.

## 5. The proofs

TLC looks at small instances; the theorems hold for every value of the constants.

**`KeyPoolProofs`**

* `TypeCorrect`: `Spec => []TypeOK`, without conditions.
* `PoolStaysInSync`: `Spec => []PoolInSync` under `Orderly`: no failing call, and either
  SQLite without `DisableKey`, whose store calls follow its commit, or row locks with the
  operations of `ByName`, all but those that find rows by status, `RestoreMultipleKeys`
  and `DisableKey`. `PoolInSync` is not inductive: it says nothing of the rows being
  written, and the next commit makes them count. The invariant `IInv` adds that only a
  transaction holds locks, and none that of a deleted row (`LocksInTx`), that rows without
  a lock are the committed ones and agree with the store (`UnlockedAgree`), where an
  operation can be (`WellFormed`), and call by call how far the store has come towards
  the uncommitted row (`TxOK`). At the commit both meet. On SQLite one transaction is open
  at most (`OneTx`). With row locks many are, and a step of one must leave the others as
  they were: each row is `Untouched`, or it is `Touched` by the one that holds its lock
  (`TxStays`). A row that `RemoveKeys` found and another deleted first is `Gone`: its
  removal from the store is done twice, which changes nothing, since an id does not come
  back. What a handler has read before its transaction appears nowhere in `IInv`: the
  proof shows that the pool stays in sync however old that reading is. The hypothesis
  holds of the instance of `keypool_rowlocks`.
* `NoKeyListedTwice`: `Spec => []ListedOnce` under `OneListing`: any faults, row locks or
  SQLite, but with row locks nothing that restores keys in bulk, and no `AddKeys`, which
  pushes without taking the key off the list first. The invariant (`Base`, `Cleared`) says
  that a handler in its transaction holds the row's lock and that a key about to be pushed
  is not listed; two goroutines about to push one key would hold the same lock.
* `FailuresStayBounded`: `Spec => []OverrunBounded` under `CountsOnce`: no store call fails,
  and on SQLite no commit. `OverrunBounded` bounds a count by the threshold and the number
  of goroutines. Inductive is that the count and the number of handlers still on their way
  to raise it stay below that bound together (`Overrun`); a key about to be made invalid
  has one to spare (`Condemned`). Handlers are counted with `Cardinality` and the facts of
  `FiniteSetTheorems`; `Procs` is finite and not empty.

**`KeyTasksProofs`**, under `~StartsOverlap`, for any tasks, keys, workers and faults

* `TypesHold`, `OneTask`, `NoKeyTwice`, `NoneLeftRunning`, `ResultsAreTrue`: `TypeOK`,
  `OneAtATime`, `NoDuplicates`, `NotLeftRunning`, `ResultIsTrue`. The invariant says that the goroutine that is alive owns the
  record, and that a goroutine between reading and writing the record has read its
  own (`AliveOwns`, `SeenIsOwn`): so nobody writes back what another has changed. With
  it, what an import has yet to add is not in the group (`TodoIsNew`), though it was
  filtered long before. For the results, `TruthInv` accounts for every key of the task's
  text: as long as no chunk failed, a key is settled or still to do (`Settles`); a key to
  validate is to do, with a worker, among the answers or counted, and at the end it is
  counted (`Tests`).

**`ConfigSyncProofs`**, for any nodes, writes, buffer and faults

* `TypesHold`, `StaleTablesAreKnown`, `MasterEffectiveKnown`: `TypeOK`, `StaleIsKnown`,
  `MasterEffectiveIsKnown`. The messages carry nothing, so one in a full buffer does for
  all that were dropped (`DeliveredGrows`). The invariant extends `StaleIsKnown` to the
  time before the subscription, when a publication counts as missed (`Announced`). For
  the effective configuration it says what holds while the settings' syncer is at rest
  (`MasterKnows`): the groups loader reads the settings cache, which is then the
  database's because of `Announced`, and every reload of the settings leaves a message
  for the groups, or is missed.

**`GroupsProofs`**, for any groups and requests

* `TypesHold`, `NoGroupNests`: `TypeOK`, `NoNesting`. The check of `ValidateSubGroups` is
  on rows read earlier; it still holds at the insert because types never change and ids
  are not given twice, which is what the invariant says of rows that were read.
* `MembersStayAlike`, `DeletedGroupsVanish`, `KeysStayServed`: `MembersAlike`,
  `DeletedLeavesNothing`, `KeysAreServed`. The three exempt the groups to which a request
  wrote on stale reads (`doubtful`). The invariant `Whole` says, call by call, of every
  request whose reads nobody has disturbed since that what it read is still so
  (`Standing`), and of all requests what no other can change (`Firm`); that no two
  deletions hold one group (`OneDeletes`); and the three properties in the form in which a
  step preserves them (`Alike`, `Gone`, `Served`).

**`ServiceProofs`**, for any keys, requests, workers, threshold and bounds

* `TypesHold`, `RequestsLoggedOnce`, `RoundsAreComplete`, `StopIsQuiet`, `GoodKeysStay`.
  The invariant has a part for each module: the types of the statuses
  (`StatusInv`), a request's logs match where it is (`RequestInv`), and each key of a
  round is checked, cannot be decrypted, is still to be distributed, in the channel, or
  with a worker (`RoundInv`); workers only leave when the channel is closed and empty or
  a stop was asked for, and exist only during a round.

**`RequestLogProofs`**, for any requests, intervals, batches and faults

* `TypesHold`, `LogsAreCountedOnce`, `NothingIsLostSilently`, `StopFlushesAll`: `TypeOK`,
  `CountedOnce`, `NoSilentLoss`, `StopLeavesNothing`. `NoSilentLoss` says where a log is
  but not why it stays there; the invariant adds which logs the flush holds between the
  pop and its end (`Kept`, `Held`), that what it names and has not read was given up
  (`Taken`), that a body is in the store before its key is pending (`NotYet`), that only
  late handlers record after the shutdown (`Quiet`), and that at an interval that was
  always 0 the store is not used (`Direct`). `StopFlushesAll` needs no assumption on the
  interval; its formula leaves out late logs and flushes skipped at interval 0, see
  `StopLeavesNothing` in section 2.
* `LogsExpireLate`: `Spec => ExpiresAfterFailures`, an action property, provided that the
  model counts failures far enough (`TtlFactor - 1 <= MaxFails`). The invariant `InTime`
  relates bodies, ticks and failures: a waiting body still lives for as many intervals as
  flushes may yet fail, and for the time to the next tick, less an interval when a tick
  has come whose flush has not ended (`LivesLong`, `Owed`).

**`SelectionProofs`**, for any groups, requests, reloads, keys, sessions and adjustments

* Of SubGroups, `TypesHold`, `SelectorsAreCurrent`, `MutexIsHeldInRounds`: `TypeOK`, `SelectorIsCurrent`,
  and that a selector's mutex is held by the one request in its rounds. Selectors never
  change the weights they were made of, and a request without one makes it only while
  the map is empty, which a rebuilt map of a group with members is not.
* `TurnsStayShared`: `TurnsAreShared`, for any number of sub-groups and any weights. That
  nobody is ahead by a turn is inductive, as the current weights sum to 0: who is picked
  was owed something. How far one may be behind is not: the invariant (`Balanced`) bounds
  what every set of sub-groups is behind together. A set without the one picked is owed,
  per member, no more than the set with it, so the bound for k members follows from the
  one for k + 1. The sums are folds over finite sets; that they do not depend on the order
  (`SumsTake`), and what else the proof needs of them, follows from `Smallest`: strict
  inclusion is well-founded on finite sets, so a set of exceptions has a smallest member,
  and a set, unlike an operator, can be handed to a library theorem.
* Of CacheHit, `BindingsAreTyped`: `CacheTypeOK`. That a weight stays positive needs that
  what an adjustment read of the base, and an administrator or the sync is about to
  write, is positive too (`Weighed`).
* `OneKeyForASession`: `OneKeyPerSession`. Inductive is, for each calm request, what it
  knows of the binding of its session (`Keeps`): from the store call that answered with
  it on, the binding is the key the request goes to; after a lost `SetNX` there is a
  binding, and the one read then is still there. A step of the request preserves it
  (`Steps`); one of another request, the cleaner, an expiry or a restart either leaves
  the binding, or is one of those after which the requests of that session are not calm
  (`Spares`). That hashes are not sessions is what keeps the other names apart.
* `WeightsAreAccounted`: `WeightIsAccounted`, for any weights and however many changes
  are under way. The invariant (`Books`) is the account while they are: the weight, the
  adjustments up that are not written yet, and the records on the one side; the base,
  the adjustments down, the old hashes whose record is still to be removed, and the
  record the cleaner is about to remove on the other, for every key that did not drift
  (`Account`). Every step moves one item from one place to another, or is one of the list
  at `WeightIsAccounted` and takes the key out of the account. The items are
  counted by cardinality (`HowMany`), so the counts must be finite (`FewUnderWay`), which
  they are although keys, requests and names may be infinitely many. A request has one
  old hash at most to remove, and only after it is done (`LateWhenDone`).

**`MigrateKeysProofs`**, for any rows, batches, samples and interruptions

* `RowsAlike`, `WarningHolds`, `TypesHold` under `Heeded`: `AllAlike`, `WarnsRightly`,
  `TypeOK`. The invariant says what the command has found out by each step
  (`CommandInv`): after `PreCheck` that the rows are under `--from`, while it migrates
  that what it copied is under `--to`, and after `VerifyTempColumns` that it copied every
  row, since a part with as many rows is the whole. For the warning: all rows being
  alike, a sample that is not empty shows what they are under.
* `CopiesHold`: `CopiesAreCurrent`, without conditions.
* `MigrationImplements`, under `Heeded`: `Spec => Implements`, the refinement of
  `Reencryption`. `SwitchColumns` is the one step that changes the key of the abstract
  rows; all others of the command leave them as they are.

**What stays with TLC**: liveness under fairness and `ENABLED`, which TLAPS does not
prove; and what the theorems' hypotheses exclude: `ListedOnce` with `AddKeys`,
whose push stays in the store when its transaction is rolled back, `OverrunBounded` when the store fails, and `PoolInSync`
with a call that fails or an operation that `Orderly` leaves out, where it does not hold.

## 6. Not modelled

* Redis itself, the drivers and the pipelines: a call is atomic and either done or
  not. The memory store's `Get` that deletes an expired item under a second lock.
* Request bodies, protocols of vendors, parsing, texts.
* What other processes do to `request_logs` (cleanup, clearing), the hours of the
  statistics.
* The weighted choice among the listed keys, which is random: any of them may be taken.
* The caches of channels and HTTP clients: each is under a lock and an entry is a
  function of the group object that asks for it.
* The limiter of concurrent requests, a semaphore taken and released by the middleware.
* Two masters, and a service that runs during `migrate-keys`: README rules both out.

## 7. Plan

What is left, in the order of what the system depends on most:

1. `MemoryStore` as an implementation of an abstract store with times to live.
2. The application's stop as a composition of the stops that are modelled one by one.
