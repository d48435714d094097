# TLA+ verification of the 1sat indexer

The repository is a Bitcoin SV indexer written in Go. It learns of transactions
from JungleBus subscriptions, from owners' histories and from clients that
broadcast through it; it parses them with a set of indexers (origins, tokens,
locks, listings), keeps outputs, spends and sorted logs in one of three stores,
and follows the chain to decide which transactions are final and which must be
undone. This directory holds TLA+ modules that model its concurrent core, the
TLC configurations that check them, and proofs that TLAPS checks.

Paths below are relative to `src/`.

## 1. Inventory

### 1.1 Components, their state and their operations

| Component | Code | State | Operations |
|---|---|---|---|
| Ingest queue processor | `ingest/ingest.go:559-661` | the queue (a sorted log of the store), `inflight`, `limiter`, `errors` and `done` channels, a wait group | page through the queue, take an entry, load, ingest, remove the entry |
| Broadcast | `broadcast/broadcast.go`, `server/routes/tx/ctrl.go` | spend marks and the pending log of the store; a request's position | vet the inputs, log the attempt, mark the inputs, submit to ARC, undo (`rollbackSpends`), ingest |
| Transaction life cycle | `ingest/ingest.go:29-550` | `chaintip`, `immutableScore`, the pending, immutable and rollback logs, the index | set the immutable height on a new tip; audit attempts, mined and mempool entries; handle ARC callbacks (`reprocessTransaction`, `Rollback`) |
| Chain tip and headers | `blk/` | `Chaintip`, the channel `C`, a cache of headers | poll the tip, look up headers by height and hash |
| Transaction loader | `jb/client.go` | a cache, the maps of requests under way | `LoadTx`, `LoadRemoteRawtx`, `LoadProof`, `BuildTxBEEF` |
| Index context | `idx/index-context.go`, `idx/ingest.go`, `idx/txo.go` | the outputs and spends of one transaction | `ParseSpends`, `ParseTxos`, `Save`, `Rollback` |
| Stores | `idx/redis-store`, `idx/pg-store`, `idx/sqlite-store` | outputs, spends, events, logs, accounts | `SetNewSpend`, `GetSpends`, `UnsetSpends`, `SaveTxos`, `SaveSpends`, `Rollback`, `Log`, `Delog`, `Search` |
| Status listener | `broadcast/listener.go` | channels of requests that wait for a status, by txid | none is ever registered: the only caller is in a comment (`broadcast.go:151-237`) |
| Subscriptions | `sub/sub.go`, `cmd/subscribe` | the batch of a block, the progress height, a channel of errors | handle a transaction, the end of a page or block, a transaction of the mempool, an error |
| Owner sync, accounts | `cmd/owner-sync`, `cmd/full`, `idx/accounts.go`, the account calls of the stores | the owners of an account, a progress height per owner | register owners; page through an owner's history and queue it; fetch and ingest a page on request |
| Server-sent events | `server/server.go`, `server/routes/sse` | sessions by topic, a mutex, unbuffered channels | register a session, hand on a message |
| Origins | `mod/onesat/origin.go`, `cmd/origin` | origin of each output, the log of unresolved ones, the resolver's queue, slots and channel of failures | derive from the input at the same satoshi; resolve in rounds |
| Tokens | `mod/onesat/bsv21.go`, `mod/shrug/shrug.go`, `cmd/bsv21` | balances of one transaction | distribute the input balances over the outputs |
| Funding | `idx/fund.go` | locks of coins | choose and lock coins |
| Script indexers | `mod/*`, `sigil/` | none | parse one script |
| Read-only routes | `server/routes/*`, `idx/*-store/search.go`, the loads of the stores | a request's position | search the log, read marks, ask JungleBus, load records |
| Configuration, migrations, encodings | `config/`, `migration/`, `lib/` | none | |

### 1.2 How they interact

* Subscriptions, owner sync and POST write the store; the queue processor and
  the audit run as other goroutines, usually in another process. They meet only
  in the store: the **queue** log, the **pending** log (score: minus a time
  while ARC is asked, a time in the mempool, a height when mined), the
  **immutable** and **rollback** logs, and the spend of each output. No
  transaction of the store spans two of them.
* `GetChaintip` sends tips on a channel to `Start`, which sets
  `immutableScore` and audits; ARC callbacks arrive through Redis and read
  `immutableScore` at any time.
* POST sends to ARC; ARC answers the request and later calls back, in any order
  with the ingest that follows the request.
* The loader asks JungleBus and shares one request among callers.

### 1.3 What is hard, and what makes each component correct

The full list, with the lines, is under `hazards` in `PROJECT.json`. In short:

* *Queue*: an entry stays queued while it is worked on, workers end in five ways
  (done, missing, error, panic, failed removal), and the dispatcher blocks on
  the same workers that block on it. Correct: one worker per transaction, the
  limiter exact, nothing lost, everything that loads is served.
* *Broadcast*: marks are taken one store call at a time and undone on what an
  earlier call read, among duplicate requests, rollbacks and ingests. Correct: two
  requests that spend the same output are not both submitted; a failed request
  leaves no marks and takes away nobody else's; what may have reached ARC stays in
  the log, for the audit and the callbacks.
* *Life cycle*: each job validates, saves, compares and logs in separate steps
  while blocks arrive and other jobs handle the same transaction. Correct: only
  final transactions are archived; they stay indexed; final transactions are
  not rolled back; nothing saved is forgotten, whatever step a crash hits.
* *Loader*: a waiter cannot tell a failed request from a missing transaction.
* *Subscriptions and owner sync*: errors are handled beside the loop that moves the
  progress on, full pages end inside a block, several requests and a loop move the same
  height. Correct: progress never passes what was not queued, and what an owner has
  arrives.
* *Read-only routes*: an answer is put together from three calls, between which anything
  may be saved, spent or undone. Correct: each part of the answer was true at some time of
  the request, and nothing that was there all the time is missing.
* *Stores*: a save and a rollback are several commands, several of them run at a
  time on the same outputs, and any may stop half way. Correct: a completed save is
  whole, a completed rollback leaves nothing, what a search finds can be loaded,
  and nobody takes the mark of a saved transaction without a claim to it.
* *Events*: two loops send to each other without buffers; the request `/v5/sse` never
  returns, so its session is never removed. Correct: who is registered for a topic is handed
  its messages.
* *Origins*: an output is parsed when its parent may be unconfirmed, unknown, or saved by
  another process at the same time. Correct: an origin that is stored is the true one, and
  every unresolved output is resolved at last.

## 2. Plan

Modules in the order they were written.

| Module | Question | Status |
|---|---|---|
| `IngestQueue` | does the dispatcher lose, repeat or starve work? | checked, proved |
| `Broadcast` | are conflicting transactions kept from ARC, is what was sent remembered? | checked, proved |
| `TxLifecycle` | is only what is final archived, is nothing forgotten? | checked, proved |
| `TxLoader` | do callers that share a request get the truth, do cached proofs stay true? | checked, proved |
| `TxoStore` | do saves, rollbacks and marks keep one index of outputs, in the order each store writes? | checked, proved in part |
| `Subscription` | does a restart resume behind what was queued? | checked, proved |
| `OwnerSync` | does the progress of an owner pass a transaction, do requests end, does a history arrive? | checked, safety proved |
| `Queries` | is an answer true while others write, and when does a request end the server? | checked, proved |
| `EventStream` | does a message arrive? | disagreement found, types proved |
| `Origins` | are origins the true ones, is every output resolved? | checked, safety proved |
| `Edges`, `Jobs` | `Subscription` and `EventStream`; `OwnerSync` and `Origins` | checked, types proved |

`Edges` puts `Subscription` and `EventStream` side by side and `Jobs` `OwnerSync` and
`Origins`: each behaviour runs one of them, since none reads state that another writes.
Two more parts are put beside each other in the same way for the model checker alone:
`MCEdges` has the loader (`TxLoader`) beside the edges, and `MCStoreReads` has `TxoStore`
and `Queries`. The MC modules leave the parts that do not run one initial state.
Where parts do meet (the queue, the logs, the marks) the module of each
part has what the others may write as actions of its own: rollbacks, ingests and audits in
`Broadcast`, queue entries in `IngestQueue` and `TxLifecycle`, arbitrary single writes in
`Queries`.

What is left: the tokens, if the code comes to act on the balances it checks. Every
invariant and every action property that a run checks is a theorem.

The modules that theorems are about declare no RECURSIVE operators; their
constants carry named assumptions; their invariants are conjunctions of named parts.

## 3. What is modelled

### 3.1 `IngestQueue` - `processQueue`

One dispatcher (`main`: at its select, in a page, blocked on the limiter,
draining, returned) and one goroutine per transaction (`gpc`: load, drop, ingest,
hook, delog, err, fin, done). `limiter` is the number of tokens in the channel;
the wait group is not a variable of its own because it is released with the
token. `errors` and `done` are unbuffered, so a send and its receive are one step
(`RecvError`, `RecvDone`). A page is any `PageSize` entries of the queue, which
covers every score order. `cfg` is one of the `IngestCtx` values explored:
concurrency, page size, limit, once, and whether an `OnIngest` hook is set. The
hook is whatever the caller supplies: it may remove the entry or leave it (no
program of the repository sets one; `cmd/bsv21` has it in a comment). `owed` is a ghost: entries queued while not in flight and not yet
handled. A crash leaves the queue only.

### 3.2 `Broadcast` - `POST /v5/tx`

Each request runs through the places of `Broadcast`: vet, log, mark and look once
per input, submit, wait, accept, ingest (spends, then log), or `rollbackSpends` (unread,
unset, delog). Every store call is a step. `spend` and `pending` are the store; the three
backends differ in `SetNewSpend` (SQLite overwrites), in `GetSpends` (Postgres
returns rows in no order) and in `Rollback` (two calls in Redis; one database
transaction, which also deletes the logs, in SQL).

Errors: `Log` and `Delog` return theirs on every store (`LogFault`). That of the attempt ends
the request (`broadcast.go:109`), that after the acceptance is ignored (252), that of `rollbackSpends`
is returned to callers that ignore it (283). The calls for marks return their errors on
Redis (`Fault`) and panic on the SQL stores, and the saves and the log of an ingest
panic on all (`idx/index-context.go:171`, `idx/ingest.go:92`); nothing recovers, so a panic
is a `Crash`.

The ingest service appears by what it does to marks and log: rollbacks on ARC's word, ingests
of queued or mined transactions (`QueueSave`, `QueueLog`), and the audit of attempts, which deletes by
its key what it had found two minutes old (`AuditFind`, `AuditCheck`). That a mined entry moves
to the immutable log is `TxLifecycle`'s.

Ghosts: `lost` and `overtaken` are requests whose marks another actor removed or overwrote,
and marks that changed hands after they were read; `faulted` the transactions that an error or a crash
hit; `removed` those whose entry a rollback or the audit was the last to delete.

A duplicate shares the entry of its transaction. `SuccessStaysPending` says of a
transaction that was answered with success, and hit by no error, crash, rollback or audit,
that it is logged as sent, whatever duplicates do, but for the three things of `Spoiled`: a
duplicate under way has logged its own attempt over the entry, one
that gave up after a mark of its own has deleted it, or one gave up at its first
input, which takes a lost mark. A duplicate that is still being
vetted, was refused there, or was accepted excuses nothing. `SubmittedIsTracked` holds through errors and
crashes as well: what may have reached ARC has an entry of some kind, unless a duplicate
(`Delogged`), a rollback or an audit deleted it.

### 3.3 `TxLifecycle` - `Start`, `AuditTransactions`, ARC callbacks

`chain[t]` is the height of `t` on the longest chain and `Extend` adds a block,
undoing at most `Depth` of them. A job is one goroutine for one transaction:
three kinds of audit, the proof and reject callbacks, a queue worker, and a POST.
Its places are the store calls of the handler in their order: load, save, logp,
cmp, logi, delog; rollback, logr; drop; dequeue. `pend` holds the score of the
pending entry by class, with ages as 0, 1 (over two minutes, what a search asks for)
and 2 (over `OldMempoolTimeout`). The channel `C`, the phase of the audit, the
immutable height, its torn read, errors at every place and crashes are in
the model.

Abstracted: one job of each kind per transaction at a time; the limiter of 20 of
the audit, whose jobs do not wait for each other; duplicate announcements by two
overlapping calls of `GetChaintip`, which only repeat a tip; proofs the loader
cached before a reorganisation (every validation asks the header service anew); `isOld` is
fixed when the entry is found, as the loop computes it from the score that
was read. What the providers get wrong is bounded as a fault and noted (`denied`), since
no property can hold of a transaction that a provider denies.

### 3.4 `TxLoader` - `LoadTx`, `LoadRemoteRawtx`, `LoadProof`

Each caller runs through the cache, the map of requests, the request, its
removal from the map, parsing, the node, and the proof. `inflightMap` holds for
each URL the leader, whether the request is done, and its `Result`; releasing the waiters
and setting the `Result` are one step, since the `Result` is set before `Wg.Done`,
and the removal from the map is the next, under the lock. `rawtxs` and `proofs`
are the cache, which other processes and crashes leave as it is. JungleBus and the node know
sets of transactions that grow; a proof is the height of its block, which
a reorganisation may undo. `knew` is set as a call begins, if a provider has the
transaction and no older answer is still mapped. `late` marks transactions whose proof
was undone between its request and the moment it was kept for good.

Abstracted: `GetChaintip` answers with the tip of now or with the one it saw
last; proofs that are in the cache at the start; two transactions, which share nothing but the
lock. The node is external: it may answer with nothing. The waits of the single flight have no
timeout in the code, and none here. `BuildTxBEEF` recurses over `LoadTx` and adds no
state.

### 3.5 `TxoStore` - saves and rollbacks in Redis, Postgres and SQLite

A worker is one call of `IngestTx` or `Rollback`. `at` is its stage and `todo` the
commands or statements it has still to send, which `Exec` carries out one at a
time: a Go pipeline of Redis is not a transaction, and neither are the three statements
with which Postgres saves an output. Where a store uses a database transaction (all of
`SaveTxos` in SQLite, `Rollback` in SQL) the step is one.

| Code | Model |
|---|---|
| `ParseSpends`: found, not found, not found with ancestors saved | `LoadStored`, `LoadMissing`, `LoadAndSaveParent` |
| `SaveTxos`, `SaveSpends` | `SaveTxos`, `SaveSpends`, with the writes of `SaveTxoRedis`, `SaveTxoPG`, ... |
| Redis `Rollback`: `SMembers`, `LoadTxosByTxid`, `GetSpends`, `HDel`, `RollbackTxo` | `BeginRollback`, `ScanOutputs`, `LookAtMarks`, `DropOutput`, `EndRollback` |
| SQL `Rollback` | `RollbackPG`, `RollbackSQLite` |
| `SetNewSpend` by a broadcast or a refresh | `SetNewSpend`, `SetNewSpendSQLite` |
| an error, a panic, a crash | `Abort`: what was written stays |

`index` holds the four things stored of an output: the record (the row with its satoshis,
or the hash field), the data of its indexers, the entries in the logs of tags and
events, and the entry in its owner's log. `spend` is its mark, `hist` the entries of
spenders in the logs of owners, `txi` the set of inputs Redis keeps.
`last` tells how the last operations on a transaction ended, and is "mixed" when a save and a
rollback of it overlapped, since then each may undo the other in the middle; it
becomes definite again when a save that began alone completes. `late` are the marks
that were set while a rollback of another transaction was under way.

Abstracted: every output has data, a tag and one owner; the entries of an operation in
the logs of several owners are one write; the scan of Redis and the reads of what it found
are one; inputs and outputs are gone through in any order; heights and scores
(`TxLifecycle`); publishing. `UnsetSpends` is in `Broadcast`, which says which marks it
may take; here only saves, rollbacks and new marks change them.

### 3.6 `Subscription` - `sub.Exec`

`subMain` is the goroutine of `Exec` (down, at its select, returned) and `subHandler` the
event handler: at rest, before `LogMany` of a page (199) or a block (200), before
the progress is logged, or sending to `errors`. The channel is unbuffered and
`Exec` reads it once, so a send is one step with its receive (`Report`) and the next
send never ends. `subBatch` is `logs`. `ShortLogMany` has what each store does with a
batch that fails: nothing in Redis; in Postgres all is undone, with an error only if the first
result says so, since no other is read; in SQLite the rows before the failed one are
kept. `ResumeAt` is the `FromBlock` of the next start, with the rewind of `-r`.

Ghosts: `subLost` (what was in a batch that was given up), `subDrops` (batches given up with a
reported error since the start), `subMoved` (transactions that a reorganisation put into a
block that was there). Abstracted: the times of the watchdog; a reorganisation while the
subscription runs, which JungleBus reports as status events that the handler ignores.

### 3.7 `OwnerSync` - the sync loop, accounts and requests to sync

`osLoop` is the loop of `cmd/owner-sync` (the same in `cmd/full`): search of the
sync log, an owner, a page, its transactions, the height. `osReq[r]` is a request of the server:
`UpdateAccount` (one `MULTI` in Redis, two statements for each owner in SQL), `SyncAcct` and
`SyncOwner` with its goroutines `run`, the limiter (`Concurrency`), and `err`, which stands
for `firstErr` and the cancelled context. Loop and requests read and write one height for
each owner (`osHeight`). Every error of the loop but status 400 panics; `ServerPanic` ends all
requests, as nothing recovers from the `log.Panic` of a handler or of one of its goroutines.
In `cmd/full` one process runs both; a panic there is two steps of the model.
The scheduling loop of `SyncOwner` checks the context (`Schedule`), then waits for the limiter and starts the
goroutine (`StartIngest`); `held` counts the places that are taken, which a goroutine gives back
as it ends, with or without an error.

`osTies` are the transactions that shared a block with the end of a full page and were not in it,
`osLate` those mined in a block that replaced another, `osCut` the owners whose registration
stopped between its two statements. Abstracted: the loop also queues what JungleBus
reports as in the mempool, anew in every round; what an ingest does (`IngestQueue`, `TxLifecycle`).

### 3.8 `Queries` - the routes that read

One request, whose parameters are any the routes can make (`Requests`), goes through the
calls of its store:

| Code | Model |
|---|---|
| Redis `Search`: one range a key, merged, sorted, cut off | `ReadRange`, `Merge` |
| SQL `Search`: one statement, joined with `txos` for unspent ones | `Select`, `Found`, `Pages` |
| `RefreshSpends`, `GetSpend` with `refresh` | `Refresh`, `AskSpend`, `JungleBus`, `SetNewSpend` |
| `GetSpends`, `filterSpent` | `ReadMarks`, `AfterMarks` |
| `LoadTxos`, `LoadTxo`, `LoadTxosByTxid`, `SearchBalance`, `SearchTxns` | `Load` (`LoadRedis`, `LoadSQL`), `Scan`, `ShowSpends` |

Between any two of them `QWrite` does one of the single writes that saves, rollbacks and
broadcasts consist of. `seen` is a ghost of what the store held meanwhile. A request reads
nothing another request holds, so one beside arbitrary writes stands for any number.
`GetSpends` of Postgres returns the marks in the order of its rows, without those it has no
row for, and `POST /v5/spends` answers that list as it is: `InRowOrder` is any such
list, in which the caller finds a spend in the place of another output.

Abstracted: the flags `script` and `tags`, which add data to an answer; `To` and `ComparisonAnd`,
which no route sets; how `SearchTxns` groups its members; errors of the store.
`Balance` and `CountMembers` are called by `cmd/bsv21` alone.

### 3.9 `EventStream` - `/v5/sse`

`session[s]` is the handler of a session (waits for `MU`, registers its topics, sends to
`AddSubs`, listens) and `loop` what is left of the sessions that the loop of the
server hands its message to. `AddSubs` and `RemoveSubs` are nil channels, since
`currentSessions` is built without them, so the cases that receive from them have no action
and a session that is the first of a topic stays in its send; `RemoveSession` stands after a loop
without exit. A session of a topic that has one is appended to a copy of the list. `MapFault` is the
read of `Topics` without `MU` beside a write, which may end the process. `due` is a ghost: the
sessions that were registered for the topic of a message when the loop took it, and have not been
handed one since.

### 3.10 `Origins` - `OriginIndexer.Parse` and `cmd/origin`

`Parse` is a function of the output and the inputs that were read; `Carriers` finds the
input at which its loop stops. A goroutine (`orJob`) is one `IngestTxid`: load, one input
after the other, the parent of an input that is not stored, save; the resolver's then queue the parents that
are unresolved, and delog. `Slot` are its goroutines, `Outside` those of the queue
processor, which save the same outputs. `failed` is the buffered channel, `processed` the map
of the round, `orDisp` the dispatcher while it waits for a slot; the wait group is what these
hold (`wg`).

`Lineage` and `TrueOrigin` are the reference: the outputs that held the satoshi since `TRIGGER`, as the
smallest set closed under `Ancestor`, and the first of them. Each output has one transaction
that creates it (`OrTxidAssumption`), since an outpoint names it. `orYoung` are outputs taken for origins because their parent had height 0.
Abstracted: heights are 0, below `TRIGGER`, and from `TRIGGER` on; saving is one step
(`TxoStore`). Jobs of the queue processor may save the parents they load (`-s` of `cmd/ingest`) or not. Its
`-p=false`, with which a parent is loaded without its height or not at all
(`idx/index-context.go:123-135`), is not modelled.

## 4. What the runs check

| Run | Shows |
|---|---|
| `queue` | `LimiterExact`, `OneWorkerPerTx`, `NoWorkLost`, `StopsClean` under three configurations, and `EveryTxServed` under fairness |
| `broadcast` | `ExclusiveSubmission`, `NoLeakedMarks`, `SuccessStaysPending`, `SubmittedIsTracked`, `UnsetsOnlyOwn`, on Redis and Postgres |
| `broadcast_sqlite` | on SQLite `ExclusiveSubmission` fails: the statement overwrites the mark of another transaction |
| `lifecycle` | `ArchivedIsFinal`, `ArchivedIsIndexed`, `Tracked`, `AuditSparesFinal` on Redis and SQL |
| `lifecycle_young` | the audit rolls back a mempool transaction that is younger than `OldMempoolTimeout` |
| `lifecycle_torn` | after a `Height` was read before it was stored, the job of a callback archives a transaction that is not more than `Depth` blocks deep |
| `loader_shared` | a caller that shares a request that fails gets `ErrNotFound` for a transaction that exists |
| `store` | `RolledLeavesNothing`, `SavedIsWhole`, `EntriesResolve` and the action property `MarksChangeHands` (store); `Justified`, `NothingLeftOut`, `PanicsOnlyWhen` (queries); all on the three stores |
| `edges` | `ResumesBehindNothing`, `OneBatchGivenUp` (subscription); `SingleFlight`, `WaitersAreServed`, `KeptProofsHold`, `NotFoundWithoutFault` (loader) |
| `stream` | a session that is registered for a topic is never handed the message that the loop took for it |
| `jobs` | `NothingPassed` (owner sync), `OriginTrue` (origins); under fairness `RequestsEnd`, `HistoryArrives` and `EveryEntryLeaves` |
| `store_unspent` | on the SQL stores an output that a saved transaction spends is shown as unspent once its parent was rolled back and ingested again |

### 4.1 Bounds, and why they are enough

* `queue`: three transactions, one of which never loads; three workers; one
  enqueue, one transient fault, one cancellation or crash. Two slots and two page
  entries are the least with which a page is blocked in its middle while the
  other slot fails. Concurrency 1 makes the wedge reachable.
* `broadcast`: two requests for one transaction (the duplicate) and a third that
  spends the same two outputs in the other order, an output of an earlier
  transaction among them; one fault or crash and one rollback, ingest or audit by the
  service, both in one behaviour on Postgres and one or the other on Redis (the constraint
  `Together`; the proofs hold for any number of both). Two outputs are the least for partial marks; the duplicate is what
  makes unsetting dangerous. The two duplicates are symmetric, and no liveness
  property is checked in that run.
* `lifecycle`: one transaction, since transactions meet only in the tip and the
  phase of the audit; one POST or queue entry, one callback, one fault or crash;
  `Depth` 1, one new block above the two at the start. One block suffices to
  undo an unconfirmed transaction and to move the immutable height past another. The
  proofs hold for any depth and any number of blocks, transactions and faults.
* `edges`, loader, and `loader_shared`: two callers, the leader and the one that shares its flight, or comes between
  its landing and its removal; one transaction with its two URLs; `Depth` 1 (5 in
  the code), one new block above the three at the start, so that a proof may be
  kept, refused, or undone first; one failed request; JungleBus and a node, or the node
  alone (JungleBus alone in `loader_shared`). The callers are
  symmetric, and no liveness property is checked. The proofs hold for any number
  of callers, transactions, blocks and faults.

* `store`: a coinbase with one output, two transactions that spend it, one of them with an
  output of its own; two workers; four operations begun (saves, rollbacks, new marks). Two
  conflicting spenders are the least for a mark to change hands; a save that
  dies, a rollback beside another operation, and a save after both need four. Without
  the ghost `late`, five operations were checked as well. Workers are symmetric, and no liveness
  property is checked. The proofs hold for any number of each.
* `edges`, subscription: two transactions, so that a batch may be written in part; three heights, from 1;
  a progress of 1 or less is ignored (6 in the code) and the rewind is 1 (5), so that
  resuming, rewinding and starting anew all occur; a reorganisation of 2 blocks, the most that the
  rewind covers; two faults, since the second error is the one that is never read. Postgres
  with `-m` and SQLite with `-r`; what Redis does with a batch, Postgres may do too. The proofs hold
  for all stores and flags.
* `store`, queries: two keys, two outputs, two transactions, scores 1 and 2, so that entries tie, an output has two
  owners, and a page of two entries cuts off inside a score; `from` before all and behind all; two contents of the store; every
  request; one write by others, and what JungleBus says besides.
* `stream`: two sessions and two topics, one of which the loop is subscribed to; `edges` has
  three sessions for the types.
* `jobs`, owner sync: two transactions of one owner, one account, one request beside the
  loop; pages of one (a full page ends inside a block), of two, and an owner that
  JungleBus refuses; a request, with a fault or with a reorganisation. The limiter has one
  place, the default of `-c` (`cmd/server/server.go:29`), so that the second transaction of a page of two
  waits for the goroutine of the first. The proofs hold for any number.
* `jobs`, origins: a line of three outputs of one satoshi below an output of three, each child
  to be parsed before or after its parent; one slot and a buffer of one, the least with which
  the dispatcher and the slots wait for each other; a goroutine of the queue processor
  beside, with one transaction; two faults, which fill slot and buffer, or a restart.

Deadlock is not checked: each of these systems stops when its clients, faults
and blocks are used up, and the queue processor returns by design.

### 4.2 Fairness

Nothing is assumed of clients, faults, cancellations, crashes, blocks or restarts.

* `IngestQueue`: weak fairness of the dispatcher and of each worker. The Go scheduler runs
  every runnable goroutine, and a select with a default takes the default only if no case is
  ready, so a waiting worker is received from before the next page is searched. `EveryTxServed`
  excepts the wedge (all slots held by workers that wait to report an error while
  the dispatcher waits for a slot), which the code can reach, and needs pages that
  poisoned entries do not fill, and no hook in place of the removal.
* `OwnerSync`: weak fairness of the loop, and of each request's handler and of its
  goroutines. Nothing restarts a loop that has panicked (the processes are started by hand
  or by means outside the repository), so `HistoryArrives` ends there.
* `Origins`: weak fairness of each goroutine and of main and dispatcher; strong fairness of the
  two cases of the dispatcher's select, which Go chooses between at random when both are ready.
* `EventStream` (`stream`): weak fairness of the handlers, and of the loop once it has taken a
  message. Nobody has to connect and no message has to come.
* In `jobs` the fairness of the program that a behaviour does not run asks nothing: none of its
  fair actions is enabled (no owner is synced, no output is in the log).

## 5. What is proved

TLAPS checks these for every value of the constants that meets the named assumptions of
the modules.

* **`IngestQueue_proofs`**: `TypeCorrect`, `LimiterIsExact`, `NoTwoWorkers`,
  `WorkIsNotLost`, `StopIsClean`. The inductive invariant ties `inflight` to
  the transactions of the workers (a taken transaction is held by exactly one
  worker or waits for its slot) and every owed transaction to the queue.
* **`Broadcast_proofs`**: `TypeCorrect`, `Exclusive`, `NothingLeaks`,
  `SuccessIsPending`, `SubmittedIsLogged`, `UnsetsItsOwn`, for backends other than
  SQLite, where the property is false. The invariant says that a request which
  is marking and lost nothing holds the marks of all inputs before its position, and
  that one which is submitted holds them all; two conflicting requests would
  need the same output to be marked for both.
  `NothingLeaks` and `UnsetsItsOwn` rest on two further parts. A mark
  is of an ingested transaction, was left by an error or a crash, or is kept by a request
  that has been through the output and is under way or submitted (`Accounted`). What an
  unwinding request read as its own mark stays its own, or the request is counted as
  overtaken (`OwnDels`): only `Mark` writes without noting it, and it writes only where
  there is no mark. The two theorems about the log rest on `LogInv`: from the attempt on, a transaction has
  an entry or one of the named actors deleted it, and from the acceptance by ARC on it is logged as
  sent or a duplicate of `Spoiled` is there. Both assume that each transaction has an
  input (the network takes no other): for an empty list `rollbackSpends` returns before its `Delog`.
* **`TxLifecycle_proofs`**: `TypeCorrect`, `Finality`, `ArchiveIsIndexed`,
  `NothingForgotten`, `FinalIsSpared`. All but the first and the fourth assume `TornHeight =
  FALSE`; with a torn height they are false (`lifecycle_torn`). The invariant has
  one part per argument:
  - `Roles`: which kinds of job can be where, and that audit jobs exist only while
    their audit runs. This is why a tip cannot make an audit's proof stale.
  - `TipOrder`: the immutable height is at least `Depth` below the tip.
  - `ProofsHold`: a proof that will pass the comparison was below the immutable
    height when it was validated, so no reorganisation can have undone it.
  - `Condemned`: what an audit is about to roll back is not final, not archived, and no
    other job is about to archive it.
  - `Indexed`: a job saves before it compares, and only `Condemned` jobs undo.
  - `Tracking`: a transaction is pending, or in a log that only a rollback
    deletes, or a job that will log it is under way; so each log is written before the
    one it replaces is deleted.

* **`TxLoader_proofs`**: `TypeCorrect`, `OneRequest`, `NoWaiterIsLost`, `KeptForGood`,
  `NotFoundIsSound`. The invariant ties each entry of the map to the one
  caller that requests it or is about to remove it (`Led`, `Leaders`), each waiter to an entry
  that is not done (`Waiting`), each kept proof to more than `Depth` blocks on
  top of it (`Kept`), and, while nothing has failed, each caller whose transaction was
  known to an answer that is good or to the node (`Promised`).

* **`TxoStore_proofs`**: `TypeCorrect`, `MarksChangeHandsHolds`, `SavedWhole`, `RolledClean` and
  `EntriesHaveRecords`, for every store. The invariant of the first two has three parts: `Shape` (a save has only writes to send that mark its own
  inputs, a rollback only writes that free inputs it was saved with), `Claims` (what a Redis
  rollback is about to free carries its own mark or one that is `late`), and `Order` (while a
  rollback runs its transaction does not count as saved, and no save that runs
  beside it can make it so). A free that hits the mark of a saved transaction is then by
  `Order` one of another transaction, and by `Claims` late.

  The other three share the invariant `WInv`. A save that is past its inputs has each field of
  the outputs it is past either stored or still to be sent (`Stored`); a rollback has
  what it looked for either gone or still to be sent as a drop, and has read all the marks of its
  transaction, because Redis lists all of its inputs or none (`Cleared`, `Marks`). A save and a
  rollback of one transaction that run together leave its order unknown, and then neither
  property says anything of it (`Apart`); an operation writes and drops only outputs
  of its own transaction or, in a save, of the parent it saves first, so that no rollback drops
  what a save of another transaction wrote (`Part`). A record is
  written before the entries that point to it and dropped after them (`PutOrder`, `DropOrder`,
  `Resolve`); in SQLite the fields of an output come and go together (`Atomic`).

* **`Edges_proofs`**, subscription: `ResumesBehindNothing` and `OneBatchGivenUp`, for every store and all
  flags. The invariant says of two heights, where the next process would resume and the block that is
  delivered, that all mined below them is queued or excused (`Covered`); that what was delivered of
  that block is in the batch, queued or given up; and that all of it was delivered, and the
  batch is empty, when its progress is stored. A reorganisation needs the process down, and
  reaches no further below the tip than the rewind does. A batch is given up in the step
  that makes `Exec` leave, so that there is one at most.

* **`Jobs_proofs`**, owner sync: `NothingPassed` and `MembersAreSynced` (which no run checks). A
  height is safe for an owner (`Ahead`) when nothing of its history below it is missing but what
  is in a given set. The invariant says so of each height that is logged (nothing), that the
  loop read for its round (nothing), that the loop is at (its page), and that a request is at (its page
  and its goroutines, unless one failed). A lemma states what a step may do to the
  world around all of them: the queue and the index grow, transactions are mined above the
  heights that are held or become `osLate`.

* **`Jobs_proofs`**, origins: `OriginTrue`, for any transactions, amounts, slots, failures and
  restarts. Three arguments meet. First, of the inputs of an output one at most
  carries its satoshi, because the loop stops at the first that reaches beyond it (`OneCarrier`). So each output has
  at most one ancestor, its line is itself and the line of the ancestor, and two members of a
  line without an ancestor are the same (`OneOrigin`). Second, `Parse` of sound records gives a sound one: its
  origin belongs to the line and has no ancestor, or was taken too early (`ParseSound`). Third, a job
  reads its inputs one after the other while others save them, so soundness is
  an invariant of what each job holds too (`JobSound`). That only grows weaker when more origins are taken
  early, since a record that was read stays a record of its output. What the sums
  of satoshis are does not matter to any of it, so that `Sum` is never unfolded.

* **`Queries_proofs`**: `Justified`, `NothingLeftOut` and `PanicsOnlyWhen`, for each of the
  three stores, any keys, outputs, pages and number of writes. `QInv` has one part per stage of a request
  (`AtRange`, `Selected`, `AtMarks`, `AtAsk`, `AtLoad`, `AtShown`, `AtEnd`), each a statement about the ghost
  `seen` and never about the store: the store is only read in the step of its stage,
  and what is owed to `seen` still is when `seen` grows (`InvGrows`), which is the whole
  proof of `QWrite`. `Ranged` is what the ranges of Redis need: each entry of a key that was searched
  was kept, or its member was kept from an earlier key, or its page was full before it (`Met`); the
  merge turns that into `Covers`, the list the answer is made of (`MergeOK`). Assumed are finitely many keys, and
  that a member has one score in a key, as a sorted set and the primary key of `logs` have it.

* `EdgesTypeOK` (with that of the event stream, `EsTypeCorrect`) and `JobsTypeOK` follow for the compositions: a step of one is a step of one part
  and leaves the variables of the others.

TLC checked each part as an invariant before it was proved.

Only model-checked: `EveryTxServed`, `RequestsEnd`, `HistoryArrives` and `EveryEntryLeaves`. They are
liveness properties, whose proofs need ENABLED and fairness, and the last two induction over the
pages of a history and the transactions of a line; these are out of the prover's reach. The runs
that show a disagreement (section 6) check what is false, and have no theorem.

## 6. Findings

1. `idx/sqlite-store/txos.go:93` - `SetNewSpend` overwrites the mark of another
   transaction and reports a new one, against the statement kept in a comment
   of the same file and the "Check and Mark Spends" of `broadcast.go:114`.
2. `ingest/ingest.go:520` - a mempool transaction is rolled back at two minutes
   when it has no proof; the comments say after `OldMempoolTimeout`.
3. `blk/block.go:65` - the header is sent before its `Height` is stored; the
   reader may compute `0 - 10` as a `uint32`, and callbacks then archive any mined transaction.
4. `jb/client.go:170` - a caller that shares the request of another gets its `Result` but
   not its error: a failed request becomes `ErrNotFound`, on which the audit
   rolls back and the queue removes the entry, although `ingest.go:312` means
   other errors to be skipped and retried.
5. `idx/pg-store/txos.go:544`, `idx/sqlite-store/txos.go:535` - the rollback of a parent
   deletes the marks of the transactions that spend its outputs; when it is ingested
   again the search for "unspent outputs only" (`routes/own/ctrl.go:32`) shows them.
6. `server/routes/sse/sse.go:41` - the first session of a topic waits for good in the send to
   a channel that is never made, so that it receives nothing, and the first message of its
   topic stops the loop at `server/server.go:250` for all sessions; the route is documented to
   deliver "real-time updates via server-sent events" (`server/server.go:131`).

Other things a reader of the models should know, which no comment contradicts: a
score queued while its transaction is in flight is deleted with the old one; the
audit deletes a pending entry by its key even if a save has given it a height
meanwhile; a proof cached for an hour is stored for good if enough blocks follow in that hour,
even when one of them undid it (`late`; `KeptProofsHold` excepts it, and the
validation against the header service still refuses it); with a node
configured, its answer replaces the error of JungleBus; the SQL stores forget a rolled back transaction if the process dies before
the rollback is logged; a callback that validated before a tip arrived may archive by
the new immutable height (`early`). A rollback on Redis leaves the entries
of tags and events and of spenders in the logs of owners, since it loads the outputs
without tags; it fails for a transaction whose spends were never saved (an HMGET without
fields), and the save of a coinbase panics after its outputs are stored (an HMSET
without fields). On Redis a rollback that read a mark as its own deletes the mark a
conflicting transaction sets meanwhile. The properties name these exceptions.

A second POST of a transaction that was accepted logs a new attempt over its entry, with a
negative score, although negative scores are meant for broadcasts that ARC never confirmed; when it is
refused after its marks, or ARC fails it, its `rollbackSpends` deletes the entry and the marks of the
accepted one, and nothing but a callback or a subscription brings them back (`Spoiled`).

Of the parts at the edges:

* *Subscriptions*: a batch that failed is dropped and its progress is stored all the same;
  the next error stops the handler before it drops another (`OneBatchGivenUp`). On Postgres a batch may
  be undone without an error.
* *Owner sync*: after a full page the next one starts above its last height, so that
  transactions of that height are passed (`osTies`). The score that `SyncOwner`
  looks up under the bare tag (`idx/accounts.go:43`) is never there, so every request hands its whole page to
  `IngestTxid`, which with `Once: true` (`cmd/server/server.go:38`) skips what is logged under `LogKey` of the
  tag (`idx/ingest.go:57-64`). JungleBus' status 404 panics the loop. On Redis an owner stays in the set of its
  former account.
* *Queries*: `from` is exclusive, so paging by the last score skips what ties with it; `rev`
  without `from` starts at 0 and finds nothing; Redis drops transactions after it has cut off the
  page, so that pages can be short or empty while more follow, and without `txo` shows the
  spend of the first output with all (`redis-store/search.go:215`). `RefreshSpends` of the SQL
  stores asks JungleBus about transactions too and drops spent outputs though spent ones were asked
  for. `LoadTxosByTxid` of the SQL stores always returns an empty list. Panics: see
  `PanicsOnlyWhen`. `POST /v5/spends` answers on Postgres a list in the order of the rows, shorter
  than the list that was asked for when rows are missing (`idx/pg-store/txos.go:458-488`).
* *Origins*: with one slot and a full buffer the dispatcher waits for a slot and the slot for the
  dispatcher (`Stuck`); the child of a transaction of the mempool becomes an origin of its own and
  stays one (`orYoung`); an output of one satoshi without a carrier, as in a coinbase, stays in the
  log for good; a goroutine that saves what it parsed before the parent was resolved may
  do so after the entry was taken out of the log, and leaves an unresolved output without an entry.

## 7. What is not modelled

* Script indexers (`mod/p2pkh`, `mod/cosign`, `mod/lock`, `mod/bitcom`, `mod/opns`,
  inscriptions and order locks, `sigil`): byte-level parsing of one script, without state.
* Configuration, migrations, generated documentation and encodings: I/O around one call.
  The block routes and those that return a transaction, a proof or a BEEF are one load each.
* Tokens (`mod/onesat/bsv21.go`, `mod/shrug`): `PreSave` is a function of one transaction's inputs, and what
  it finds wrong sets a reason that nothing reads, so there is no rule to check. `cmd/bsv21` is
  unfinished: the body that processes a token's queue is commented out.
* Funding (`idx/fund.go`): nothing calls `FundAndSignTx`.
* The pool of Postgres connections: `LoadTxos` and `LoadData` hold one and ask for another, row by
  row (`pg-store/txos.go:124`), so as many such requests as the pool has connections wait for each
  other; the models have no pool.
* The status listener, which has no callers left.
* In `Broadcast` and `TxLifecycle` the stores are modelled by what their callers rely on, one
  step per call (per part of a call where the call has several); `TxoStore` has the
  commands inside the calls that save and roll back.
