# Formal model of thirdweb Engine

Engine is an HTTP server with background workers that turns API calls into
blockchain transactions sent from *backend wallets*, and that follows contracts and
reports what happens on them.  Its correctness questions are about state that is
shared without locks, or with short ones: Redis keys, BullMQ jobs, Postgres rows and
in-process caches that several workers, cron jobs and HTTP handlers read, await on,
and write back.  This directory models that state in TLA+, checks it with TLC on
small instances, and proves the main results with TLAPS for every instance.

## 1. Inventory

| Component | State | Operations | What is hard |
|---|---|---|---|
| Wallet nonces (`db/wallets/walletNonce.ts`) | per wallet and chain: `nonce` (last used), `nonce-recycled` (sorted set), `nonce-sent` (set), `nonce-map` | acquire, recycle, sync from chain, sync if higher, add/remove sent, delete all | four writers, no lock; the chain moves too |
| Send worker (`worker/tasks/sendTransactionWorker.ts`) | BullMQ jobs `<queueId>.<resendCount>`, 5 attempts | first send, resend, userOp send, "failed" handler | submits before it stores; every exception means "try again" |
| Mine worker (`mineTransactionWorker.ts`) | BullMQ job `mine.<queueId>`, 200 attempts | poll receipts, queue a resend, "failed" handler that releases the nonce | races with resends and with the routes |
| Cancel-recycled-nonces cron | the batch it took, in memory | take all recycled nonces, send an empty transaction at each | loses its batch in a crash; cancels at nonces others may hold |
| Nonce-resync cron | a loop over `count..lastUsed` | recycle what is not in `nonce-sent` | works on values that are stale when used |
| reset-nonces route | - | delete the keys, sync again | runs while jobs hold nonces |
| TransactionDB (`db/transactions/db.ts`) | one JSON record per queueId; sorted sets per status | set (whole record), get, lists, prune | last writer wins |
| Transaction routes (insert, cancel, retry, sync-retry, retry-failed) | - | read the record, call RPC or BullMQ, write the record | read-modify-write over an await |
| Webhooks (`sendWebhookQueue.ts`, `sendWebhookWorker.ts`) | BullMQ jobs deduplicated by url and what happened | enqueue, deliver with 3 attempts | duplicates, workers that stop between two steps |
| Write routes (`server/routes/**`, `queueTx.ts`, `queueTransation.ts`) | none of their own | some ninety handlers translate a request into calls of `insertTransaction` | options handed on by hand, retries of a client, failures between two steps |
| Contract subscriptions (`server/routes/contract/subscriptions`) | rows, with their webhooks | add (which may set the chain's cursor), remove | the cursor is shared with the indexers |
| Chain indexers (`worker/tasks/chainIndexer.ts`, `worker/indexers`) | `chain_indexers.lastIndexedBlock`; per worker a registry of crons | start and stop a chain's cron; lock the row, fix a range, enqueue it, advance | overlapping tasks, transactions that time out under a running callback, nodes that are behind |
| Event-log and receipt workers | jobs with requery delays, two tables | query, insert what is new, enqueue webhooks | incomplete answers, a crash between insert and enqueue |
| Caches (`utils/cache`, listeners, cron) | in-process copies of tokens, keypairs, webhooks, configuration | fill, clear or reread after a change, on NOTIFY, by cron | a value read before a change and stored after it |
| Pruning, migration, health check | - | cron jobs over the stores above | not modelled |
| Authentication decision, read routes, key stores, websocket, metrics | none | - | not modelled |

Interaction: a write route calls `insertTransaction`, which stores a *queued*
record and adds a send job.  The send job acquires a nonce, submits, adds the
nonce to `nonce-sent`, stores *sent* and adds the mine job.  The mine job polls
receipts; it stores *mined* and removes the nonce from `nonce-sent`, or queues a
resend (same nonce), or after 200 attempts stores *errored* and gives the nonce
back.  Recycled nonces are taken by later sends or cancelled by the cron; the
resync cron looks for nonces nobody has.  Every stored status enqueues a webhook.
Beside this pipeline, subscriptions make every worker run a cron per chain, which
hands block ranges to two queues; their workers fill two tables and enqueue webhooks.

What makes the components correct:

* nonces: one owner per nonce, none skipped for ever, nobody's pending
  transaction replaced by another one, `nonce-sent` complete;
* transactions: executed at most once, *mined* only if it is on the chain, none
  left *queued* or *sent* with nobody working on it, the outcome announced, every
  submitted hash polled;
* routes: a key is stored once unless two requests overlap, none for a refused request, the
  client's account and overrides in the transaction, a job for every queueId that was
  answered;
* indexers: no block skipped for a subscription, the cursor catches up with the head;
* events: what was asked for is stored and announced, an item is not called for again
  once the worker knows that the URL has it;
* caches: a credential that was added is found, a stale value has a reason and goes
  away, the mandatory origins are never lost.

`PROJECT.json` lists the components, and under `hazards` the places in the code
where these can go wrong in ways a test would hardly reach.

## 2. Modules

* `RouteCalls`, `WriteRoutes` - the write routes: a table of what each route makes of
  a request, and the handler, `queueTx`/`queueTransaction` and `insertTransaction`
  as a process per request, with clients that send it again.
* `TxLifecycle` - one queueId from there on: its record, status lists, webhooks,
  BullMQ jobs (with finished jobs, whose ids stay taken), both workers with their
  "failed" handlers, the routes that change a transaction, crashes.  A submission is
  one step at a nonce nobody else has; that this can fail is what `WalletNonce` is
  about.
* `WalletNonce` - one wallet on one chain: the Redis keys, any number of
  transactions, both crons, the reset route, the node's mempool and the chain.
  One action is one await (a Redis command, a Lua script, an RPC call).
* `IndexCursor` - abstract: what the indexers of one chain promise together.
* `ChainIndexer` - the workers' crons and tasks, the add and remove routes; it
  implements `IndexCursor` (`ImplementsCursor`).
* `ContractEvents` - composes `IndexCursor` with the event-log, receipt and webhook
  queues and workers.
* `Settings` - the cached rows, the routes that change them, listeners and cron.
* `MCWalletNonce`, `MCTxLifecycle`, `MCChainIndexer`, `MCContractEvents`,
  `MCWriteRoutes`, `MCSettings` - instances for TLC.
* `WalletNonceProofs`, `WalletNonceChainProofs`, `TxLifecycleProofs`,
  `TxOutcomeProofs`, `ChainIndexerProofs`, `ContractEventsProofs`, `SettingsProofs`,
  `WriteRoutesProofs` - theorems.

### WalletNonce and the code

| Variable | Code |
|---|---|
| `lastUsed` (`Unset` if absent), `recycled`, `sent` | the keys `nonce:`, `nonce-recycled:`, `nonce-sent:` |
| `nonceMap` | `nonce-map:`, and the local `nonce` of the running attempt |
| `pc`, `cnt`, `attempts` | where `_sendTransaction` is, the `transactionCount` it read, `attemptsMade` |
| `resending` | a resend job between its read of the record and its RPC call |
| `batch` | `recycledNonces` in the cancel cron |
| `resync`, `reset` | the locals of the resync run and of the reset request |
| `count`, `mempool`, `mined` | external: `eth_getTransactionCount("latest")`, the node, the blocks |

`Features` switches disturbances (`crash`, `lostReply`, `lateThrow`, `rpcError`,
`drop`, `mineTimeout`, `external`) and optional actors (`cancel`, `resync`,
`reset`) on, so that each result says under which of them it holds.
The RPC node is modelled by what the code can observe: it accepts a transaction
at a nonce that is not mined (replacing a pending one when the gas is higher), or
answers "nonce too low", "replacement underpriced" or some other error.

### TxLifecycle and the code

Every actor (job, "failed" handler, request) is a program counter and the record
it read, because `TransactionDB.set` writes the whole record back.  The shared
tails `store`, `hook`, `addMine`, `addSend` are the awaits that end each handler.
`Added` is `Queue.add` with a job id, which BullMQ ignores while a job of that id
exists; `Removed` is `Queue.remove`, which fails for a locked job.  `slotOf`,
`cancels` and `mined` are the chain.  `SendLate` is `getBlockNumberish` throwing after
the node took a first send or a resend: the attempt fails and nothing of it is stored;
in an API call the same failure is a `Crash` before `store`.  `SurvivingSpec` is `Spec`
without three things: a crash of the send worker between the submission and the end of
its job (`SendSurvives`), a late failure of a first send that is tried again
(`LateIsLast`), and a crash of anyone between a write and its webhook (`HooksFollow`).
`FairSpec`, for liveness, has neither crashes nor late failures (`Undisturbed`).
A job fails again only when its "failed" handler has ended (a bound, in `Throws`).

### ChainIndexer, IndexCursor and the code

| Variable | Code |
|---|---|
| `row`, `lockedBy` | `chain_indexers.lastIndexedBlock`, and the lock of `SELECT ... FOR UPDATE NOWAIT` |
| `live` | `contract_subscriptions` with `deletedAt` null |
| `addPc`, `addHead` | an add request: where it is, the block number it read |
| `registry`, `started` | per worker `INDEXER_REGISTRY` has the chain; the task that set `processStarted` of its closure |
| `manage`, `saw` | `manageChainIndexers`: what it read; `"stuck"` after it threw |
| `pc`, `owner`, `open`, `from`, `to`, `subs` | a run of `chainIndexerTask` and its locals; `open` until Prisma closes its transaction |
| `handed`, `born` | history: ranges added to the queues; the head when a subscription was created |

`AddCheck` .. `AddCreate` are the awaits of the add route, `TaskStart` .. `TaskCommit`
those of the task.  `TaskTimeout` is Prisma's 60 s limit: the lock is gone, the
callback runs on, its `Queue.add` calls still work and its upsert does not.
`GetBlockNumber` may answer up to `Lag` blocks behind.  A task's range starts with
`lastIndexedBlock` itself, so that neighbouring ranges share a block.

`IndexCursor` keeps the first five variables only.  `Hand` gives existing blocks to a
queue for everyone they concern, `Advance` moves the cursor over blocks that were
handed over, `Restart` puts it anywhere while nobody is subscribed.

### ContractEvents and the code

`EnqueueRange` is the indexer's `Queue.add`: a job at once and one per requery delay,
the last one with attempts.  `HandlerInsert` is query and bulk insert,
`HandlerPartial` the same with an incomplete answer (a fault), `HandlerThrow` a query
that fails; `HandlerNotify` the loop that enqueues webhooks for the inserted rows;
`HandlerCrash` a stop inside that loop.  `LogMatches` and `ReceiptMatches` are the two
ways the code applies filters.  `Undecodable` is the third outcome of a function
filter: `decodeFunctionData` throws for a selector the ABI does not know, so that a
job whose range holds such a call cannot but fail.  `chain`, what the blocks hold, is
chosen at the start from `Chains`.  A webhook job is keyed by URL and item, as its
`jobId` is.  `DeliverFails` is status 500 and above, which `sendWebhookRequest` also
reports when the URL accepted the call and the answer was lost or could not be read;
`DeliverStalls` is a worker that stops after the call.  `unseen` counts the accepted
calls of both kinds.

### RouteCalls, WriteRoutes and the code

A route is a record: `via` (the helper), the `extension`, the prepared `call` with its
arguments, the type it deploys, the options its schema `declares` and the ones its
handler `takes`.  A handler goes through `prepare`, `insert`, `simulate`, `store`,
`enqueue` (and `factory` for `createAccount`, `submit` for `withdraw`, which does not
use the queue); a batch repeats the middle part per item.  `Kept` and `OwnValue` are
what `queueTx` and `queueTransaction` put into the transaction.  `InsertNew` is the
lookup of the key that finds nothing, `Store` the write after it; `raced` (history) is
every handler that made this lookup while another one of its key was between the two.

### Settings and the code

A value is a set, so that the four kinds of rows share one lookup: `Start` (cache or
query), `Query`, `Fill`.  `Served` is `if (cached)`: a cached null is asked for again,
a cached empty list is not.  An operation is a record: what it does, whether it
computes from the cached configuration (`base`), whether it validates (`refuses`), and
what it does with its cache before it answers (`then`: clear, reread, reread and
restart the cron, or nothing).  `Notify` are the triggers of the migrations, `ConfigNotified`
and `WebhookNotified` the listeners, `ListenerDies` the `end` and `error` handlers,
which release the connection for good.  `clearCacheCron` is part of the step that ends
a restart.

## 3. Runs

| Run | Property | Result |
|---|---|---|
| `nonce_exclusive` | `TypeOK`, `NonceExclusive` | holds with every disturbance except resync and reset |
| `nonce_kept` | `SentTracked`, `NoNonceLost`, `NeverDisplaced` | holds with three transactions, faults at the node and the cancel cron |
| `nonce_at_most_once` | `AtMostOnce`, `RetryIsSafe` | holds with resync and reset on a new wallet, where nonces do collide |
| `nonce_gap` | `GapFilled` | a nonce that a crash skipped is found and filled |
| `new_wallet` | `NonceExclusive` | violated: the second transaction of a wallet gets the nonce of the first |
| `tx_once` | `TypeOK`, `ExecutedAtMostOnce`, `MinedIsTrue`, `OutcomeAnnounced` | hold with cancel, retry and sync-retry racing the workers, and one crash or RPC failure that `SurvivingSpec` allows |
| `tx_settles` | `MinedIsTrue`, `NoLimbo`, `Settles` | hold with cancel and retry-failed, for transactions that are not resent |
| `key_twice` | `ExecutedAtMostOnce` | violated: two overlapping inserts of one key, executed twice |
| `routes` | `TypeOK`, `KeyedOnce`, `RefusedLeavesNothing`, `SentAsAsked`, `AnsweredGetsQueued` | hold for every route, two tries that may overlap and two failures |
| `indexer_cursor` | `TypeOK`, `NoGap`, `ImplementsCursor`, `CatchesUp` | hold with overlapping tasks and one crash, timeout or throw |
| `events_stored` | `TypeOK`, `ReceivedOnce`, `ItemsStored`, `ItemsAnnounced` | hold with one incomplete answer, failed call, lost answer or stopped worker, two function filters and calls that cannot be decoded |
| `settings` | `TypeOK`, `NoFalseAbsence`, `StaleHasReason`, `MandatoryOrigins`, `Converges` | hold for all four kinds of rows in two deployments |

The `tx_` runs start with either kind of transaction (`Kinds = BOOLEAN`: a userOp or a
transaction of the wallet).  Two runs show a disagreement between what the repository
says and what the code does; `findings` in `PROJECT.json` quotes the lines.

* `new_wallet`: no interleaving is needed.  The first transaction's `INCR` is 1, which
  `acquireNonce` takes for "the key was not set": it fetches the count 0, sets the key
  to -1, and its second `INCR` gives nonce 0.  The next transaction's `INCR` is 1 as
  well, because 1 follows 0.  It takes the same branch, fetches 0 again, as the first one
  is not mined yet, and gets nonce 0 too.
* `key_twice`: "Transactions submitted with the same idempotency key will be
  de-duplicated".  Two handlers look the key up before either has stored it.  The first
  one's transaction is sent and a resend of it queued before the second one, held up
  (in its simulation, say), stores *queued* over *sent*.  The resend job finds a queued
  transaction and sends it as a first one, at a new nonce.

Some properties name what they exempt, because the code does not promise it:
`CatchesUp` a worker whose managing cron has thrown (`Stuck`) and a chain without a
row; `ItemsAnnounced` the items of a handler that was stopped between insert and
enqueue (`cut`); `AnsweredGetsQueued` a transaction whose handler ended between record
and job (`cut`); `ReceivedOnce` repetitions of a call whose acceptance the worker did
not learn of (`unseen`); `KeyedOnce` handlers that overlap between lookup and store
(`raced`); `ItemsStored` receipts of which every range had another subscription's
filter or a call that cannot be decoded (`Spoiled`); `StaleHasReason` the races of a
lookup or a reread with a change, and the route that adds a webhook (`behind`);
`MandatoryOrigins` every other origin; `Converges` a process without the cron.

The other limits of the passing runs can be seen by enlarging one of them:

| Variation | What TLC then finds |
|---|---|
| `"resync"` in the `Features` of `nonce_exclusive` | resync recycles a nonce that is being submitted (`NonceExclusive`) |
| `"mineTimeout"` in `nonce_kept` | the timed out job recycles the nonce of a pending transaction, which the next owner replaces (`NeverDisplaced`), and then removes the next owner's entry of `nonce-sent` (`SentTracked`) |
| `"crash"` or `"drop"` in `nonce_kept` | a nonce below a sent one belongs to nobody (`NoNonceLost`); `nonce_gap` shows that resync finds it |
| `"lostReply"` in `nonce_at_most_once` | a nonce is recycled, and the job tried again, while its transaction is pending (`RetryIsSafe`) |
| `"lateThrow"` in `nonce_at_most_once` | `getBlockNumberish` fails after the submission: the transaction is sent twice (`AtMostOnce`) |
| `Spec` for `SurvivingSpec` in `tx_once` | the send worker stops after its submission and is given the job again: executed twice (`ExecutedAtMostOnce`); cancel stops after its write: nobody announces *cancelled* (`OutcomeAnnounced`) |
| the same with `SendAttempts = 2` | also `getBlockNumberish` fails after the first submission and the job is tried again: executed twice (`ExecutedAtMostOnce`) |
| `Requests <- Retrying` in `tx_once` | retry-failed after a mine timeout: executed twice (`ExecutedAtMostOnce`) |
| `Requests <- InsertOnly`, `MaxResends = 1` in `tx_settles` | a resend overwrites *mined* by *sent* and nobody polls it (`NoLimbo`) |
| `Spec` for `[][Undisturbed]_vars` in `FairSpec`, `MaxFaults = 1` in `tx_settles` | the insert stops between record and job: *queued* for ever (`NoLimbo`) |
| `Requests <- InsertTwice` in `tx_settles` | the second insert of a key writes *queued* over *sent*, and its job is a no-op (`NoLimbo`) |
| `received[k] <= 1` for `ReceivedOnce` in `events_stored` | the answer of an accepted call is lost and the call made again; the comment at `sendWebhookQueue.ts:95` says that the key "ensures a webhook URL will receive an event log or transaction receipt at most once" |
| `Spoiled` without its first alternative | "Merge multiple filters for the same address" keeps the last filter only: receipts one subscription asked for are never stored (`ItemsStored`) |
| `Spoiled` without its second alternative | one call that cannot be decoded fails the range in every attempt (`ItemsStored`) |
| `OverlappingAdds = TRUE` in `indexer_cursor` | two first subscriptions of a chain: the later upsert skips blocks of the earlier one (`NoGap`) |

Read in the code and modelled, without a property of their own:

* `deleteAllNonces` lists the sent set as `sent-nonce:*` while its key is
  `nonce-sent:*`, so that a reset leaves it (`DeleteListKeys`);
* `TransactionDB.set` adds the id to the list of its new status and leaves it in the
  old one (`StoreRecord`); of two concurrent resends the later store drops the hash of
  the other one;
* `sendTransactionBatch` declares the idempotency header and does not use it
  (`KeyedOnce` is about the routes that hand the key on);
* the routes that use the v4 SDK and `queueTx` declare `x-account-factory-address`
  and do not hand it on (`Extension`); `queueTransaction` drops the value of the
  prepared call itself (`OwnValue`);
* a webhook is called with everything that was stored for its contract, not only with
  what its own subscription's filter selects (`WebhooksOf`).

**Bounds.**  `WalletNonce`: 2 or 3 transactions (every property is about one or
two of them; the third lets one nonce be recycled, cancelled and acquired at
once), up to 6 nonces, 1 or 2 attempts, 1 or 2 faults.  One fault is enough to
break each property that faults break (the variations above), so that a passing run
with the fault enabled is not vacuous.  `MaxNonce` is a guard on `INCR`: a run
stops acquiring there.  Symmetry in the transactions is used for safety only.
`TxLifecycle`: at most one resend, 1 or 2 attempts, 2 nonces, 2 or 3 hashes, each
request at most once, at most one fault; the second nonce and the second hash are what
double execution and lost hashes need.  With `MaxResends = 0` sync-retry cannot submit
and retry cannot add its job, so that `tx_settles` has neither of these requests.  In
`tx_once` a send job has one attempt, so that each late failure is in a last one and
`LateIsLast` excludes nothing; the proof is for any number.  `MinedIsTrue` is checked
there with faults and without retry-failed, in `tx_settles` the other way round, and
proved for both together.
`ChainIndexer`: two subscriptions (one of logs, one of both kinds), two tasks, so that
one of a removed registration, of a timed out transaction or of a second worker
overlaps a new one, two blocks in ranges of one, a node one block behind, one fault;
one worker with two tasks has the interleavings of two workers, because the tasks meet
only at the row lock, and the proofs are for any number of both.
`ContractEvents`: two subscriptions of one contract and one URL, the first with a filter
of events and one of functions, the second with another filter of functions; in the
block after, a log and a call that the first one asked for, with and without a call the
ABI does not know; one requery, two attempts, two ranges, one fault.
`WriteRoutes`: one client (requests of two clients share nothing but the queue), every
route, nine sets of options that include none and all, two tries, a batch of two, two
faults.  `Settings`: a `server_only` process beside a `default` or a `worker_only` one,
two operations in progress, two changes, failures or restarts.
`CHECK_DEADLOCK FALSE` in every run but `settings`: a wallet whose transactions are
done, a queueId that is settled, a client with its answer and a chain whose blocks are
indexed really stop, while the cache cron never does.

**Fairness.**  Weak fairness of the jobs' steps (BullMQ hands a waiting job to a
worker until its attempts are spent), of the crons (node-cron and repeated jobs), of
handlers that have begun, and in `WalletNonce` of the chain's blocks.  No fault, no
API call, no external transaction and no new block of an indexed chain is ever
required.  `MineFound` is fair because the mine job polls for more than 30 minutes;
runs that include its timeout check safety only.  `ContractEvents` has one fair
action, `WorkerStep`: as long as something is queued some worker does the next thing,
which succeeds unless the job cannot but throw; faults are bounded, and the last job of
a range and a webhook job have attempts.

## 4. Proofs

The theorems hold for every value of the constants.

### WalletNonceProofs, WalletNonceChainProofs

| Theorem | Assumptions | States |
|---|---|---|
| `TypeCorrect` | none | `[]TypeOK` |
| `Exclusivity` | `Established`, `NoRewrites` | `[]NonceExclusive` |
| `NotDisplaced` | and `NoTimeouts` | `NeverDisplaced` |
| `SentSetComplete` | and `NoTimeouts` | `[]SentTracked` |
| `ExecutedOnce` | `NoTimeouts`, `NoLateFailures` | `[]AtMostOnce` |
| `RetriesAreSafe` | `NoTimeouts`, `NoLateFailures` | `[]RetryIsSafe` |
| `Conservation` | `Established`, `NoRewrites`, `NothingForgotten`, `Quiescent` | `[]NoNonceLost` |

Each assumption excludes what a violation run or a variation of section 3 shows to
break the result: `Established` (the nonce key is at least 1) excludes
`new_wallet`, `NoRewrites` (no resync, no reset), `NoTimeouts` (no
`"mineTimeout"`) and `NothingForgotten` (no `"crash"`, no `"drop"`) the variations
of those names, `NoLateFailures` both `"lateThrow"` and `"lostReply"`.  `Quiescent`
says that the wallet starts with no nonce handed out and not mined.

`NonceExclusive` is not inductive: `INCR` hands out a fresh nonce only because
every nonce in circulation (owned, recycled or in the batch) is at most
`lastUsed`, and because `lastUsed` never falls.  `InCirculation` says so, and
that no job is inside `syncLatestNonceFromOnchain`, the one place that lowers it.
`ChainInv` adds that only nonces below the count are mined and only sent
transactions are resent; `OneHome` that a transaction is at the node only at its
own nonce; `ConservedInv` that a count read by a job is never ahead of the chain.

### TxLifecycleProofs, TxOutcomeProofs

| Theorem | Assumptions | States |
|---|---|---|
| `TypeCorrect` | none | `[]TypeOK` |
| `MinedIsTrueAlways` | none | `[]MinedIsTrue` |
| `OutcomesAnnounced` | `[][HooksFollow]_vars` | `[]OutcomeAnnounced` |
| `ExecutedOnce` | `SentOnce`, `[][SendSurvives /\ LateIsLast]_vars` | `[]ExecutedAtMostOnce` |
| `NothingLeftBehind` | `Plain` | `[]NoLimbo` |

`SentOnce` (no second insert of the key, no retry-failed), `SendSurvives`, `LateIsLast`
and `HooksFollow` exclude `key_twice` and the variations of `tx_once`, `Plain` (no
faults, no resends and the requests insert, cancel and retry-failed) those of
`tx_settles`; nothing else is assumed about requests, attempts, crashes and the order of steps.

The proofs go by the *effect* of each action: one lemma per action says where its actor
was, where it goes with which record, and what stays.  `Moves` and `ThrowMoves` are the
two forms of a step of an actor.  What is added to the properties, because they are not
inductive:

* `TypeInv`: where each kind of actor can be (`Pcs`), that an actor that is a job is
  active and a job that may run has an attempt left (`JobsRun`), and that what the
  mine worker's handler releases is a nonce (`Slotted`).
* `MinedIsTrue`: between the receipt and the write the mine worker holds a copy of the
  record, and so does everyone who may write it back later.  `Honest` says of every
  copy, not only of the stored one, that while it is *sent* its hashes were submitted
  for this transaction and are no cancellations, and that if it is *mined* the
  transaction is executed.  `Numbered` is why the next hash is new.
* `OutcomeAnnounced`: `Announcing` says that the stored status was announced or someone
  with that status is on the way to its webhook; retry, which writes a record and
  announces nothing, writes only *sent*, and *sent* was announced by whoever wrote it.
* `ExecutedAtMostOnce`: `OneNonce` says that everything submitted is at the first nonce.
  Only the first send job acquires a nonce, and it must not run again once it has
  submitted, stored or not (`FirstDone`).  That takes a history of the record: before
  the insert nobody is at work (`Beginning`), before the first *sent* is stored there is no other job and
  no *sent* copy outside that job (`Following`), so that no copy can bring *queued* back
  (`Holding`); and each *sent* copy, the ones that cancel, sync-retry and the resend
  jobs submit with, has that nonce (`HeldAtOne`).
* `NoLimbo`: at most one actor at a time has to bring the transaction further
  (`OneTurn`: the insert, the send job, its handler, the mine job, its handler,
  retry-failed, which hand over to each other), and a *queued* or *sent* record has such
  an actor (`Covered`).  Cancel is the exception: it writes beside the others, and what
  they store after it is *sent* or *errored* with someone to go on.

### ChainIndexerProofs

| Theorem | Assumptions | States |
|---|---|---|
| `TypeCorrect` | none | `[]TypeOK` |
| `NoBlockSkipped` | `~OverlappingAdds` | `[]NoGap` |
| `Refinement` | `~OverlappingAdds` | `ImplementsCursor`, that is `Cursor!CursorSpec` |

`~OverlappingAdds` (one add request of a chain at a time) excludes the variation of
that name.  `NoGap` is not inductive, because a commit extends the cursor by a range
that was fixed several awaits earlier.  `Inv` adds what holds at these awaits: a task
whose transaction is open holds the lock and the row still has the value it read
(`RowIsLocked`); its range ends on the chain (`RangeOnChain`); whoever is subscribed
and not in its snapshot was born after the range, since the head was read before the
subscriptions (`SnapshotComplete`); what it has added covers the snapshot
(`SnapshotHanded`); and a first subscription resets the row only while nobody is
subscribed (`AddsAlone`).  `Refinement` maps every step to a step of `IndexCursor` or
a stutter: `AddUpsert` to `Restart`, `TaskLogs` and `TaskReceipts` to `Hand` or a
stutter, `TaskCommit` to `Advance`, or to a stutter when its transaction was closed.

### ContractEventsProofs

| Theorem | Assumptions | States |
|---|---|---|
| `TypeCorrect` | none | `[]TypeOK` |
| `CalledOnce` | none | `[]ReceivedOnce` |
| `FollowsCursor` | none | `CursorSpec` |
| `CursorLeavesNoGap` | `CursorSpec` | `[]NoGap` |

`TypeOK` needs that the cursor is on the chain (`CursorTypes`), that a webhook job that
waits has an attempt left and each stop of its worker was a fault (`HookTypes`), and
that a running handler's new rows are in the table (`InsertedFirst`).  `CallsAccounted`
makes `ReceivedOnce` an equation: the calls a URL accepted are those the worker did not
learn of, and one more if the job is done; requeries and shared URLs only try to add a
job that is there.  The last two theorems close the chain of modules: `ContractEvents` implements
`IndexCursor`, as `ChainIndexer` does, and `IndexCursor` leaves no gap.

### SettingsProofs

| Theorem | Assumptions | States |
|---|---|---|
| `TypeCorrect` | none | `[]TypeOK` |
| `AddedIsFound` | none | `[]NoFalseAbsence` |
| `OriginsKept` | none | `[]MandatoryOrigins` |
| `StalenessExplained` | none | `[]StaleHasReason` |

`TypeOK` needs that only a configuration is on its way to its default
(`DefaultsOfConfig`).  `NoFalseAbsence` is about the answer of a lookup, `FirmLookups`
about all its awaits: while nothing has removed the row, it is there, and what was read
of it is not empty.  `MandatoryOrigins` is about the row and the caches;
`CompleteLists` adds the lists that a handler holds between the cached value it
started from and its write.  `StaleHasReason` is inductive with the types: each
action either leaves cache and row equal, or sets one of the reasons.

### WriteRoutesProofs

| Theorem | Assumptions | States |
|---|---|---|
| `TypeCorrect` | none | `[]TypeOK` |
| `OnePerKey` | none | `[]KeyedOnce` |
| `RefusalsAreClean` | none | `[]RefusedLeavesNothing` |
| `AsAsked` | none | `[]SentAsAsked` |

`Progress` says that a handler before its first insert has done nothing and one that
is inserting has an item left; without it the types of `ids` are not inductive.
`KeyedOnce` rests on the lookup: a handler that hands the key on works on no other
queueId (`Keyed`), so that a key that was stored is found (`Found`) and a handler that
looks it up later stores nothing.  Two that both found nothing (`Passed`) therefore did
so before either stored, and the later lookup is in `raced` (`Apart`, which is about
handlers on their way to the store too).  All actions but the lookup and the store are
`Calm`: they leave what these are about.  `Unstored` says that only a route that
takes the option simulates, which the batch route does not (`BatchTakes`), and that a
single item is simulated before it is stored.  `AsAsked` rests on `RoutesHandOn`, which
goes through all the registered routes by the few ways their handlers are written, and
on `Recorded`: a record holds what its client's request kept.

Only model-checked: liveness (`GapFilled`, `Settles`, `CatchesUp`, `ItemsStored`,
`ItemsAnnounced`, `AnsweredGetsQueued`, `Converges`), which the prover does not do.
Every invariant of a passing run is also proved, under the assumptions above.

## 5. Not modelled

Gas values and encodings, key stores, the SDK, metrics, usage reports, websocket
updates: they do not change the state the properties are about.  `nonce-map` is
only read by an admin route.

* Authentication: `Settings` follows the lookups of tokens and keypairs; what the
  middleware decides from what it finds is a function of the request and keeps no
  state.
* Permissions, relayer rows, wallet rows: single statements on rows nobody caches.
* Routes that read, sign, simulate or pass a signed transaction on: they change
  nothing in the engine's stores.
* Caches of SDK and wallet objects: built from values that do not change while the
  process lives, or that a restart rereads.
* The restart of the managing cron when its schedule is changed, pruning of settled
  transactions, the one-off migration and the nonce health check.

## 6. Plan

1. Both nonce crons over several wallets: the resync run returns at the first wallet
   that needs nothing, although it "resyncs nonces for all wallets".
2. What the body of a transaction webhook says when it is delivered late: composition
   of `TxLifecycle` with the delivery part of `ContractEvents`.
3. Pruning and migration over TransactionDB while it is written, and the ranks they
   remove up to (`pruneNonceMaps` keeps `NONCE_MAP_COUNT - 1`).
4. Proofs: `NoLimbo` for transactions that are resent, with the overwriting resend as
   its exception; that `TxLifecycle`'s atomic submission is what `WalletNonce` does.
