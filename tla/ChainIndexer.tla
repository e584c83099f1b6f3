---------------------------- MODULE ChainIndexer ----------------------------
(***************************************************************************)
(* The indexing of one chain by several workers: the subscription routes,  *)
(* the cron that starts and stops a worker's indexer, and the indexer task,*)
(* a Postgres transaction that locks the chain_indexers row and, between   *)
(* awaits, reads the head, reads the subscriptions, adds jobs to two Redis *)
(* queues and moves lastIndexedBlock.  Chains do not share any state.      *)
(***************************************************************************)
EXTENDS IndexCursor

CONSTANTS
  Workers,          \* worker processes
  Tasks,            \* bound: runs of chainIndexerTask that may overlap
  None,             \* no task, no worker
  MaxBlocksToIndex, \* blocks a task may index at once
  ToBlockOffset,    \* blocks the indexer stays behind the head
  Lag,              \* bound: blocks an RPC node may be behind the chain
  OverlappingAdds,  \* input: may two add requests be in flight at once
  MaxHead,          \* bound: blocks produced
  MaxFaults         \* bound: crashes, timeouts and failed RPC, queue or DB calls

ASSUME IndexerAssumption ==
  /\ None \notin Tasks \cup Workers
  /\ MaxBlocksToIndex \in Nat \ {0} /\ ToBlockOffset \in Nat /\ Lag \in Nat
  /\ OverlappingAdds \in BOOLEAN
  /\ MaxHead \in Nat /\ MaxFaults \in Nat

VARIABLES
  addPc,     \* the add request of each subscription
  addHead,   \* and the block number it read
  lockedBy,  \* the task whose transaction holds the row lock
  pc,        \* the tasks: where each one is,
  owner,     \*   its worker,
  open,      \*   whether its transaction is still open,
  from,      \*   fromBlock,
  to,        \*   toBlock
  subs,      \*   and contractSubscriptions
  registry,  \* per worker: is the chain in INDEXER_REGISTRY
  started,   \* per worker: the task that set processStarted of the registered cron
  manage,    \* per worker: manageChainIndexers, "stuck" once it has thrown
  saw,       \* per worker: the chain was among the subscribed ones when it looked
  faults

addVars    == <<addPc, addHead>>
rangeVars  == <<owner, from, to, subs>>
taskVars   == <<lockedBy, pc, open, rangeVars>>
workerVars == <<registry, started, manage, saw>>
vars == <<cursorVars, addVars, taskVars, workerVars, faults>>

AddPCs  == {"idle", "first", "upsert", "create", "done"}
TaskPCs == {"idle", "locked", "ranged", "subscribed", "logsAdded", "receiptsAdded"}


TypeOK ==
  /\ head \in Nat /\ row \in Nat \cup {NoRow}
  /\ live \subseteq Subs /\ born \in [Subs -> Nat]
  /\ handed \subseteq [kind : Kinds, from : Nat, to : Nat, subs : SUBSET Subs]
  /\ addPc \in [Subs -> AddPCs] /\ addHead \in [Subs -> Nat]
  /\ lockedBy \in Tasks \cup {None}
  /\ pc \in [Tasks -> TaskPCs] /\ open \in [Tasks -> BOOLEAN]
  /\ owner \in [Tasks -> Workers \cup {None}]
  /\ from \in [Tasks -> Nat] /\ to \in [Tasks -> Nat]
  /\ subs \in [Tasks -> SUBSET Subs]
  /\ registry \in [Workers -> BOOLEAN]
  /\ started \in [Workers -> Tasks \cup {None}]
  /\ manage \in [Workers -> {"idle", "looked", "stuck"}]
  /\ saw \in [Workers -> BOOLEAN]
  /\ faults \in Nat

Init ==
  /\ CursorInit
  /\ addPc = [s \in Subs |-> "idle"] /\ addHead = [s \in Subs |-> 0]
  /\ lockedBy = None
  /\ pc = [t \in Tasks |-> "idle"] /\ open = [t \in Tasks |-> FALSE]
  /\ owner = [t \in Tasks |-> None]
  /\ from = [t \in Tasks |-> 0] /\ to = [t \in Tasks |-> 0]
  /\ subs = [t \in Tasks |-> {}]
  /\ registry = [w \in Workers |-> FALSE]
  /\ started = [w \in Workers |-> None]
  /\ manage = [w \in Workers |-> "idle"]
  /\ saw = [w \in Workers |-> FALSE]
  /\ faults = 0

\* A bounded number of things go wrong.
Fault == faults < MaxFaults /\ faults' = faults + 1

\* provider.getBlockNumber(): the node asked may be behind.
GetBlockNumber == {h \in 0..head : head - Lag <= h}

Produce ==
  /\ head < MaxHead /\ NewBlock
  /\ UNCHANGED <<addVars, taskVars, workerVars, faults>>

----------------------------------------------------------------------------
(* POST /contract-subscriptions/add and /remove                            *)

AddGoto(s, l) == addPc' = [addPc EXCEPT ![s] = l]

\* getContractSubscriptionsUniqueChainIds, awaited before anything is written.
AddCheck(s) ==
  /\ addPc[s] = "idle"
  /\ OverlappingAdds \/ \A u \in Subs : addPc[u] \in {"idle", "done"}
  /\ AddGoto(s, IF live = {} THEN "first" ELSE "create")
  /\ UNCHANGED <<cursorVars, addHead, taskVars, workerVars, faults>>

\* Mutant: indexing starts with the latest block itself.
AddHead_Inclusive(s) ==
  /\ addPc[s] = "first"
  /\ \E h \in GetBlockNumber : addHead' = [addHead EXCEPT ![s] = h - 1]
  /\ AddGoto(s, "upsert")
  /\ UNCHANGED <<cursorVars, taskVars, workerVars, faults>>

AddHead(s) ==
  /\ addPc[s] = "first"
  /\ \E h \in GetBlockNumber : addHead' = [addHead EXCEPT ![s] = h]
  /\ AddGoto(s, "upsert")
  /\ UNCHANGED <<cursorVars, taskVars, workerVars, faults>>

\* upsertChainIndexer outside of a transaction: waits for the row lock.
AddUpsert(s) ==
  /\ addPc[s] = "upsert" /\ lockedBy = None
  /\ row' = addHead[s]
  /\ AddGoto(s, "create")
  /\ UNCHANGED <<head, live, born, handed, addHead, taskVars, workerVars, faults>>

\* Any failure of the two calls above is swallowed.
AddSwallow(s) ==
  /\ addPc[s] \in {"first", "upsert"} /\ Fault
  /\ AddGoto(s, "create")
  /\ UNCHANGED <<cursorVars, addHead, taskVars, workerVars>>

AddCreate(s) ==
  /\ addPc[s] = "create" /\ Subscribe(s)
  /\ AddGoto(s, "done")
  /\ addHead' = [addHead EXCEPT ![s] = 0]
  /\ UNCHANGED <<taskVars, workerVars, faults>>

\* An invalid webhook URL is refused only now; or the server stops.
AddRefuse(s) ==
  /\ addPc[s] = "create"
  /\ AddGoto(s, "done")
  /\ addHead' = [addHead EXCEPT ![s] = 0]
  /\ UNCHANGED <<cursorVars, taskVars, workerVars, faults>>

RemoveSubscription(s) ==
  /\ Unsubscribe(s)
  /\ UNCHANGED <<addVars, taskVars, workerVars, faults>>

----------------------------------------------------------------------------
(* manageChainIndexers, run by a cron of every worker                      *)

ManageLook(w) ==
  /\ manage[w] = "idle"
  /\ manage' = [manage EXCEPT ![w] = "looked"]
  /\ saw' = [saw EXCEPT ![w] = live # {}]
  /\ UNCHANGED <<cursorVars, addVars, taskVars, registry, started, faults>>

\* addChainIndexer (a new closure, with its own processStarted) or removeChainIndexer
\* (a task that is running goes on).
ManageApply(w) ==
  /\ manage[w] = "looked"
  /\ manage' = [manage EXCEPT ![w] = "idle"]
  /\ registry' = [registry EXCEPT ![w] = saw[w]]
  /\ started' = [started EXCEPT ![w] = IF saw[w] /\ ~registry[w] THEN None ELSE started[w]]
  /\ saw' = [saw EXCEPT ![w] = FALSE]
  /\ UNCHANGED <<cursorVars, addVars, taskVars, faults>>

\* A rejected manageChainIndexers() leaves processChainIndexerStarted set for ever.
ManageThrow(w) ==
  /\ manage[w] = "looked" /\ Fault
  /\ manage' = [manage EXCEPT ![w] = "stuck"]
  /\ UNCHANGED <<cursorVars, addVars, taskVars, registry, started, saw>>

----------------------------------------------------------------------------
(* chainIndexerTask                                                        *)

Goto(t, l) == pc' = [pc EXCEPT ![t] = l]

\* The transaction of t ends, whether it commits or rolls back.
Unlock(t) == lockedBy' = IF lockedBy = t THEN None ELSE lockedBy

\* The task is over; what it held in local variables is gone.
Ended(T) ==
  /\ pc' = [t \in Tasks |-> IF t \in T THEN "idle" ELSE pc[t]]
  /\ open' = [t \in Tasks |-> IF t \in T THEN FALSE ELSE open[t]]
  /\ owner' = [t \in Tasks |-> IF t \in T THEN None ELSE owner[t]]
  /\ from' = [t \in Tasks |-> IF t \in T THEN 0 ELSE from[t]]
  /\ to' = [t \in Tasks |-> IF t \in T THEN 0 ELSE to[t]]
  /\ subs' = [t \in Tasks |-> IF t \in T THEN {} ELSE subs[t]]

\* Mutant: processStarted is not reset.
Finish_StaysStarted(t) == Ended({t}) /\ Unlock(t) /\ UNCHANGED started

\* finally { processStarted = false } of the closure that started t.
Finish(t) ==
  /\ Ended({t})
  /\ started' = [w \in Workers |-> IF started[w] = t THEN None ELSE started[w]]
  /\ Unlock(t)

\* The cron fires and getBlockForIndexing takes the lock; when the row is locked
\* or missing the run returns having changed nothing.
TaskStart(w, t) ==
  /\ registry[w] /\ started[w] = None
  /\ pc[t] = "idle"
  /\ lockedBy = None /\ row # NoRow
  /\ lockedBy' = t
  /\ started' = [started EXCEPT ![w] = t]
  /\ Goto(t, "locked")
  /\ open' = [open EXCEPT ![t] = TRUE]
  /\ owner' = [owner EXCEPT ![t] = w]
  /\ from' = [from EXCEPT ![t] = row]
  /\ UNCHANGED <<cursorVars, addVars, to, subs, registry, manage, saw, faults>>

\* toBlock, from the head some RPC node reports.
ToBlock(t, h) ==
  IF h - ToBlockOffset < from[t] + MaxBlocksToIndex
  THEN h - ToBlockOffset ELSE from[t] + MaxBlocksToIndex

\* The head is read and the range fixed ...
TaskRange(t) ==
  /\ pc[t] = "locked"
  /\ \E h \in GetBlockNumber : from[t] < ToBlock(t, h) /\ to' = [to EXCEPT ![t] = ToBlock(t, h)]
  /\ Goto(t, "ranged")
  /\ UNCHANGED <<cursorVars, addVars, lockedBy, open, owner, from, subs, workerVars, faults>>

\* ... or fromBlock is up to date.
TaskUpToDate(t) ==
  /\ pc[t] = "locked"
  /\ \E h \in GetBlockNumber : from[t] >= ToBlock(t, h)
  /\ Finish(t)
  /\ UNCHANGED <<cursorVars, addVars, registry, manage, saw, faults>>

\* getContractSubscriptionsByChainId, not through the transaction.
TaskSubs(t) ==
  /\ pc[t] = "ranged"
  /\ subs' = [subs EXCEPT ![t] = live]
  /\ Goto(t, "subscribed")
  /\ UNCHANGED <<cursorVars, addVars, lockedBy, open, owner, from, to, workerVars, faults>>

\* Mutant: a kind is queried only when every subscription wants it.
AddJobs_Every(t, k) ==
  LET S == {s \in subs[t] : k \in Wants[s]} IN
  handed' = IF S = {} \/ S # subs[t] THEN handed
            ELSE handed \cup {BlockRange(k, from[t], to[t], S)}

\* Queue.add of the range, when some subscription wants this kind.
AddJobs(t, k) ==
  LET S == {s \in subs[t] : k \in Wants[s]} IN
  handed' = IF S = {} THEN handed ELSE handed \cup {BlockRange(k, from[t], to[t], S)}

TaskLogs(t) ==
  /\ pc[t] = "subscribed"
  /\ AddJobs(t, "logs")
  /\ Goto(t, "logsAdded")
  /\ UNCHANGED <<head, row, live, born, addVars, lockedBy, open, rangeVars, workerVars, faults>>

TaskReceipts(t) ==
  /\ pc[t] = "logsAdded"
  /\ AddJobs(t, "receipts")
  /\ Goto(t, "receiptsAdded")
  /\ UNCHANGED <<head, row, live, born, addVars, lockedBy, open, rangeVars, workerVars, faults>>

\* Mutant: lastIndexedBlock is written outside of the transaction.
TaskCommit_NoTransaction(t) ==
  /\ pc[t] = "receiptsAdded"
  /\ row' = to[t]
  /\ Finish(t)
  /\ UNCHANGED <<head, live, born, handed, addVars, registry, manage, saw, faults>>

\* upsertChainIndexer through the transaction, and the commit; both come to nothing
\* when the transaction was closed meanwhile.
TaskCommit(t) ==
  /\ pc[t] = "receiptsAdded"
  /\ row' = IF open[t] THEN to[t] ELSE row
  /\ Finish(t)
  /\ UNCHANGED <<head, live, born, handed, addVars, registry, manage, saw, faults>>

\* Prisma closes the transaction after a minute; the callback runs on.
TaskTimeout(t) ==
  /\ pc[t] # "idle" /\ open[t] /\ Fault
  /\ open' = [open EXCEPT ![t] = FALSE]
  /\ Unlock(t)
  /\ UNCHANGED <<cursorVars, addVars, pc, rangeVars, workerVars>>

\* An RPC, queue or DB call throws, or the block is not available yet.
TaskThrow(t) ==
  /\ pc[t] # "idle" /\ Fault
  /\ Finish(t)
  /\ UNCHANGED <<cursorVars, addVars, registry, manage, saw>>

\* The worker process stops and is started again.
Crash(w) ==
  /\ Fault
  /\ Ended({t \in Tasks : owner[t] = w})
  /\ lockedBy' = IF \E t \in Tasks : lockedBy = t /\ owner[t] = w THEN None ELSE lockedBy
  /\ registry' = [registry EXCEPT ![w] = FALSE]
  /\ started' = [started EXCEPT ![w] = None]
  /\ manage' = [manage EXCEPT ![w] = "idle"]
  /\ saw' = [saw EXCEPT ![w] = FALSE]
  /\ UNCHANGED <<cursorVars, addVars>>

----------------------------------------------------------------------------
AddStep(s)  == AddCheck(s) \/ AddHead(s) \/ AddUpsert(s) \/ AddCreate(s)
TaskStep(t) == \/ TaskRange(t) \/ TaskUpToDate(t) \/ TaskSubs(t)
               \/ TaskLogs(t) \/ TaskReceipts(t) \/ TaskCommit(t)

Next ==
  \/ Produce
  \/ \E s \in Subs : AddStep(s) \/ AddSwallow(s) \/ AddRefuse(s) \/ RemoveSubscription(s)
  \/ \E w \in Workers : ManageLook(w) \/ ManageApply(w) \/ ManageThrow(w) \/ Crash(w)
  \/ \E w \in Workers, t \in Tasks : TaskStart(w, t)
  \/ \E t \in Tasks : TaskStep(t) \/ TaskTimeout(t) \/ TaskThrow(t)

Spec == Init /\ [][Next]_vars

\* The crons of every worker keep firing and a task that runs goes on; clients and
\* the chain owe nothing.
FairSpec ==
  /\ Spec
  /\ \A w \in Workers : WF_vars(ManageLook(w)) /\ WF_vars(ManageApply(w))
                        /\ WF_vars(\E t \in Tasks : TaskStart(w, t))
  /\ \A t \in Tasks : WF_vars(TaskStep(t))

----------------------------------------------------------------------------
Stuck == \E w \in Workers : manage[w] = "stuck"

\* A block that was produced, and is old enough, gets indexed as long as someone is
\* subscribed, whatever crashed, timed out or was removed and added again.
CatchesUp ==
  \A b \in 1..MaxHead :
    (row # NoRow /\ live # {} /\ head - ToBlockOffset - Lag >= b) ~> (row >= b \/ live = {} \/ Stuck)

Cursor == INSTANCE IndexCursor WITH head <- head, row <- row, live <- live,
                                    born <- born, handed <- handed

\* The workers' interleaved, crashing and timing-out transactions look like the one
\* cursor of IndexCursor: it advances only over blocks everyone was handed.
ImplementsCursor == Cursor!CursorSpec
=============================================================================
