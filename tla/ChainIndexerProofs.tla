------------------------- MODULE ChainIndexerProofs -------------------------
(***************************************************************************)
(* ChainIndexer, for any number of workers, overlapping tasks, blocks and  *)
(* faults: types, no skipped block, and the refinement of IndexCursor, as  *)
(* long as add requests do not overlap.                                    *)
(***************************************************************************)
EXTENDS ChainIndexer, TLAPS

Ranged  == {"ranged", "subscribed", "logsAdded", "receiptsAdded"}
Read    == {"subscribed", "logsAdded", "receiptsAdded"}
After(k) == IF k = "logs" THEN {"logsAdded", "receiptsAdded"} ELSE {"receiptsAdded"}

\* The row is on the chain, and so is every head an add request has read.
RowOnChain ==
  /\ row <= head
  /\ \A s \in Subs : addPc[s] = "upsert" => addHead[s] <= head

\* A task that still has its transaction holds the lock and its row.
RowIsLocked ==
  \A t \in Tasks : pc[t] # "idle" /\ open[t] => lockedBy = t /\ row = from[t]

\* The range of a task is not empty and ends on the chain.
RangeOnChain ==
  \A t \in Tasks : pc[t] \in Ranged => from[t] < to[t] /\ to[t] <= head

\* Who is not in a task's snapshot came after the blocks of its range.
SnapshotComplete ==
  \A t \in Tasks : pc[t] \in Read => \A s \in live : s \in subs[t] \/ to[t] <= born[s]

\* What a task has added to the queues covers its snapshot.
SnapshotHanded ==
  \A t \in Tasks, k \in Kinds : pc[t] \in After(k) =>
    \A s \in subs[t] : k \in Wants[s] =>
      \E r \in handed : r.kind = k /\ s \in r.subs /\ r.from = from[t] /\ r.to = to[t]

\* One add request at a time, and none is a first one while someone is subscribed.
AddsAlone ==
  /\ \A s \in Subs : addPc[s] \in {"first", "upsert"} => live = {}
  /\ \A s, u \in Subs : s # u => addPc[s] \in {"idle", "done"} \/ addPc[u] \in {"idle", "done"}

Inv == /\ TypeOK /\ RowOnChain /\ RowIsLocked /\ RangeOnChain
       /\ SnapshotComplete /\ SnapshotHanded /\ AddsAlone /\ NoGap

----------------------------------------------------------------------------
(* Types                                                                   *)

\* Ending tasks (finally blocks, or the process stopping) keeps the types of what
\* tasks hold.
LEMMA EndedTypes ==
  ASSUME TypeOK, NEW T, Ended(T)
  PROVE  /\ pc' \in [Tasks -> TaskPCs] /\ open' \in [Tasks -> BOOLEAN]
         /\ owner' \in [Tasks -> Workers \cup {None}]
         /\ from' \in [Tasks -> Nat] /\ to' \in [Tasks -> Nat]
         /\ subs' \in [Tasks -> SUBSET Subs]
  BY DEF TypeOK, Ended, TaskPCs

\* Every step keeps the types.
LEMMA TypeStep ==
  ASSUME TypeOK, [Next]_vars
  PROVE  TypeOK'
<1> USE DEF TypeOK, TaskPCs, AddPCs, vars, cursorVars, addVars, taskVars, rangeVars, workerVars, Kinds, NoRow
<1>1. CASE Produce
  BY <1>1, IndexerAssumption DEF Produce, NewBlock
<1>2. ASSUME NEW s \in Subs, AddCheck(s) PROVE TypeOK'
  BY <1>2, IndexerAssumption DEF AddCheck, AddGoto
<1>3. ASSUME NEW s \in Subs, AddHead(s) PROVE TypeOK'
  BY <1>3, IndexerAssumption DEF AddHead, GetBlockNumber, AddGoto
<1>4. ASSUME NEW s \in Subs, AddUpsert(s) PROVE TypeOK'
  BY <1>4, IndexerAssumption DEF AddUpsert, AddGoto
<1>5. ASSUME NEW s \in Subs, AddSwallow(s) PROVE TypeOK'
  BY <1>5, IndexerAssumption DEF AddSwallow, Fault, AddGoto
<1>6. ASSUME NEW s \in Subs, AddCreate(s) PROVE TypeOK'
  BY <1>6, IndexerAssumption DEF AddCreate, Subscribe, AddGoto
<1>7. ASSUME NEW s \in Subs, AddRefuse(s) PROVE TypeOK'
  BY <1>7, IndexerAssumption DEF AddRefuse, AddGoto
<1>8. ASSUME NEW s \in Subs, RemoveSubscription(s) PROVE TypeOK'
  BY <1>8, IndexerAssumption DEF RemoveSubscription, Unsubscribe
<1>9. ASSUME NEW w \in Workers, ManageLook(w) PROVE TypeOK'
  BY <1>9, IndexerAssumption DEF ManageLook
<1>10. ASSUME NEW w \in Workers, ManageApply(w) PROVE TypeOK'
  BY <1>10, IndexerAssumption DEF ManageApply
<1>11. ASSUME NEW w \in Workers, ManageThrow(w) PROVE TypeOK'
  BY <1>11, IndexerAssumption DEF ManageThrow, Fault
<1>12. ASSUME NEW w \in Workers, Crash(w) PROVE TypeOK'
  <2>1. Ended({t \in Tasks : owner[t] = w})
    BY <1>12 DEF Crash
  <2> HIDE DEF TaskPCs
  <2> QED BY <1>12, <2>1, EndedTypes, IndexerAssumption DEF Crash, Fault
<1>13. ASSUME NEW w \in Workers, NEW t \in Tasks, TaskStart(w, t) PROVE TypeOK'
  BY <1>13, IndexerAssumption DEF TaskStart, Goto
<1>14. ASSUME NEW t \in Tasks, TaskRange(t) PROVE TypeOK'
  BY <1>14, IndexerAssumption DEF TaskRange, Goto, ToBlock, GetBlockNumber
<1>15. ASSUME NEW t \in Tasks, TaskUpToDate(t) PROVE TypeOK'
  <2>1. Ended({t})
    BY <1>15 DEF TaskUpToDate, Finish
  <2> HIDE DEF TaskPCs
  <2> QED BY <1>15, <2>1, EndedTypes, IndexerAssumption DEF TaskUpToDate, Finish, Unlock
<1>16. ASSUME NEW t \in Tasks, TaskSubs(t) PROVE TypeOK'
  BY <1>16, IndexerAssumption DEF TaskSubs, Goto
<1>17. ASSUME NEW t \in Tasks, TaskLogs(t) PROVE TypeOK'
  BY <1>17, IndexerAssumption DEF TaskLogs, AddJobs, BlockRange, Goto
<1>18. ASSUME NEW t \in Tasks, TaskReceipts(t) PROVE TypeOK'
  BY <1>18, IndexerAssumption DEF TaskReceipts, AddJobs, BlockRange, Goto
<1>19. ASSUME NEW t \in Tasks, TaskCommit(t) PROVE TypeOK'
  <2>1. Ended({t})
    BY <1>19 DEF TaskCommit, Finish
  <2> HIDE DEF TaskPCs
  <2> QED BY <1>19, <2>1, EndedTypes, IndexerAssumption DEF TaskCommit, Finish, Unlock
<1>20. ASSUME NEW t \in Tasks, TaskTimeout(t) PROVE TypeOK'
  BY <1>20, IndexerAssumption DEF TaskTimeout, Unlock, Fault
<1>21. ASSUME NEW t \in Tasks, TaskThrow(t) PROVE TypeOK'
  <2>1. Ended({t})
    BY <1>21 DEF TaskThrow, Finish
  <2> HIDE DEF TaskPCs
  <2> QED BY <1>21, <2>1, EndedTypes, IndexerAssumption DEF TaskThrow, Finish, Unlock, Fault
<1>22. CASE UNCHANGED vars
  BY <1>22, IndexerAssumption
<1> QED BY <1>1, <1>2, <1>3, <1>4, <1>5, <1>6, <1>7, <1>8, <1>9, <1>10, <1>11, <1>12, <1>13, <1>14, <1>15, <1>16, <1>17, <1>18, <1>19, <1>20, <1>21, <1>22 DEF Next, AddStep, TaskStep

\* Init and every step satisfy the types: every run of the routes, crons and tasks
\* keeps each variable in its domain.
THEOREM TypeCorrect == Spec => []TypeOK
<1>1. Init => TypeOK
  BY IndexerAssumption, CursorAssumption
  DEF Init, CursorInit, TypeOK, TaskPCs, AddPCs, NoRow
<1>2. TypeOK /\ [Next]_vars => TypeOK'
  BY TypeStep
<1> QED BY <1>1, <1>2, PTL DEF Spec

----------------------------------------------------------------------------
(* The parts of the inductive invariant                                    *)

\* The row, the heads that were read and the ranges stay on the chain: blocks are
\* only added, and a task commits a range it fixed below the head.
LEMMA OnChainStep ==
  ASSUME TypeOK, RowOnChain, RangeOnChain, [Next]_vars
  PROVE  RowOnChain' /\ RangeOnChain'
<1> USE DEF TypeOK, RowOnChain, RangeOnChain, Ranged, NoRow, vars, cursorVars, addVars, taskVars, rangeVars, workerVars
<1>1. CASE Produce
  BY <1>1, IndexerAssumption DEF Produce, NewBlock
<1>2. ASSUME NEW s \in Subs, AddCheck(s) PROVE RowOnChain' /\ RangeOnChain'
  BY <1>2, IndexerAssumption DEF AddCheck, AddGoto
<1>3. ASSUME NEW s \in Subs, AddHead(s) PROVE RowOnChain' /\ RangeOnChain'
  BY <1>3, IndexerAssumption DEF AddHead, GetBlockNumber, AddGoto
<1>4. ASSUME NEW s \in Subs, AddUpsert(s) PROVE RowOnChain' /\ RangeOnChain'
  BY <1>4, IndexerAssumption DEF AddUpsert, AddGoto
<1>5. ASSUME NEW s \in Subs, AddSwallow(s) PROVE RowOnChain' /\ RangeOnChain'
  BY <1>5, IndexerAssumption DEF AddSwallow, Fault, AddGoto
<1>6. ASSUME NEW s \in Subs, AddCreate(s) PROVE RowOnChain' /\ RangeOnChain'
  BY <1>6, IndexerAssumption DEF AddCreate, Subscribe, AddGoto
<1>7. ASSUME NEW s \in Subs, AddRefuse(s) PROVE RowOnChain' /\ RangeOnChain'
  BY <1>7, IndexerAssumption DEF AddRefuse, AddGoto
<1>8. ASSUME NEW s \in Subs, RemoveSubscription(s) PROVE RowOnChain' /\ RangeOnChain'
  BY <1>8, IndexerAssumption DEF RemoveSubscription, Unsubscribe
<1>9. ASSUME NEW w \in Workers, ManageLook(w) PROVE RowOnChain' /\ RangeOnChain'
  BY <1>9, IndexerAssumption DEF ManageLook
<1>10. ASSUME NEW w \in Workers, ManageApply(w) PROVE RowOnChain' /\ RangeOnChain'
  BY <1>10, IndexerAssumption DEF ManageApply
<1>11. ASSUME NEW w \in Workers, ManageThrow(w) PROVE RowOnChain' /\ RangeOnChain'
  BY <1>11, IndexerAssumption DEF ManageThrow, Fault
<1>12. ASSUME NEW w \in Workers, Crash(w) PROVE RowOnChain' /\ RangeOnChain'
  BY <1>12, IndexerAssumption DEF Crash, Fault, Ended
<1>13. ASSUME NEW w \in Workers, NEW t \in Tasks, TaskStart(w, t) PROVE RowOnChain' /\ RangeOnChain'
  BY <1>13, IndexerAssumption DEF TaskStart, Goto
<1>14. ASSUME NEW t \in Tasks, TaskRange(t) PROVE RowOnChain' /\ RangeOnChain'
  BY <1>14, IndexerAssumption DEF TaskRange, Goto, ToBlock, GetBlockNumber
<1>15. ASSUME NEW t \in Tasks, TaskUpToDate(t) PROVE RowOnChain' /\ RangeOnChain'
  BY <1>15, IndexerAssumption DEF TaskUpToDate, Finish, Ended, Unlock
<1>16. ASSUME NEW t \in Tasks, TaskSubs(t) PROVE RowOnChain' /\ RangeOnChain'
  BY <1>16, IndexerAssumption DEF TaskSubs, Goto
<1>17. ASSUME NEW t \in Tasks, TaskLogs(t) PROVE RowOnChain' /\ RangeOnChain'
  BY <1>17, IndexerAssumption DEF TaskLogs, AddJobs, BlockRange, Goto
<1>18. ASSUME NEW t \in Tasks, TaskReceipts(t) PROVE RowOnChain' /\ RangeOnChain'
  BY <1>18, IndexerAssumption DEF TaskReceipts, AddJobs, BlockRange, Goto
<1>19. ASSUME NEW t \in Tasks, TaskCommit(t) PROVE RowOnChain' /\ RangeOnChain'
  BY <1>19, IndexerAssumption DEF TaskCommit, Finish, Ended, Unlock
<1>20. ASSUME NEW t \in Tasks, TaskTimeout(t) PROVE RowOnChain' /\ RangeOnChain'
  BY <1>20, IndexerAssumption DEF TaskTimeout, Unlock, Fault
<1>21. ASSUME NEW t \in Tasks, TaskThrow(t) PROVE RowOnChain' /\ RangeOnChain'
  BY <1>21, IndexerAssumption DEF TaskThrow, Finish, Ended, Unlock, Fault
<1>22. CASE UNCHANGED vars
  BY <1>22, IndexerAssumption
<1> QED BY <1>1, <1>2, <1>3, <1>4, <1>5, <1>6, <1>7, <1>8, <1>9, <1>10, <1>11, <1>12, <1>13, <1>14, <1>15, <1>16, <1>17, <1>18, <1>19, <1>20, <1>21, <1>22 DEF Next, AddStep, TaskStep

\* The row changes only under its lock: NOWAIT keeps a second task out, and an add
\* request's upsert waits.
LEMMA LockStep ==
  ASSUME TypeOK, RowIsLocked, [Next]_vars
  PROVE  RowIsLocked'
<1> USE DEF TypeOK, RowIsLocked, NoRow, vars, cursorVars, addVars, taskVars, rangeVars, workerVars
<1>1. CASE Produce
  BY <1>1, IndexerAssumption DEF Produce, NewBlock
<1>2. ASSUME NEW s \in Subs, AddCheck(s) PROVE RowIsLocked'
  BY <1>2, IndexerAssumption DEF AddCheck, AddGoto
<1>3. ASSUME NEW s \in Subs, AddHead(s) PROVE RowIsLocked'
  BY <1>3, IndexerAssumption DEF AddHead, GetBlockNumber, AddGoto
<1>4. ASSUME NEW s \in Subs, AddUpsert(s) PROVE RowIsLocked'
  BY <1>4, IndexerAssumption DEF AddUpsert, AddGoto
<1>5. ASSUME NEW s \in Subs, AddSwallow(s) PROVE RowIsLocked'
  BY <1>5, IndexerAssumption DEF AddSwallow, Fault, AddGoto
<1>6. ASSUME NEW s \in Subs, AddCreate(s) PROVE RowIsLocked'
  BY <1>6, IndexerAssumption DEF AddCreate, Subscribe, AddGoto
<1>7. ASSUME NEW s \in Subs, AddRefuse(s) PROVE RowIsLocked'
  BY <1>7, IndexerAssumption DEF AddRefuse, AddGoto
<1>8. ASSUME NEW s \in Subs, RemoveSubscription(s) PROVE RowIsLocked'
  BY <1>8, IndexerAssumption DEF RemoveSubscription, Unsubscribe
<1>9. ASSUME NEW w \in Workers, ManageLook(w) PROVE RowIsLocked'
  BY <1>9, IndexerAssumption DEF ManageLook
<1>10. ASSUME NEW w \in Workers, ManageApply(w) PROVE RowIsLocked'
  BY <1>10, IndexerAssumption DEF ManageApply
<1>11. ASSUME NEW w \in Workers, ManageThrow(w) PROVE RowIsLocked'
  BY <1>11, IndexerAssumption DEF ManageThrow, Fault
<1>12. ASSUME NEW w \in Workers, Crash(w) PROVE RowIsLocked'
  BY <1>12, IndexerAssumption DEF Crash, Fault, Ended
<1>13. ASSUME NEW w \in Workers, NEW t \in Tasks, TaskStart(w, t) PROVE RowIsLocked'
  BY <1>13, IndexerAssumption DEF TaskStart, Goto
<1>14. ASSUME NEW t \in Tasks, TaskRange(t) PROVE RowIsLocked'
  BY <1>14, IndexerAssumption DEF TaskRange, Goto, ToBlock, GetBlockNumber
<1>15. ASSUME NEW t \in Tasks, TaskUpToDate(t) PROVE RowIsLocked'
  BY <1>15, IndexerAssumption DEF TaskUpToDate, Finish, Ended, Unlock
<1>16. ASSUME NEW t \in Tasks, TaskSubs(t) PROVE RowIsLocked'
  BY <1>16, IndexerAssumption DEF TaskSubs, Goto
<1>17. ASSUME NEW t \in Tasks, TaskLogs(t) PROVE RowIsLocked'
  BY <1>17, IndexerAssumption DEF TaskLogs, AddJobs, BlockRange, Goto
<1>18. ASSUME NEW t \in Tasks, TaskReceipts(t) PROVE RowIsLocked'
  BY <1>18, IndexerAssumption DEF TaskReceipts, AddJobs, BlockRange, Goto
<1>19. ASSUME NEW t \in Tasks, TaskCommit(t) PROVE RowIsLocked'
  BY <1>19, IndexerAssumption DEF TaskCommit, Finish, Ended, Unlock
<1>20. ASSUME NEW t \in Tasks, TaskTimeout(t) PROVE RowIsLocked'
  BY <1>20, IndexerAssumption DEF TaskTimeout, Unlock, Fault
<1>21. ASSUME NEW t \in Tasks, TaskThrow(t) PROVE RowIsLocked'
  BY <1>21, IndexerAssumption DEF TaskThrow, Finish, Ended, Unlock, Fault
<1>22. CASE UNCHANGED vars
  BY <1>22, IndexerAssumption
<1> QED BY <1>1, <1>2, <1>3, <1>4, <1>5, <1>6, <1>7, <1>8, <1>9, <1>10, <1>11, <1>12, <1>13, <1>14, <1>15, <1>16, <1>17, <1>18, <1>19, <1>20, <1>21, <1>22 DEF Next, AddStep, TaskStep

\* Who subscribes after a task has read the subscriptions is born at a head no lower
\* than the task's last block: the head was read before the subscriptions.
LEMMA SnapshotStep ==
  ASSUME TypeOK, RangeOnChain, SnapshotComplete, [Next]_vars
  PROVE  SnapshotComplete'
<1> USE DEF TypeOK, RangeOnChain, SnapshotComplete, Ranged, Read, vars, cursorVars, addVars, taskVars, rangeVars, workerVars
<1>1. CASE Produce
  BY <1>1, IndexerAssumption DEF Produce, NewBlock
<1>2. ASSUME NEW s \in Subs, AddCheck(s) PROVE SnapshotComplete'
  BY <1>2, IndexerAssumption DEF AddCheck, AddGoto
<1>3. ASSUME NEW s \in Subs, AddHead(s) PROVE SnapshotComplete'
  BY <1>3, IndexerAssumption DEF AddHead, GetBlockNumber, AddGoto
<1>4. ASSUME NEW s \in Subs, AddUpsert(s) PROVE SnapshotComplete'
  BY <1>4, IndexerAssumption DEF AddUpsert, AddGoto
<1>5. ASSUME NEW s \in Subs, AddSwallow(s) PROVE SnapshotComplete'
  BY <1>5, IndexerAssumption DEF AddSwallow, Fault, AddGoto
<1>6. ASSUME NEW s \in Subs, AddCreate(s) PROVE SnapshotComplete'
  BY <1>6, IndexerAssumption DEF AddCreate, Subscribe, AddGoto
<1>7. ASSUME NEW s \in Subs, AddRefuse(s) PROVE SnapshotComplete'
  BY <1>7, IndexerAssumption DEF AddRefuse, AddGoto
<1>8. ASSUME NEW s \in Subs, RemoveSubscription(s) PROVE SnapshotComplete'
  BY <1>8, IndexerAssumption DEF RemoveSubscription, Unsubscribe
<1>9. ASSUME NEW w \in Workers, ManageLook(w) PROVE SnapshotComplete'
  BY <1>9, IndexerAssumption DEF ManageLook
<1>10. ASSUME NEW w \in Workers, ManageApply(w) PROVE SnapshotComplete'
  BY <1>10, IndexerAssumption DEF ManageApply
<1>11. ASSUME NEW w \in Workers, ManageThrow(w) PROVE SnapshotComplete'
  BY <1>11, IndexerAssumption DEF ManageThrow, Fault
<1>12. ASSUME NEW w \in Workers, Crash(w) PROVE SnapshotComplete'
  BY <1>12, IndexerAssumption DEF Crash, Fault, Ended
<1>13. ASSUME NEW w \in Workers, NEW t \in Tasks, TaskStart(w, t) PROVE SnapshotComplete'
  BY <1>13, IndexerAssumption DEF TaskStart, Goto
<1>14. ASSUME NEW t \in Tasks, TaskRange(t) PROVE SnapshotComplete'
  BY <1>14, IndexerAssumption DEF TaskRange, Goto, ToBlock, GetBlockNumber
<1>15. ASSUME NEW t \in Tasks, TaskUpToDate(t) PROVE SnapshotComplete'
  BY <1>15, IndexerAssumption DEF TaskUpToDate, Finish, Ended, Unlock
<1>16. ASSUME NEW t \in Tasks, TaskSubs(t) PROVE SnapshotComplete'
  BY <1>16, IndexerAssumption DEF TaskSubs, Goto
<1>17. ASSUME NEW t \in Tasks, TaskLogs(t) PROVE SnapshotComplete'
  BY <1>17, IndexerAssumption DEF TaskLogs, AddJobs, BlockRange, Goto
<1>18. ASSUME NEW t \in Tasks, TaskReceipts(t) PROVE SnapshotComplete'
  BY <1>18, IndexerAssumption DEF TaskReceipts, AddJobs, BlockRange, Goto
<1>19. ASSUME NEW t \in Tasks, TaskCommit(t) PROVE SnapshotComplete'
  BY <1>19, IndexerAssumption DEF TaskCommit, Finish, Ended, Unlock
<1>20. ASSUME NEW t \in Tasks, TaskTimeout(t) PROVE SnapshotComplete'
  BY <1>20, IndexerAssumption DEF TaskTimeout, Unlock, Fault
<1>21. ASSUME NEW t \in Tasks, TaskThrow(t) PROVE SnapshotComplete'
  BY <1>21, IndexerAssumption DEF TaskThrow, Finish, Ended, Unlock, Fault
<1>22. CASE UNCHANGED vars
  BY <1>22, IndexerAssumption
<1> QED BY <1>1, <1>2, <1>3, <1>4, <1>5, <1>6, <1>7, <1>8, <1>9, <1>10, <1>11, <1>12, <1>13, <1>14, <1>15, <1>16, <1>17, <1>18, <1>19, <1>20, <1>21, <1>22 DEF Next, AddStep, TaskStep

\* Jobs are added before the task moves on, and the history of jobs only grows.
LEMMA HandedStep ==
  ASSUME TypeOK, SnapshotHanded, [Next]_vars
  PROVE  SnapshotHanded'
<1> USE DEF TypeOK, SnapshotHanded, After, Kinds, vars, cursorVars, addVars, taskVars, rangeVars, workerVars
<1>1. CASE Produce
  BY <1>1, IndexerAssumption DEF Produce, NewBlock
<1>2. ASSUME NEW s \in Subs, AddCheck(s) PROVE SnapshotHanded'
  BY <1>2, IndexerAssumption DEF AddCheck, AddGoto
<1>3. ASSUME NEW s \in Subs, AddHead(s) PROVE SnapshotHanded'
  BY <1>3, IndexerAssumption DEF AddHead, GetBlockNumber, AddGoto
<1>4. ASSUME NEW s \in Subs, AddUpsert(s) PROVE SnapshotHanded'
  BY <1>4, IndexerAssumption DEF AddUpsert, AddGoto
<1>5. ASSUME NEW s \in Subs, AddSwallow(s) PROVE SnapshotHanded'
  BY <1>5, IndexerAssumption DEF AddSwallow, Fault, AddGoto
<1>6. ASSUME NEW s \in Subs, AddCreate(s) PROVE SnapshotHanded'
  BY <1>6, IndexerAssumption DEF AddCreate, Subscribe, AddGoto
<1>7. ASSUME NEW s \in Subs, AddRefuse(s) PROVE SnapshotHanded'
  BY <1>7, IndexerAssumption DEF AddRefuse, AddGoto
<1>8. ASSUME NEW s \in Subs, RemoveSubscription(s) PROVE SnapshotHanded'
  BY <1>8, IndexerAssumption DEF RemoveSubscription, Unsubscribe
<1>9. ASSUME NEW w \in Workers, ManageLook(w) PROVE SnapshotHanded'
  BY <1>9, IndexerAssumption DEF ManageLook
<1>10. ASSUME NEW w \in Workers, ManageApply(w) PROVE SnapshotHanded'
  BY <1>10, IndexerAssumption DEF ManageApply
<1>11. ASSUME NEW w \in Workers, ManageThrow(w) PROVE SnapshotHanded'
  BY <1>11, IndexerAssumption DEF ManageThrow, Fault
<1>12. ASSUME NEW w \in Workers, Crash(w) PROVE SnapshotHanded'
  BY <1>12, IndexerAssumption DEF Crash, Fault, Ended
<1>13. ASSUME NEW w \in Workers, NEW t \in Tasks, TaskStart(w, t) PROVE SnapshotHanded'
  BY <1>13, IndexerAssumption DEF TaskStart, Goto
<1>14. ASSUME NEW t \in Tasks, TaskRange(t) PROVE SnapshotHanded'
  BY <1>14, IndexerAssumption DEF TaskRange, Goto, ToBlock, GetBlockNumber
<1>15. ASSUME NEW t \in Tasks, TaskUpToDate(t) PROVE SnapshotHanded'
  BY <1>15, IndexerAssumption DEF TaskUpToDate, Finish, Ended, Unlock
<1>16. ASSUME NEW t \in Tasks, TaskSubs(t) PROVE SnapshotHanded'
  BY <1>16, IndexerAssumption DEF TaskSubs, Goto
<1>17. ASSUME NEW t \in Tasks, TaskLogs(t) PROVE SnapshotHanded'
  <2> DEFINE S == {s \in subs[t] : "logs" \in Wants[s]}
             new == BlockRange("logs", from[t], to[t], S)
  <2>1. handed \subseteq handed' /\ subs' = subs /\ from' = from /\ to' = to
    BY <1>17 DEF TaskLogs, AddJobs
  <2>2. S # {} => new \in handed'
    BY <1>17 DEF TaskLogs, AddJobs
  <2>3. SUFFICES ASSUME NEW u \in Tasks, NEW k \in Kinds, pc'[u] \in After(k),
                        NEW s \in subs[u], k \in Wants[s]
                 PROVE  \E r \in handed' : r.kind = k /\ s \in r.subs /\ r.from = from[u] /\ r.to = to[u]
    BY <2>1
  <2>4. CASE u = t /\ k = "logs"
    <3>1. s \in S /\ new \in handed'
      BY <2>2, <2>3, <2>4
    <3>2. new.kind = k /\ s \in new.subs /\ new.from = from[u] /\ new.to = to[u]
      BY <2>4, <3>1 DEF BlockRange
    <3> QED BY <3>1, <3>2
  <2>5. CASE ~(u = t /\ k = "logs")
    BY <1>17, <2>1, <2>3, <2>5 DEF TaskLogs, Goto
  <2> QED BY <2>4, <2>5
<1>18. ASSUME NEW t \in Tasks, TaskReceipts(t) PROVE SnapshotHanded'
  <2> DEFINE S == {s \in subs[t] : "receipts" \in Wants[s]}
             new == BlockRange("receipts", from[t], to[t], S)
  <2>1. handed \subseteq handed' /\ subs' = subs /\ from' = from /\ to' = to
    BY <1>18 DEF TaskReceipts, AddJobs
  <2>2. S # {} => new \in handed'
    BY <1>18 DEF TaskReceipts, AddJobs
  <2>3. SUFFICES ASSUME NEW u \in Tasks, NEW k \in Kinds, pc'[u] \in After(k),
                        NEW s \in subs[u], k \in Wants[s]
                 PROVE  \E r \in handed' : r.kind = k /\ s \in r.subs /\ r.from = from[u] /\ r.to = to[u]
    BY <2>1
  <2>4. CASE u = t /\ k = "receipts"
    <3>1. s \in S /\ new \in handed'
      BY <2>2, <2>3, <2>4
    <3>2. new.kind = k /\ s \in new.subs /\ new.from = from[u] /\ new.to = to[u]
      BY <2>4, <3>1 DEF BlockRange
    <3> QED BY <3>1, <3>2
  <2>5. CASE ~(u = t /\ k = "receipts")
    BY <1>18, <2>1, <2>3, <2>5 DEF TaskReceipts, Goto
  <2> QED BY <2>4, <2>5
<1>19. ASSUME NEW t \in Tasks, TaskCommit(t) PROVE SnapshotHanded'
  BY <1>19, IndexerAssumption DEF TaskCommit, Finish, Ended, Unlock
<1>20. ASSUME NEW t \in Tasks, TaskTimeout(t) PROVE SnapshotHanded'
  BY <1>20, IndexerAssumption DEF TaskTimeout, Unlock, Fault
<1>21. ASSUME NEW t \in Tasks, TaskThrow(t) PROVE SnapshotHanded'
  BY <1>21, IndexerAssumption DEF TaskThrow, Finish, Ended, Unlock, Fault
<1>22. CASE UNCHANGED vars
  BY <1>22, IndexerAssumption
<1> QED BY <1>1, <1>2, <1>3, <1>4, <1>5, <1>6, <1>7, <1>8, <1>9, <1>10, <1>11, <1>12, <1>13, <1>14, <1>15, <1>16, <1>17, <1>18, <1>19, <1>20, <1>21, <1>22 DEF Next, AddStep, TaskStep

\* An add request that saw no subscription is alone until it has created one.
LEMMA AddsStep ==
  ASSUME ~OverlappingAdds, TypeOK, AddsAlone, [Next]_vars
  PROVE  AddsAlone'
<1> USE DEF TypeOK, AddsAlone, vars, cursorVars, addVars, taskVars, rangeVars, workerVars
<1>1. CASE Produce
  BY <1>1, IndexerAssumption DEF Produce, NewBlock
<1>2. ASSUME NEW s \in Subs, AddCheck(s) PROVE AddsAlone'
  BY <1>2, IndexerAssumption DEF AddCheck, AddGoto
<1>3. ASSUME NEW s \in Subs, AddHead(s) PROVE AddsAlone'
  BY <1>3, IndexerAssumption DEF AddHead, GetBlockNumber, AddGoto
<1>4. ASSUME NEW s \in Subs, AddUpsert(s) PROVE AddsAlone'
  BY <1>4, IndexerAssumption DEF AddUpsert, AddGoto
<1>5. ASSUME NEW s \in Subs, AddSwallow(s) PROVE AddsAlone'
  BY <1>5, IndexerAssumption DEF AddSwallow, Fault, AddGoto
<1>6. ASSUME NEW s \in Subs, AddCreate(s) PROVE AddsAlone'
  BY <1>6, IndexerAssumption DEF AddCreate, Subscribe, AddGoto
<1>7. ASSUME NEW s \in Subs, AddRefuse(s) PROVE AddsAlone'
  BY <1>7, IndexerAssumption DEF AddRefuse, AddGoto
<1>8. ASSUME NEW s \in Subs, RemoveSubscription(s) PROVE AddsAlone'
  BY <1>8, IndexerAssumption DEF RemoveSubscription, Unsubscribe
<1>9. ASSUME NEW w \in Workers, ManageLook(w) PROVE AddsAlone'
  BY <1>9, IndexerAssumption DEF ManageLook
<1>10. ASSUME NEW w \in Workers, ManageApply(w) PROVE AddsAlone'
  BY <1>10, IndexerAssumption DEF ManageApply
<1>11. ASSUME NEW w \in Workers, ManageThrow(w) PROVE AddsAlone'
  BY <1>11, IndexerAssumption DEF ManageThrow, Fault
<1>12. ASSUME NEW w \in Workers, Crash(w) PROVE AddsAlone'
  BY <1>12, IndexerAssumption DEF Crash, Fault, Ended
<1>13. ASSUME NEW w \in Workers, NEW t \in Tasks, TaskStart(w, t) PROVE AddsAlone'
  BY <1>13, IndexerAssumption DEF TaskStart, Goto
<1>14. ASSUME NEW t \in Tasks, TaskRange(t) PROVE AddsAlone'
  BY <1>14, IndexerAssumption DEF TaskRange, Goto, ToBlock, GetBlockNumber
<1>15. ASSUME NEW t \in Tasks, TaskUpToDate(t) PROVE AddsAlone'
  BY <1>15, IndexerAssumption DEF TaskUpToDate, Finish, Ended, Unlock
<1>16. ASSUME NEW t \in Tasks, TaskSubs(t) PROVE AddsAlone'
  BY <1>16, IndexerAssumption DEF TaskSubs, Goto
<1>17. ASSUME NEW t \in Tasks, TaskLogs(t) PROVE AddsAlone'
  BY <1>17, IndexerAssumption DEF TaskLogs, AddJobs, BlockRange, Goto
<1>18. ASSUME NEW t \in Tasks, TaskReceipts(t) PROVE AddsAlone'
  BY <1>18, IndexerAssumption DEF TaskReceipts, AddJobs, BlockRange, Goto
<1>19. ASSUME NEW t \in Tasks, TaskCommit(t) PROVE AddsAlone'
  BY <1>19, IndexerAssumption DEF TaskCommit, Finish, Ended, Unlock
<1>20. ASSUME NEW t \in Tasks, TaskTimeout(t) PROVE AddsAlone'
  BY <1>20, IndexerAssumption DEF TaskTimeout, Unlock, Fault
<1>21. ASSUME NEW t \in Tasks, TaskThrow(t) PROVE AddsAlone'
  BY <1>21, IndexerAssumption DEF TaskThrow, Finish, Ended, Unlock, Fault
<1>22. CASE UNCHANGED vars
  BY <1>22, IndexerAssumption
<1> QED BY <1>1, <1>2, <1>3, <1>4, <1>5, <1>6, <1>7, <1>8, <1>9, <1>10, <1>11, <1>12, <1>13, <1>14, <1>15, <1>16, <1>17, <1>18, <1>19, <1>20, <1>21, <1>22 DEF Next, AddStep, TaskStep

\* No step skips a block: a commit's blocks were handed over for everyone in the
\* snapshot, everyone else came later, and an upsert by an add request finds nobody
\* subscribed.
LEMMA GapStep ==
  ASSUME Inv, [Next]_vars
  PROVE  NoGap'
<1> USE DEF Inv, TypeOK, NoGap, Covered, vars, cursorVars, addVars, taskVars, rangeVars, workerVars
<1>1. CASE Produce
  BY <1>1 DEF Produce, NewBlock, RowOnChain, NoRow
<1>2. ASSUME NEW s \in Subs, AddCheck(s) PROVE NoGap'
  BY <1>2 DEF AddCheck, AddGoto
<1>3. ASSUME NEW s \in Subs, AddHead(s) PROVE NoGap'
  BY <1>3 DEF AddHead, GetBlockNumber, AddGoto
<1>4. ASSUME NEW s \in Subs, AddUpsert(s) PROVE NoGap'
  BY <1>4 DEF AddUpsert, AddsAlone
<1>5. ASSUME NEW s \in Subs, AddSwallow(s) PROVE NoGap'
  BY <1>5 DEF AddSwallow, Fault, AddGoto
<1>6. ASSUME NEW s \in Subs, AddCreate(s) PROVE NoGap'
  BY <1>6 DEF AddCreate, Subscribe, AddGoto
<1>7. ASSUME NEW s \in Subs, AddRefuse(s) PROVE NoGap'
  BY <1>7 DEF AddRefuse, AddGoto
<1>8. ASSUME NEW s \in Subs, RemoveSubscription(s) PROVE NoGap'
  BY <1>8 DEF RemoveSubscription, Unsubscribe
<1>9. ASSUME NEW w \in Workers, ManageLook(w) PROVE NoGap'
  BY <1>9 DEF ManageLook
<1>10. ASSUME NEW w \in Workers, ManageApply(w) PROVE NoGap'
  BY <1>10 DEF ManageApply
<1>11. ASSUME NEW w \in Workers, ManageThrow(w) PROVE NoGap'
  BY <1>11 DEF ManageThrow, Fault
<1>12. ASSUME NEW w \in Workers, Crash(w) PROVE NoGap'
  BY <1>12 DEF Crash, Fault, Ended
<1>13. ASSUME NEW w \in Workers, NEW t \in Tasks, TaskStart(w, t) PROVE NoGap'
  BY <1>13 DEF TaskStart, Goto
<1>14. ASSUME NEW t \in Tasks, TaskRange(t) PROVE NoGap'
  BY <1>14 DEF TaskRange, Goto, ToBlock, GetBlockNumber
<1>15. ASSUME NEW t \in Tasks, TaskUpToDate(t) PROVE NoGap'
  BY <1>15 DEF TaskUpToDate, Finish, Ended, Unlock
<1>16. ASSUME NEW t \in Tasks, TaskSubs(t) PROVE NoGap'
  BY <1>16 DEF TaskSubs, Goto
<1>17. ASSUME NEW t \in Tasks, TaskLogs(t) PROVE NoGap'
  BY <1>17 DEF TaskLogs, AddJobs, BlockRange, Goto
<1>18. ASSUME NEW t \in Tasks, TaskReceipts(t) PROVE NoGap'
  BY <1>18 DEF TaskReceipts, AddJobs, BlockRange, Goto
<1>19. ASSUME NEW t \in Tasks, TaskCommit(t) PROVE NoGap'
  <2>1. CASE ~open[t]
    BY <1>19, <2>1 DEF TaskCommit
  <2>2. CASE open[t]
    <3>1. row = from[t] /\ from[t] < to[t] /\ row' = to[t] /\ live' = live /\ born' = born
          /\ handed' = handed /\ head' = head
      BY <1>19, <2>2 DEF TaskCommit, RowIsLocked, RangeOnChain, Ranged
    <3>2. SUFFICES ASSUME NEW s \in live, NEW k \in Wants[s], NEW b \in 0..head,
                          born[s] < b, b <= to[t]
                   PROVE  Covered(k, s, b)
      BY <3>1
    <3>3. CASE b <= row
      BY <3>2, <3>3
    <3>4. CASE row < b
      <4>1. s \in subs[t]
        BY <1>19, <3>2 DEF TaskCommit, SnapshotComplete, Read
      <4>2. k \in Kinds /\ pc[t] \in After(k)
        BY <1>19, <3>2, CursorAssumption DEF TaskCommit, After
      <4>3. PICK r \in handed : r.kind = k /\ s \in r.subs /\ r.from = from[t] /\ r.to = to[t]
        BY <4>1, <4>2, <3>2 DEF SnapshotHanded
      <4> QED BY <4>3, <3>1, <3>2, <3>4
    <3> QED BY <3>1, <3>3, <3>4
  <2> QED BY <2>1, <2>2
<1>20. ASSUME NEW t \in Tasks, TaskTimeout(t) PROVE NoGap'
  BY <1>20 DEF TaskTimeout, Unlock, Fault
<1>21. ASSUME NEW t \in Tasks, TaskThrow(t) PROVE NoGap'
  BY <1>21 DEF TaskThrow, Finish, Ended, Unlock, Fault
<1>22. CASE UNCHANGED vars
  BY <1>22
<1> QED BY <1>1, <1>2, <1>3, <1>4, <1>5, <1>6, <1>7, <1>8, <1>9, <1>10, <1>11, <1>12, <1>13, <1>14, <1>15, <1>16, <1>17, <1>18, <1>19, <1>20, <1>21, <1>22 DEF Next, AddStep, TaskStep

----------------------------------------------------------------------------
(* The results                                                             *)

\* The parts together are inductive when add requests do not overlap.
LEMMA InvInductive ==
  ASSUME ~OverlappingAdds
  PROVE  Spec => []Inv
<1>1. Init => Inv
  <2> SUFFICES ASSUME Init PROVE Inv
    OBVIOUS
  <2>1. TypeOK
    BY IndexerAssumption, CursorAssumption
    DEF Init, CursorInit, TypeOK, TaskPCs, AddPCs, NoRow
  <2>2. RowOnChain /\ RowIsLocked /\ RangeOnChain /\ SnapshotComplete
    BY DEF Init, CursorInit, RowOnChain, RowIsLocked, RangeOnChain, SnapshotComplete,
           Ranged, Read, NoRow
  <2>3. SnapshotHanded /\ AddsAlone /\ NoGap
    BY DEF Init, CursorInit, SnapshotHanded, AddsAlone, NoGap, After, Kinds
  <2> QED BY <2>1, <2>2, <2>3 DEF Inv
<1>2. Inv /\ [Next]_vars => Inv'
  BY TypeStep, OnChainStep, LockStep, SnapshotStep, HandedStep, AddsStep, GapStep DEF Inv
<1> QED BY <1>1, <1>2, PTL DEF Spec

\* However many workers, tasks, crashes and timeouts there are, lastIndexedBlock
\* never passes a block that a subscription is waiting for and no job covers.
THEOREM NoBlockSkipped ==
  ASSUME ~OverlappingAdds
  PROVE  Spec => []NoGap
<1>1. Inv => NoGap
  BY DEF Inv
<1> QED BY <1>1, InvInductive, PTL

\* Each step of the workers is a step of the cursor, or leaves it alone.
LEMMA CursorStep ==
  ASSUME Inv, [Next]_vars
  PROVE  [Cursor!CursorNext]_(Cursor!cursorVars)
<1> USE DEF Cursor!cursorVars, cursorVars
<1>1. CASE Produce
  BY <1>1 DEF Produce, NewBlock, Cursor!NewBlock, Cursor!CursorNext
<1>2. ASSUME NEW s \in Subs, AddCreate(s) PROVE Cursor!CursorNext
  BY <1>2 DEF AddCreate, Subscribe, Cursor!Subscribe, Cursor!CursorNext
<1>3. ASSUME NEW s \in Subs, RemoveSubscription(s) PROVE Cursor!CursorNext
  BY <1>3 DEF RemoveSubscription, Unsubscribe, Cursor!Unsubscribe, Cursor!CursorNext
<1>4. ASSUME NEW s \in Subs, AddUpsert(s) PROVE Cursor!CursorNext
  <2>1. live = {} /\ addHead[s] \in 0..head
    BY <1>4 DEF Inv, AddUpsert, AddsAlone, RowOnChain, TypeOK
  <2>2. Cursor!Restart(addHead[s])
    BY <1>4, <2>1 DEF AddUpsert, Cursor!Restart
  <2> QED BY <2>1, <2>2 DEF Cursor!CursorNext
<1>5. ASSUME NEW t \in Tasks, NEW k \in Kinds, AddJobs(t, k), pc[t] \in Read,
             UNCHANGED <<head, row, live, born>>
      PROVE  Cursor!CursorNext \/ UNCHANGED cursorVars
  <2> DEFINE S == {s \in subs[t] : k \in Wants[s]}
  <2>1. CASE S = {}
    BY <1>5, <2>1 DEF AddJobs
  <2>2. CASE S # {}
    <3>1. S \in SUBSET Subs /\ from[t] \in 0..head /\ to[t] \in 0..head /\ from[t] < to[t] /\ to[t] <= head
      BY <1>5 DEF Inv, TypeOK, RangeOnChain, Ranged, Read
    <3>2. \A s \in live : k \in Wants[s] /\ born[s] < to[t] => s \in S
      <4> SUFFICES ASSUME NEW s \in live, k \in Wants[s], born[s] < to[t] PROVE s \in S
        OBVIOUS
      <4>1. s \in subs[t] \/ to[t] <= born[s]
        BY <1>5 DEF Inv, SnapshotComplete
      <4>2. born[s] \in Nat /\ to[t] \in Nat
        BY DEF Inv, TypeOK
      <4> QED BY <4>1, <4>2
    <3>3. handed' = handed \cup {Cursor!BlockRange(k, from[t], to[t], S)}
      BY <1>5, <2>2 DEF AddJobs, BlockRange, Cursor!BlockRange
    <3>4. Cursor!Hand(k, from[t], to[t], S)
      BY <1>5, <3>1, <3>2, <3>3 DEF Cursor!Hand
    <3> QED BY <3>1, <3>4 DEF Cursor!CursorNext, Kinds, Cursor!Kinds
  <2> QED BY <2>1, <2>2
<1>6. ASSUME NEW t \in Tasks, TaskLogs(t) \/ TaskReceipts(t)
      PROVE  Cursor!CursorNext \/ UNCHANGED cursorVars
  BY <1>5, <1>6 DEF TaskLogs, TaskReceipts, Read, Kinds
<1>7. ASSUME NEW t \in Tasks, TaskCommit(t)
      PROVE  Cursor!CursorNext \/ UNCHANGED cursorVars
  <2>1. CASE ~open[t]
    BY <1>7, <2>1 DEF TaskCommit
  <2>2. CASE open[t]
    <3>1. row = from[t] /\ from[t] < to[t] /\ to[t] <= head /\ from[t] \in Nat /\ to[t] \in Nat
          /\ head \in Nat
      BY <1>7, <2>2 DEF TaskCommit, Inv, TypeOK, RowIsLocked, RangeOnChain, Ranged
    <3>2. NoGap' /\ row' = to[t] /\ UNCHANGED <<head, live, born, handed>>
      BY <1>7, <2>2, GapStep DEF TaskCommit
    <3>3. \A s \in live : \A k \in Wants[s] : \A b \in (row + 1)..to[t] :
            born[s] < b => Cursor!Covered(k, s, b)
      BY <3>1, <3>2 DEF NoGap, Covered, Cursor!Covered
    <3>4. Cursor!Advance(to[t])
      BY <3>1, <3>2, <3>3 DEF Cursor!Advance, NoRow, Cursor!NoRow
    <3> QED BY <3>1, <3>4 DEF Cursor!CursorNext
  <2> QED BY <2>1, <2>2
<1>8. CASE UNCHANGED vars
  BY <1>8 DEF vars
<1>9. ASSUME NEW s \in Subs, AddCheck(s) \/ AddHead(s) \/ AddSwallow(s) \/ AddRefuse(s)
      PROVE  UNCHANGED cursorVars
  BY <1>9 DEF AddCheck, AddHead, AddSwallow, AddRefuse
<1>10. ASSUME NEW w \in Workers, ManageLook(w) \/ ManageApply(w) \/ ManageThrow(w) \/ Crash(w)
       PROVE  UNCHANGED cursorVars
  BY <1>10 DEF ManageLook, ManageApply, ManageThrow, Crash
<1>11. ASSUME NEW w \in Workers, NEW t \in Tasks, TaskStart(w, t) PROVE UNCHANGED cursorVars
  BY <1>11 DEF TaskStart
<1>12. ASSUME NEW t \in Tasks, \/ TaskRange(t) \/ TaskUpToDate(t) \/ TaskSubs(t)
                              \/ TaskTimeout(t) \/ TaskThrow(t)
       PROVE  UNCHANGED cursorVars
  BY <1>12 DEF TaskRange, TaskUpToDate, TaskSubs, TaskTimeout, TaskThrow
<1> QED BY <1>1, <1>2, <1>3, <1>4, <1>6, <1>7, <1>8, <1>9, <1>10, <1>11, <1>12
    DEF Next, AddStep, TaskStep

\* The interleaved tasks of all workers implement the single cursor of IndexCursor:
\* its cursor advances only over blocks everyone they concern was handed.
THEOREM Refinement ==
  ASSUME ~OverlappingAdds
  PROVE  Spec => ImplementsCursor
<1>1. Init => Cursor!CursorInit
  BY DEF Init, CursorInit, Cursor!CursorInit, NoRow, Cursor!NoRow
<1>2. Inv /\ [Next]_vars => [Cursor!CursorNext]_(Cursor!cursorVars)
  BY CursorStep
<1> QED BY <1>1, <1>2, InvInductive, PTL DEF Spec, ImplementsCursor, Cursor!CursorSpec
=============================================================================
