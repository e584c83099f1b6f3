--------------------------- MODULE TxOutcomeProofs ---------------------------
(***************************************************************************)
(* TxLifecycle, continued: a transaction is executed at most once, and     *)
(* none is left behind.  Both hold only under named assumptions.           *)
(***************************************************************************)
EXTENDS TxLifecycleProofs

----------------------------------------------------------------------------
(* One execution                                                           *)

Insert == <<"insert", 1>>

\* What a record that has not been sent yet, nor given up, has as its status.
Early == {"none", "queued"}

\* No second insert of the same key, and nobody retries a failed transaction.
SentOnce == Requests \cap {<<"insert", 2>>, RetryFailed} = {}

\* Nobody but the insert has begun before there is a record.
Beginning ==
  /\ db.status = "none" =>
       /\ \A j \in Jobs : job[j].state = "absent"
       /\ \A a \in Actors : loc[a].pc \in {"idle", "read", "done"} \/ (a = Insert /\ loc[a].pc = "store")
  /\ loc[Insert].pc \in {"idle", "read", "store"} => db.status = "none"
  /\ loc[Insert].pc # "done" => job[Send(0)].state = "absent"

\* Until its first submission is stored there is only the first send job.
Following ==
  /\ \A j \in Jobs : j # Send(0) /\ job[j].state # "absent" => db.status \notin Early
  /\ \A a \in Actors : loc[a].rec.status = "sent" /\ ~(a = Send(0) /\ loc[a].pc = "store")
                        => db.status \notin Early

\* The status of the record each actor works on.
Holding ==
  /\ \A j \in Jobs : j # Send(0) /\ loc[j].pc = "act" => loc[j].rec.status = "sent"
  /\ \A a \in {SyncRetry, Retry} : loc[a].pc \notin {"idle", "done", "read"}
     => loc[a].rec.status = "sent"
  /\ \A r \in Resends : loc[Send(r)].pc = "addMine" => loc[Send(r)].rec.status = "sent"
  /\ loc[Cancel].pc = "act" => loc[Cancel].rec.status = "sent"
  /\ \A a \in Actors : loc[a].pc = "store" =>
       loc[a].rec.status # "none" /\ (loc[a].rec.status = "queued" => a = Insert)

\* A sent record has the only nonce.
AtOne(rec) == rec.status = "sent" => rec.slot = 1 /\ Submitted # {}

\* Everything is submitted, and mined, at one nonce.
OneChain ==
  /\ \A h \in Submitted : slotOf[h] = 1
  /\ \A s \in Slots : mined[s] \in {0, -1} \/ (mined[s] \in Submitted /\ slotOf[mined[s]] = s)

\* Every sent record that is stored or held has that nonce.
HeldAtOne == AtOne(db) /\ \A a \in Actors : AtOne(loc[a].rec)

\* The first send job does not run again once it has submitted.
FirstDone ==
  Submitted # {} =>
    /\ loc[Insert].pc = "done" /\ job[Send(0)].state # "waiting"
    /\ \/ loc[Send(0)].pc = "idle"
       \/ loc[Send(0)].pc \in {"store", "hook", "addMine"} /\ loc[Send(0)].rec.status = "sent"

OneNonce == Beginning /\ Following /\ Holding /\ OneChain /\ HeldAtOne /\ FirstDone

\* The actors of this section by name.
LEMMA InsertNames ==
  /\ Insert \in AllRequests /\ Insert \in Actors /\ Insert \notin Jobs /\ Insert[1] = "insert"
  /\ Insert \notin {Cancel, RetryFailed, SyncRetry, Retry, Mine, MineFailed}
  /\ \A r \in Resends : Insert # Send(r) /\ Insert # SendFailed(r)
  /\ \A a \in AllRequests : a[1] = "insert" => a = Insert \/ a = <<"insert", 2>>
  /\ <<"insert", 2>> \in AllRequests /\ Send(0) \in Jobs /\ Send(0) \in Actors
<1>1. Insert \in AllRequests /\ <<"insert", 2>> \in AllRequests /\ Insert[1] = "insert"
  BY DEF Insert, AllRequests
<1>2. Insert \in Actors /\ Insert \notin Jobs /\ Send(0) \in Jobs /\ Send(0) \in Actors
  BY <1>1, ActorNames, ResendZero
<1>3. Insert \notin {Cancel, RetryFailed, SyncRetry, Retry, Mine, MineFailed}
  BY <1>1, RequestNames, ActorNames
<1>4. \A r \in Resends : Insert # Send(r) /\ Insert # SendFailed(r)
  BY <1>1, ActorNames
<1>5. \A a \in AllRequests : a[1] = "insert" => a = Insert \/ a = <<"insert", 2>>
  BY DEF Insert, AllRequests
<1> QED BY <1>1, <1>2, <1>3, <1>4, <1>5

\* Such a request stays idle.
LEMMA NotRequested ==
  ASSUME Pcs, SentOnce
  PROVE  /\ loc[RetryFailed].pc = "idle"
         /\ \A a \in AllRequests : a[1] = "insert" /\ a # Insert => loc[a].pc = "idle"
  BY InsertNames, RequestNames DEF Pcs, SentOnce

\* Every step keeps Holding.
LEMMA HoldingStep ==
  ASSUME TypeInv, SentOnce, Following, Holding, [Next]_vars
  PROVE  Holding'
<1>0. /\ TypeOK /\ Pcs /\ JobsRun /\ Following /\ Holding
      /\ loc[RetryFailed].pc = "idle" /\ \A a \in AllRequests : a[1] = "insert" /\ a # Insert
         => loc[a].pc = "idle"
  BY NotRequested DEF TypeInv
<1>1. ASSUME NEW j \in Jobs, StartJob(j) PROVE Holding'
  BY <1>1, <1>0, StartJobEffect, InsertNames, ActorNames, RequestNames, ActorCases, ResendZero,
     RecordTypes
  DEF Holding, Moves, ThrowMoves, Over
<1>2. ASSUME NEW r \in Resends, SendRead(r) PROVE Holding'
  <2>1. r # 0 => db.status \notin Early
    BY <1>2, <1>0, SendReadEffect, ActorNames, ResendZero DEF JobsRun, Following
  <2>2. \A e \in Records : Moves(Send(r), "act", e) /\ r # 0 /\ e = db
        /\ db.status \in {"queued", "sent"} => e.status = "sent"
    BY <2>1 DEF Early
  <2> QED BY <1>2, <1>0, <2>2, SendReadEffect, InsertNames, ActorNames, RequestNames, ActorCases
      DEF Holding, Moves
<1>3. ASSUME NEW r \in Resends, SendFirst(r) PROVE Holding'
  <2>1. Send(r) \in Actors /\ r = 0
    BY <1>3, <1>0, SendFirstEffect, ActorNames, ResendZero DEF Holding
  <2>2. /\ loc'[Send(r)].pc # "act" /\ loc'[Send(r)].pc # "addMine"
        /\ loc'[Send(r)].pc = "store" => loc'[Send(r)].rec.status \in {"sent", "errored"}
    BY <1>3, <1>0, <2>1, SendFirstEffect DEF Moves, ThrowMoves
  <2>3. \A b \in Actors : b # Send(r)
        => loc'[b] = loc[b] \/ (b = SendFailed(r) /\ loc'[b].pc = "read")
    BY <1>3, <1>0, SendFirstEffect DEF Moves, ThrowMoves
  <2> QED BY <1>0, <2>1, <2>2, <2>3, ActorNames, RequestNames, ActorCases DEF Holding
<1>4. ASSUME NEW r \in Resends, SendAgain(r) PROVE Holding'
  BY <1>4, <1>0, SendAgainEffect, InsertNames, ActorNames, RequestNames, ActorCases, ResendZero,
     RecordTypes
  DEF Holding, Moves, ThrowMoves, Over
<1>5. ASSUME NEW r \in Resends, SendFailedRead(r) PROVE Holding'
  BY <1>5, <1>0, SendFailedReadEffect, InsertNames, ActorNames, RequestNames, ActorCases,
     ResendZero, RecordTypes
  DEF Holding, Moves, ThrowMoves, Over
<1>6. ASSUME MineRead PROVE Holding'
  BY <1>6, <1>0, MineReadEffect, InsertNames, ActorNames, RequestNames, ActorCases, ResendZero,
     RecordTypes
  DEF Holding, Moves, ThrowMoves, Over
<1>7. ASSUME MineFound PROVE Holding'
  BY <1>7, <1>0, MineFoundEffect, InsertNames, ActorNames, RequestNames, ActorCases, ResendZero,
     RecordTypes
  DEF Holding, Moves, ThrowMoves, Over
<1>8. ASSUME MineNotYet PROVE Holding'
  BY <1>8, <1>0, MineNotYetEffect, InsertNames, ActorNames, RequestNames, ActorCases, ResendZero,
     RecordTypes
  DEF Holding, Moves, ThrowMoves, Over
<1>9. ASSUME MineFailedRead PROVE Holding'
  BY <1>9, <1>0, MineFailedReadEffect, InsertNames, ActorNames, RequestNames, ActorCases,
     ResendZero, RecordTypes
  DEF Holding, Moves, ThrowMoves, Over
<1>10. ASSUME MineFailedRelease PROVE Holding'
  BY <1>10, <1>0, MineFailedReleaseEffect, InsertNames, ActorNames, RequestNames, ActorCases,
     ResendZero, RecordTypes
  DEF Holding, Moves, ThrowMoves, Over
<1>11. ASSUME NEW a \in AllRequests, InsertRead(a) PROVE Holding'
  BY <1>11, <1>0, InsertReadEffect, InsertNames, ActorNames, RequestNames, ActorCases, ResendZero,
     RecordTypes
  DEF Holding, Moves, ThrowMoves, Over
<1>12. ASSUME CancelRead PROVE Holding'
  BY <1>12, <1>0, CancelReadEffect, InsertNames, ActorNames, RequestNames, ActorCases, ResendZero,
     RecordTypes
  DEF Holding, Moves, ThrowMoves, Over
<1>13. ASSUME CancelRemove PROVE Holding'
  BY <1>13, <1>0, CancelRemoveEffect, InsertNames, ActorNames, RequestNames, ActorCases,
     ResendZero, RecordTypes
  DEF Holding, Moves, ThrowMoves, Over
<1>14. ASSUME CancelSend PROVE Holding'
  BY <1>14, <1>0, CancelSendEffect, InsertNames, ActorNames, RequestNames, ActorCases, ResendZero,
     RecordTypes
  DEF Holding, Moves, ThrowMoves, Over
<1>15. ASSUME RetryFailedRead PROVE Holding'
  BY <1>15, <1>0, RetryFailedReadEffect, InsertNames, ActorNames, RequestNames, ActorCases,
     ResendZero, RecordTypes
  DEF Holding, Moves, ThrowMoves, Over
<1>16. ASSUME RetryFailedCheck PROVE Holding'
  BY <1>16, <1>0, RetryFailedCheckEffect, InsertNames, ActorNames, RequestNames, ActorCases,
     ResendZero, RecordTypes
  DEF Holding, Moves, ThrowMoves, Over
<1>17. ASSUME RetryFailedRemove PROVE Holding'
  BY <1>17, <1>0, RetryFailedRemoveEffect, InsertNames, ActorNames, RequestNames, ActorCases,
     ResendZero, RecordTypes
  DEF Holding, Moves, ThrowMoves, Over
<1>18. ASSUME SyncRetryRead PROVE Holding'
  BY <1>18, <1>0, SyncRetryReadEffect, InsertNames, ActorNames, RequestNames, ActorCases,
     ResendZero, RecordTypes
  DEF Holding, Moves, ThrowMoves, Over
<1>19. ASSUME SyncRetrySend PROVE Holding'
  BY <1>19, <1>0, SyncRetrySendEffect, InsertNames, ActorNames, RequestNames, ActorCases,
     ResendZero, RecordTypes
  DEF Holding, Moves, ThrowMoves, Over
<1>20. ASSUME RetryRead PROVE Holding'
  BY <1>20, <1>0, RetryReadEffect, InsertNames, ActorNames, RequestNames, ActorCases, ResendZero,
     RecordTypes
  DEF Holding, Moves, ThrowMoves, Over
<1>21. ASSUME NEW a \in Actors, Store(a) PROVE Holding'
  BY <1>21, <1>0, StoreEffect, InsertNames, ActorNames, RequestNames, ActorCases, ResendZero,
     RecordTypes
  DEF Holding, Moves, ThrowMoves, Over
<1>22. ASSUME NEW a \in Actors, Hook(a) PROVE Holding'
  BY <1>22, <1>0, HookEffect, InsertNames, ActorNames, RequestNames, ActorCases, ResendZero,
     RecordTypes
  DEF Holding, Moves, ThrowMoves, Over
<1>23. ASSUME NEW a \in Actors, AddMine(a) PROVE Holding'
  BY <1>23, <1>0, AddMineEffect, InsertNames, ActorNames, RequestNames, ActorCases, ResendZero,
     RecordTypes
  DEF Holding, Moves, ThrowMoves, Over
<1>24. ASSUME NEW a \in Actors, AddSend(a) PROVE Holding'
  BY <1>24, <1>0, AddSendEffect, InsertNames, ActorNames, RequestNames, ActorCases, ResendZero,
     RecordTypes
  DEF Holding, Moves, ThrowMoves, Over
<1>25. ASSUME NEW a \in Actors, Crash(a) PROVE Holding'
  BY <1>25, <1>0, CrashEffect, InsertNames, ActorNames, RequestNames, ActorCases, ResendZero,
     RecordTypes
  DEF Holding, Moves, ThrowMoves, Over
<1>26. ASSUME MineBlock PROVE Holding'
  BY <1>26, <1>0 DEF MineBlock, Holding
<1>27. ASSUME OtherTakes PROVE Holding'
  BY <1>27, <1>0 DEF OtherTakes, Holding
<1>28. ASSUME UNCHANGED vars PROVE Holding'
  BY <1>28, <1>0 DEF vars, Holding
<1>29. ASSUME NEW r \in Resends, SendLate(r) PROVE Holding'
  BY <1>29, <1>0, SendLateEffect, InsertNames, ActorNames, RequestNames, ActorCases, ResendZero,
     RecordTypes
  DEF Holding, ThrowMoves
<1> QED BY <1>1, <1>2, <1>3, <1>4, <1>5, <1>6, <1>7, <1>8, <1>9, <1>10, <1>11, <1>12, <1>13,
    <1>14, <1>15, <1>16, <1>17, <1>18, <1>19, <1>20, <1>21, <1>22, <1>23, <1>24, <1>25,
    <1>26, <1>27, <1>28, <1>29
    DEF Next, Undisturbed, WorkerStep, SendStep, MineStep, ApiStep, ActorStep

\* Adding one job and removing some leaves the others as they are, or absent.
LEMMA AbsentKept ==
  ASSUME NEW js \in [Jobs -> JobStates], NEW j \in Jobs, NEW S, NEW i \in Jobs
  PROVE  /\ i # j => Added(js, j)[i] = js[i]
         /\ Removed(js, S)[i] = js[i] \/ Removed(js, S)[i].state = "absent"
  BY JobEffects, RecordTypes

\* The job of a resend is not the first send job.
LEMMA NextResend == \A rec \in Records : Send(rec.resendCount + 1) # Send(0)
<1> SUFFICES ASSUME NEW rec \in Records PROVE Send(rec.resendCount + 1) # Send(0)
  OBVIOUS
<1>1. rec.resendCount \in Nat
  BY RecordTypes, ResendZero
<1> QED BY <1>1 DEF Send

\* The mine worker does not touch the first send job.
LEMMA MineKeepsFirst ==
  ASSUME TypeOK, JobsRun, MineNotYet
  PROVE  job'[Send(0)] = job[Send(0)]
<1>1. loc[Mine].rec \in Records /\ Mine # Send(0) /\ job \in [Jobs -> JobStates]
  BY ActorNames, ResendZero DEF TypeOK
<1>2. CASE ThrowMoves(job, Mine, MineFailed, MineAttempts)
  BY <1>1, <1>2, InsertNames DEF ThrowMoves
<1>3. ASSUME NEW r \in Resends, r = loc[Mine].rec.resendCount + 1,
             ThrowMoves(Added(job, Send(r)), Mine, MineFailed, MineAttempts)
      PROVE  job'[Send(0)] = job[Send(0)]
  <2>1. Send(r) # Send(0) /\ Send(r) \in Jobs
    BY <1>1, <1>3, ActorNames, NextResend
  <2>2. Added(job, Send(r))[Send(0)] = job[Send(0)]
    BY <1>1, <2>1, InsertNames, AbsentKept
  <2> QED BY <1>1, <1>3, <2>2, InsertNames DEF ThrowMoves
<1> QED BY <1>2, <1>3, MineNotYetEffect

\* Nor does retry.
LEMMA RetryKeepsFirst ==
  ASSUME TypeOK, Pcs, AddSend(Retry)
  PROVE  job'[Send(0)] = job[Send(0)]
<1>1. loc[Retry].rec \in Records /\ Retry \in Actors /\ job \in [Jobs -> JobStates]
  BY ActorNames, RequestNames DEF TypeOK
<1>2. PICK r \in Resends : job' = Added(job, Send(r)) /\ r = loc[Retry].rec.resendCount + 1
  BY <1>1, AddSendEffect
<1>3. Send(r) # Send(0) /\ Send(r) \in Jobs
  BY <1>1, <1>2, ActorNames, NextResend
<1> QED BY <1>1, <1>2, <1>3, InsertNames, AbsentKept

\* Adding the mine job leaves the first send job as it is, or completed.
LEMMA AddMineFirst ==
  ASSUME TypeOK, Pcs, NEW a \in Actors, AddMine(a)
  PROVE  IF a = Send(0) THEN job'[Send(0)].state = "completed" ELSE job'[Send(0)] = job[Send(0)]
<1>0. Mine # Send(0) /\ Mine \in Jobs /\ job \in [Jobs -> JobStates] /\ Send(0) # SyncRetry
  BY ActorNames, RequestNames, ResendZero DEF TypeOK
<1>1. CASE a = SyncRetry /\ job' = Added(job, Mine)
  BY <1>0, <1>1, InsertNames, AbsentKept
<1>2. ASSUME NEW r \in Resends, a = Send(r), job' = Added(Complete(a), Mine)
      PROVE  IF a = Send(0) THEN job'[Send(0)].state = "completed" ELSE job'[Send(0)] = job[Send(0)]
  <2>1. a \in Jobs
    BY <1>2, ActorNames
  <2>2. /\ Complete(a) \in [Jobs -> JobStates] /\ Complete(a)[a].state = "completed"
        /\ a # Send(0) => Complete(a)[Send(0)] = job[Send(0)]
    BY <2>1, CompleteEffect, InsertNames
  <2>3. Added(Complete(a), Mine)[Send(0)] = Complete(a)[Send(0)]
    BY <1>0, <2>2, InsertNames, AbsentKept
  <2> QED BY <1>2, <2>2, <2>3
<1> QED BY <1>1, <1>2, AddMineEffect

\* Every step keeps Beginning.
LEMMA BeginningStep ==
  ASSUME TypeInv, SentOnce, Beginning, Holding, [Next]_vars
  PROVE  Beginning'
<1>0. /\ TypeOK /\ Pcs /\ JobsRun /\ Beginning /\ Holding /\ job \in [Jobs -> JobStates]
      /\ loc[RetryFailed].pc = "idle" /\ \A a \in AllRequests : a[1] = "insert" /\ a # Insert
         => loc[a].pc = "idle"
  BY NotRequested DEF TypeInv, TypeOK
<1>1. ASSUME NEW j \in Jobs, StartJob(j) PROVE Beginning'
  BY <1>1, <1>0, StartJobEffect, InsertNames, ActorNames, RequestNames, ActorCases, ResendZero,
     RecordTypes
  DEF Beginning, Moves, ThrowMoves, Over, JobsRun, Holding, StoreSame
<1>2. ASSUME NEW r \in Resends, SendRead(r) PROVE Beginning'
  BY <1>2, <1>0, SendReadEffect, InsertNames, ActorNames, RequestNames, ActorCases, ResendZero,
     RecordTypes, CompleteEffect
  DEF Beginning, Moves, ThrowMoves, Over, JobsRun, Holding, StoreSame
<1>3. ASSUME NEW r \in Resends, SendFirst(r) PROVE Beginning'
  BY <1>3, <1>0, SendFirstEffect, InsertNames, ActorNames, RequestNames, ActorCases, ResendZero,
     RecordTypes
  DEF Beginning, Moves, ThrowMoves, Over, JobsRun, Holding, StoreSame
<1>4. ASSUME NEW r \in Resends, SendAgain(r) PROVE Beginning'
  BY <1>4, <1>0, SendAgainEffect, InsertNames, ActorNames, RequestNames, ActorCases, ResendZero,
     RecordTypes, CompleteEffect
  DEF Beginning, Moves, ThrowMoves, Over, JobsRun, Holding, StoreSame
<1>5. ASSUME NEW r \in Resends, SendFailedRead(r) PROVE Beginning'
  BY <1>5, <1>0, SendFailedReadEffect, InsertNames, ActorNames, RequestNames, ActorCases,
     ResendZero, RecordTypes
  DEF Beginning, Moves, ThrowMoves, Over, JobsRun, Holding, StoreSame
<1>6. ASSUME MineRead PROVE Beginning'
  BY <1>6, <1>0, MineReadEffect, InsertNames, ActorNames, RequestNames, ActorCases, ResendZero,
     RecordTypes, CompleteEffect
  DEF Beginning, Moves, ThrowMoves, Over, JobsRun, Holding, StoreSame
<1>7. ASSUME MineFound PROVE Beginning'
  BY <1>7, <1>0, MineFoundEffect, InsertNames, ActorNames, RequestNames, ActorCases, ResendZero,
     RecordTypes
  DEF Beginning, Moves, ThrowMoves, Over, JobsRun, Holding, StoreSame
<1>8. ASSUME MineNotYet PROVE Beginning'
  <2>1. db.status # "none" /\ db' = db
    BY <1>8, <1>0, MineNotYetEffect, ActorNames DEF Beginning, JobsRun, StoreSame
  <2>2. loc'[Insert] = loc[Insert]
    BY <1>8, <1>0, MineNotYetEffect, InsertNames DEF ThrowMoves
  <2>3. job'[Send(0)] = job[Send(0)]
    BY <1>8, <1>0, MineKeepsFirst
  <2> QED BY <1>0, <2>1, <2>2, <2>3 DEF Beginning
<1>9. ASSUME MineFailedRead PROVE Beginning'
  BY <1>9, <1>0, MineFailedReadEffect, InsertNames, ActorNames, RequestNames, ActorCases,
     ResendZero, RecordTypes
  DEF Beginning, Moves, ThrowMoves, Over, JobsRun, Holding, StoreSame
<1>10. ASSUME MineFailedRelease PROVE Beginning'
  BY <1>10, <1>0, MineFailedReleaseEffect, InsertNames, ActorNames, RequestNames, ActorCases,
     ResendZero, RecordTypes
  DEF Beginning, Moves, ThrowMoves, Over, JobsRun, Holding, StoreSame
<1>11. ASSUME NEW a \in AllRequests, InsertRead(a) PROVE Beginning'
  BY <1>11, <1>0, InsertReadEffect, InsertNames, ActorNames, RequestNames, ActorCases, ResendZero,
     RecordTypes
  DEF Beginning, Moves, ThrowMoves, Over, JobsRun, Holding, StoreSame
<1>12. ASSUME CancelRead PROVE Beginning'
  BY <1>12, <1>0, CancelReadEffect, InsertNames, ActorNames, RequestNames, ActorCases, ResendZero,
     RecordTypes
  DEF Beginning, Moves, ThrowMoves, Over, JobsRun, Holding, StoreSame
<1>13. ASSUME CancelRemove PROVE Beginning'
  <2>1. db.status # "none" /\ db' = db
    BY <1>13, <1>0, CancelRemoveEffect, ActorNames, RequestNames, InsertNames
    DEF Beginning, StoreSame
  <2>2. loc'[Insert] = loc[Insert]
    BY <1>13, <1>0, CancelRemoveEffect, InsertNames DEF Moves
  <2>3. job[Send(0)].state = "absent" => job'[Send(0)].state = "absent"
    BY <1>13, <1>0, CancelRemoveEffect, InsertNames, AbsentKept
  <2> QED BY <1>0, <2>1, <2>2, <2>3 DEF Beginning
<1>14. ASSUME CancelSend PROVE Beginning'
  BY <1>14, <1>0, CancelSendEffect, InsertNames, ActorNames, RequestNames, ActorCases, ResendZero,
     RecordTypes
  DEF Beginning, Moves, ThrowMoves, Over, JobsRun, Holding, StoreSame
<1>15. ASSUME RetryFailedRead PROVE Beginning'
  BY <1>15, <1>0, RetryFailedReadEffect, InsertNames, ActorNames, RequestNames, ActorCases,
     ResendZero, RecordTypes
  DEF Beginning, Moves, ThrowMoves, Over, JobsRun, Holding, StoreSame
<1>16. ASSUME RetryFailedCheck PROVE Beginning'
  BY <1>16, <1>0, RetryFailedCheckEffect, InsertNames, ActorNames, RequestNames, ActorCases,
     ResendZero, RecordTypes
  DEF Beginning, Moves, ThrowMoves, Over, JobsRun, Holding, StoreSame
<1>17. ASSUME RetryFailedRemove PROVE Beginning'
  BY <1>17, <1>0, RetryFailedRemoveEffect, InsertNames, ActorNames, RequestNames, ActorCases,
     ResendZero, RecordTypes, JobEffects
  DEF Beginning, Moves, ThrowMoves, Over, JobsRun, Holding, StoreSame
<1>18. ASSUME SyncRetryRead PROVE Beginning'
  BY <1>18, <1>0, SyncRetryReadEffect, InsertNames, ActorNames, RequestNames, ActorCases,
     ResendZero, RecordTypes
  DEF Beginning, Moves, ThrowMoves, Over, JobsRun, Holding, StoreSame
<1>19. ASSUME SyncRetrySend PROVE Beginning'
  BY <1>19, <1>0, SyncRetrySendEffect, InsertNames, ActorNames, RequestNames, ActorCases,
     ResendZero, RecordTypes
  DEF Beginning, Moves, ThrowMoves, Over, JobsRun, Holding, StoreSame
<1>20. ASSUME RetryRead PROVE Beginning'
  BY <1>20, <1>0, RetryReadEffect, InsertNames, ActorNames, RequestNames, ActorCases, ResendZero,
     RecordTypes
  DEF Beginning, Moves, ThrowMoves, Over, JobsRun, Holding, StoreSame
<1>21. ASSUME NEW a \in Actors, Store(a) PROVE Beginning'
  BY <1>21, <1>0, StoreEffect, InsertNames, ActorNames, RequestNames, ActorCases, ResendZero,
     RecordTypes
  DEF Beginning, Moves, ThrowMoves, Over, JobsRun, Holding, StoreSame
<1>22. ASSUME NEW a \in Actors, Hook(a) PROVE Beginning'
  BY <1>22, <1>0, HookEffect, InsertNames, ActorNames, RequestNames, ActorCases, ResendZero,
     RecordTypes, CompleteEffect
  DEF Beginning, Moves, ThrowMoves, Over, JobsRun, Holding, StoreSame
<1>23. ASSUME NEW a \in Actors, AddMine(a) PROVE Beginning'
  <2>1. db.status # "none" /\ db' = db
    BY <1>23, <1>0, AddMineEffect DEF Beginning, StoreSame
  <2>2. loc'[Insert] = loc[Insert]
    BY <1>23, <1>0, AddMineEffect, InsertNames DEF Moves
  <2>3. loc[Insert].pc # "done" => job'[Send(0)] = job[Send(0)]
    BY <1>23, <1>0, AddMineFirst, AddMineEffect, InsertNames DEF Beginning, JobsRun
  <2> QED BY <1>0, <2>1, <2>2, <2>3 DEF Beginning
<1>24. ASSUME NEW a \in Actors, AddSend(a) PROVE Beginning'
  <2>1. db.status # "none" /\ db' = db
    BY <1>24, <1>0, AddSendEffect DEF Beginning, StoreSame
  <2>2. a = Insert \/ a = Retry
    BY <1>24, <1>0, AddSendEffect
  <2>3. CASE a = Insert
    BY <1>24, <1>0, <2>1, <2>3, AddSendEffect DEF Beginning, Moves
  <2>4. CASE a = Retry
    <3>1. loc'[Insert] = loc[Insert]
      BY <1>24, <1>0, <2>4, AddSendEffect, InsertNames DEF Moves
    <3>2. job'[Send(0)] = job[Send(0)]
      BY <1>24, <1>0, <2>4, RetryKeepsFirst
    <3> QED BY <1>0, <2>1, <3>1, <3>2 DEF Beginning
  <2> QED BY <2>2, <2>3, <2>4
<1>25. ASSUME NEW a \in Actors, Crash(a) PROVE Beginning'
  BY <1>25, <1>0, CrashEffect, InsertNames, ActorNames, RequestNames, ActorCases, ResendZero,
     RecordTypes
  DEF Beginning, Moves, ThrowMoves, Over, JobsRun, Holding, StoreSame
<1>26. ASSUME MineBlock PROVE Beginning'
  BY <1>26, <1>0 DEF MineBlock, Beginning
<1>27. ASSUME OtherTakes PROVE Beginning'
  BY <1>27, <1>0 DEF OtherTakes, Beginning
<1>28. ASSUME UNCHANGED vars PROVE Beginning'
  BY <1>28, <1>0 DEF vars, Beginning
<1>29. ASSUME NEW r \in Resends, SendLate(r) PROVE Beginning'
  BY <1>29, <1>0, SendLateEffect, InsertNames, ActorNames, RequestNames, ActorCases, ResendZero,
     RecordTypes
  DEF Beginning, ThrowMoves, JobsRun, StoreSame
<1> QED BY <1>1, <1>2, <1>3, <1>4, <1>5, <1>6, <1>7, <1>8, <1>9, <1>10, <1>11, <1>12, <1>13,
    <1>14, <1>15, <1>16, <1>17, <1>18, <1>19, <1>20, <1>21, <1>22, <1>23, <1>24, <1>25,
    <1>26, <1>27, <1>28, <1>29
    DEF Next, Undisturbed, WorkerStep, SendStep, MineStep, ApiStep, ActorStep

\* Every step keeps Following.
LEMMA FollowingStep ==
  ASSUME TypeInv, SentOnce, Beginning, Following, Holding, [Next]_vars
  PROVE  Following'
<1>0. /\ TypeOK /\ Pcs /\ JobsRun /\ Beginning /\ Following /\ Holding
         /\ job \in [Jobs -> JobStates]
      /\ loc[RetryFailed].pc = "idle" /\ \A a \in AllRequests : a[1] = "insert" /\ a # Insert
         => loc[a].pc = "idle"
  BY NotRequested DEF TypeInv, TypeOK
<1>1. ASSUME NEW j \in Jobs, StartJob(j) PROVE Following'
  BY <1>1, <1>0, StartJobEffect, InsertNames, ActorNames, RequestNames, ActorCases, ResendZero,
     RecordTypes
  DEF Following, Beginning, Early, Moves, ThrowMoves, Over, JobsRun, Holding, StoreSame
<1>2. ASSUME NEW r \in Resends, SendRead(r) PROVE Following'
  <2>1. Send(r) \in Jobs /\ Send(r) \in Actors /\ job[Send(r)].state = "active" /\ db' = db
    BY <1>2, <1>0, SendReadEffect, ActorNames DEF JobsRun, StoreSame
  <2>2. \A i \in Jobs : job'[i].state # "absent" => job[i].state # "absent"
    BY <1>2, <1>0, <2>1, SendReadEffect, CompleteEffect
  <2>3. loc'[Send(r)].rec.status = "sent" => db.status = "sent"
    BY <1>2, <1>0, <2>1, SendReadEffect, RecordTypes DEF Moves
  <2>4. \A b \in Actors : b # Send(r) => loc'[b] = loc[b]
    BY <1>2, <1>0, SendReadEffect DEF Moves
  <2> QED BY <1>0, <2>1, <2>2, <2>3, <2>4 DEF Following, Early
<1>3. ASSUME NEW r \in Resends, SendFirst(r) PROVE Following'
  BY <1>3, <1>0, SendFirstEffect, InsertNames, ActorNames, RequestNames, ActorCases, ResendZero,
     RecordTypes
  DEF Following, Beginning, Early, Moves, ThrowMoves, Over, JobsRun, Holding, StoreSame
<1>4. ASSUME NEW r \in Resends, SendAgain(r) PROVE Following'
  BY <1>4, <1>0, SendAgainEffect, InsertNames, ActorNames, RequestNames, ActorCases, ResendZero,
     RecordTypes, CompleteEffect
  DEF Following, Beginning, Early, Moves, ThrowMoves, Over, JobsRun, Holding, StoreSame
<1>5. ASSUME NEW r \in Resends, SendFailedRead(r) PROVE Following'
  BY <1>5, <1>0, SendFailedReadEffect, InsertNames, ActorNames, RequestNames, ActorCases,
     ResendZero, RecordTypes
  DEF Following, Beginning, Early, Moves, ThrowMoves, Over, JobsRun, Holding, StoreSame
<1>6. ASSUME MineRead PROVE Following'
  BY <1>6, <1>0, MineReadEffect, InsertNames, ActorNames, RequestNames, ActorCases, ResendZero,
     RecordTypes, CompleteEffect
  DEF Following, Beginning, Early, Moves, ThrowMoves, Over, JobsRun, Holding, StoreSame
<1>7. ASSUME MineFound PROVE Following'
  BY <1>7, <1>0, MineFoundEffect, InsertNames, ActorNames, RequestNames, ActorCases, ResendZero,
     RecordTypes
  DEF Following, Beginning, Early, Moves, ThrowMoves, Over, JobsRun, Holding, StoreSame
<1>8. ASSUME MineNotYet PROVE Following'
  BY <1>8, <1>0, MineNotYetEffect, InsertNames, ActorNames, RequestNames, ActorCases, ResendZero,
     RecordTypes
  DEF Following, Beginning, Early, Moves, ThrowMoves, Over, JobsRun, Holding, StoreSame
<1>9. ASSUME MineFailedRead PROVE Following'
  BY <1>9, <1>0, MineFailedReadEffect, InsertNames, ActorNames, RequestNames, ActorCases,
     ResendZero, RecordTypes
  DEF Following, Beginning, Early, Moves, ThrowMoves, Over, JobsRun, Holding, StoreSame
<1>10. ASSUME MineFailedRelease PROVE Following'
  BY <1>10, <1>0, MineFailedReleaseEffect, InsertNames, ActorNames, RequestNames, ActorCases,
     ResendZero, RecordTypes
  DEF Following, Beginning, Early, Moves, ThrowMoves, Over, JobsRun, Holding, StoreSame
<1>11. ASSUME NEW a \in AllRequests, InsertRead(a) PROVE Following'
  BY <1>11, <1>0, InsertReadEffect, InsertNames, ActorNames, RequestNames, ActorCases, ResendZero,
     RecordTypes
  DEF Following, Beginning, Early, Moves, ThrowMoves, Over, JobsRun, Holding, StoreSame
<1>12. ASSUME CancelRead PROVE Following'
  BY <1>12, <1>0, CancelReadEffect, InsertNames, ActorNames, RequestNames, ActorCases, ResendZero,
     RecordTypes
  DEF Following, Beginning, Early, Moves, ThrowMoves, Over, JobsRun, Holding, StoreSame
<1>13. ASSUME CancelRemove PROVE Following'
  <2>1. \A i \in Jobs : job'[i].state # "absent" => job[i].state # "absent"
    BY <1>13, <1>0, CancelRemoveEffect, AbsentKept
  <2>2. db' = db /\ loc'[Cancel].rec.status # "sent" /\ \A b \in Actors : b # Cancel
        => loc'[b] = loc[b]
    BY <1>13, <1>0, CancelRemoveEffect, RecordTypes DEF Moves, StoreSame
  <2> QED BY <1>0, <2>1, <2>2 DEF Following
<1>14. ASSUME CancelSend PROVE Following'
  BY <1>14, <1>0, CancelSendEffect, InsertNames, ActorNames, RequestNames, ActorCases, ResendZero,
     RecordTypes
  DEF Following, Beginning, Early, Moves, ThrowMoves, Over, JobsRun, Holding, StoreSame
<1>15. ASSUME RetryFailedRead PROVE Following'
  BY <1>15, <1>0, RetryFailedReadEffect, InsertNames, ActorNames, RequestNames, ActorCases,
     ResendZero, RecordTypes
  DEF Following, Beginning, Early, Moves, ThrowMoves, Over, JobsRun, Holding, StoreSame
<1>16. ASSUME RetryFailedCheck PROVE Following'
  BY <1>16, <1>0, RetryFailedCheckEffect, InsertNames, ActorNames, RequestNames, ActorCases,
     ResendZero, RecordTypes
  DEF Following, Beginning, Early, Moves, ThrowMoves, Over, JobsRun, Holding, StoreSame
<1>17. ASSUME RetryFailedRemove PROVE Following'
  BY <1>17, <1>0, RetryFailedRemoveEffect, InsertNames, ActorNames, RequestNames, ActorCases,
     ResendZero, RecordTypes, JobEffects
  DEF Following, Beginning, Early, Moves, ThrowMoves, Over, JobsRun, Holding, StoreSame
<1>18. ASSUME SyncRetryRead PROVE Following'
  BY <1>18, <1>0, SyncRetryReadEffect, InsertNames, ActorNames, RequestNames, ActorCases,
     ResendZero, RecordTypes
  DEF Following, Beginning, Early, Moves, ThrowMoves, Over, JobsRun, Holding, StoreSame
<1>19. ASSUME SyncRetrySend PROVE Following'
  BY <1>19, <1>0, SyncRetrySendEffect, InsertNames, ActorNames, RequestNames, ActorCases,
     ResendZero, RecordTypes
  DEF Following, Beginning, Early, Moves, ThrowMoves, Over, JobsRun, Holding, StoreSame
<1>20. ASSUME RetryRead PROVE Following'
  BY <1>20, <1>0, RetryReadEffect, InsertNames, ActorNames, RequestNames, ActorCases, ResendZero,
     RecordTypes
  DEF Following, Beginning, Early, Moves, ThrowMoves, Over, JobsRun, Holding, StoreSame
<1>21. ASSUME NEW a \in Actors, Store(a) PROVE Following'
  BY <1>21, <1>0, StoreEffect, InsertNames, ActorNames, RequestNames, ActorCases, ResendZero,
     RecordTypes
  DEF Following, Beginning, Early, Moves, ThrowMoves, Over, JobsRun, Holding, StoreSame
<1>22. ASSUME NEW a \in Actors, Hook(a) PROVE Following'
  <2>1. \A i \in Jobs : job'[i].state # "absent" => job[i].state # "absent"
    <3>1. a \in Jobs => job[a].state = "active"
      BY <1>22, <1>0, HookEffect DEF JobsRun
    <3>2. CASE a \in Jobs /\ job' = Complete(a)
      BY <1>0, <3>1, <3>2, CompleteEffect
    <3> QED BY <1>22, <1>0, <3>2, HookEffect
  <2>2. /\ db' = db /\ (loc'[a].rec.status = "sent" => loc[a].rec.status = "sent")
        /\ loc[a].pc = "hook" /\ \A b \in Actors : b # a => loc'[b] = loc[b]
    BY <1>22, <1>0, HookEffect, RecordTypes DEF Moves
  <2> QED BY <1>0, <2>1, <2>2 DEF Following
<1>23. ASSUME NEW a \in Actors, AddMine(a) PROVE Following'
  BY <1>23, <1>0, AddMineEffect, InsertNames, ActorNames, RequestNames, ActorCases, ResendZero,
     RecordTypes, CompleteEffect, JobEffects
  DEF Following, Beginning, Early, Moves, ThrowMoves, Over, JobsRun, Holding, StoreSame
<1>24. ASSUME NEW a \in Actors, AddSend(a) PROVE Following'
  <2>1. /\ db' = db /\ loc'[a].rec.status # "sent"
        /\ \A b \in Actors : b # a => loc'[b] = loc[b]
    BY <1>24, <1>0, AddSendEffect, RecordTypes DEF Moves, StoreSame
  <2>2. PICK r \in Resends : job' = Added(job, Send(r)) /\ (a # Retry => r = 0)
    BY <1>24, <1>0, AddSendEffect
  <2>3. a = Retry => db.status \notin Early
    BY <1>24, <1>0, AddSendEffect, RequestNames, ActorNames, InsertNames DEF Following, Holding
  <2>4. \A i \in Jobs : i # Send(0) /\ job'[i].state # "absent"
        => job[i].state # "absent" \/ db.status \notin Early
    BY <1>0, <2>2, <2>3, AbsentKept, ActorNames
  <2> QED BY <1>0, <2>1, <2>4 DEF Following
<1>25. ASSUME NEW a \in Actors, Crash(a) PROVE Following'
  BY <1>25, <1>0, CrashEffect, InsertNames, ActorNames, RequestNames, ActorCases, ResendZero,
     RecordTypes
  DEF Following, Beginning, Early, Moves, ThrowMoves, Over, JobsRun, Holding, StoreSame
<1>26. ASSUME MineBlock PROVE Following'
  BY <1>26, <1>0 DEF MineBlock, Following
<1>27. ASSUME OtherTakes PROVE Following'
  BY <1>27, <1>0 DEF OtherTakes, Following
<1>28. ASSUME UNCHANGED vars PROVE Following'
  BY <1>28, <1>0 DEF vars, Following
<1>29. ASSUME NEW r \in Resends, SendLate(r) PROVE Following'
  BY <1>29, <1>0, SendLateEffect, InsertNames, ActorNames, RequestNames, ActorCases, ResendZero,
     RecordTypes
  DEF Following, ThrowMoves, JobsRun, StoreSame
<1> QED BY <1>1, <1>2, <1>3, <1>4, <1>5, <1>6, <1>7, <1>8, <1>9, <1>10, <1>11, <1>12, <1>13,
    <1>14, <1>15, <1>16, <1>17, <1>18, <1>19, <1>20, <1>21, <1>22, <1>23, <1>24, <1>25,
    <1>26, <1>27, <1>28, <1>29
    DEF Next, Undisturbed, WorkerStep, SendStep, MineStep, ApiStep, ActorStep

\* A step that leaves the chain alone keeps OneChain.
LEMMA OneChainKept ==
  ASSUME OneChain, UNCHANGED <<slotOf, mined>>
  PROVE  OneChain' /\ Submitted' = Submitted
<1>1. Submitted' = Submitted
  BY DEF Submitted
<1> QED BY <1>1 DEF OneChain

\* So does a submission at the only nonce.
LEMMA OneChainSubmit ==
  ASSUME TypeOK, Numbered, OneChain, Submit(1, NextHash),
         cancels' \subseteq cancels \cup {NextHash}, cancels \subseteq cancels'
  PROVE  OneChain' /\ Submitted \subseteq Submitted' /\ Submitted' # {}
<1>1. Submitted' = Submitted \cup {NextHash} /\ NextHash \notin Submitted
  BY SubmitGrows
<1>2. /\ slotOf'[NextHash] = 1 /\ NextHash \in Hashes /\ mined' = mined
      /\ \A i \in Hashes : i # NextHash => slotOf'[i] = slotOf[i]
  BY SubmitEffect
<1>3. \A h \in Submitted : h \in Hashes /\ h # NextHash /\ slotOf'[h] = slotOf[h]
  BY <1>1, <1>2 DEF Submitted
<1>4. \A h \in Submitted' : slotOf'[h] = 1
  BY <1>1, <1>2, <1>3 DEF OneChain
<1>5. \A s \in Slots : mined'[s] \in {0, -1} \/ (mined'[s] \in Submitted' /\ slotOf'[mined'[s]] = s)
  BY <1>1, <1>2, <1>3 DEF OneChain
<1> QED BY <1>1, <1>4, <1>5 DEF OneChain

\* The first submission is the first send job's, at the first nonce.
LEMMA FirstSubmit ==
  ASSUME OneNonce, TypeInv, NEW r \in Resends, loc[Send(r)].pc = "act",
         loc[Send(r)].rec.status = "queued"
  PROVE  r = 0 /\ Submitted = {} /\ NextSlot = 1
<1>2. r = 0
  BY ActorNames, ResendZero DEF OneNonce, Holding
<1>3. Submitted = {}
  BY <1>2 DEF OneNonce, FirstDone
<1>4. UsedSlots = {}
  BY <1>3 DEF UsedSlots
<1>5. NextSlot = 1
  BY <1>4, FS_EmptySet DEF NextSlot
<1> QED BY <1>2, <1>3, <1>5

\* The first hash is submitted at the first nonce, and none is taken back.
Grown ==
  /\ Submitted \subseteq Submitted'
  /\ Submitted = {} => Submitted' = {} \/ Submit(NextSlot, NextHash)

\* Every step keeps everything at one nonce.
LEMMA OneChainStep ==
  ASSUME TypeInv, SentOnce, Numbered, OneNonce, [Next]_vars
  PROVE  OneChain' /\ Grown
<1>0. /\ TypeOK /\ Pcs /\ JobsRun /\ Numbered /\ Beginning /\ Following /\ Holding /\ OneChain
         /\ HeldAtOne
      /\ FirstDone /\ OneNonce /\ TypeInv /\ job \in [Jobs -> JobStates] /\ db \in Records
      /\ loc[RetryFailed].pc = "idle" /\ \A a \in AllRequests : a[1] = "insert" /\ a # Insert
         => loc[a].pc = "idle"
  BY NotRequested DEF TypeInv, OneNonce, TypeOK
<1>1. ASSUME NEW j \in Jobs, StartJob(j) PROVE OneChain' /\ Grown
  BY <1>1, <1>0, StartJobEffect, OneChainKept DEF ChainSame, Grown
<1>2. ASSUME NEW r \in Resends, SendRead(r) PROVE OneChain' /\ Grown
  BY <1>2, <1>0, SendReadEffect, OneChainKept DEF ChainSame, Grown
<1>3. ASSUME NEW r \in Resends, SendFirst(r) PROVE OneChain' /\ Grown
  <2>1. NextSlot = 1 /\ Submitted = {} /\ r = 0
    BY <1>3, <1>0, FirstSubmit, SendFirstEffect
  <2>2. CASE Submit(NextSlot, NextHash)
    BY <1>3, <1>0, <2>1, <2>2, SendFirstEffect, OneChainSubmit DEF Grown
  <2>3. CASE ChainSame
    BY <1>0, <2>3, OneChainKept DEF ChainSame, Grown
  <2> QED BY <1>3, <1>0, <2>2, <2>3, SendFirstEffect
<1>4. ASSUME NEW r \in Resends, SendAgain(r) PROVE OneChain' /\ Grown
  <2>1. Send(r) \in Actors /\ loc[Send(r)].rec.status = "sent"
    BY <1>4, <1>0, SendAgainEffect, ActorNames, RequestNames DEF Holding
  <2>2. loc[Send(r)].rec.slot = 1 /\ Submitted # {}
    BY <1>0, <2>1 DEF HeldAtOne, AtOne
  <2>3. CASE Submit(loc[Send(r)].rec.slot, NextHash)
    BY <1>4, <1>0, <2>2, <2>3, SendAgainEffect, OneChainSubmit DEF Grown, ChainSame
  <2>4. CASE ChainSame
    BY <1>0, <2>4, OneChainKept DEF ChainSame, Grown
  <2> QED BY <1>4, <1>0, <2>3, <2>4, SendAgainEffect
<1>5. ASSUME NEW r \in Resends, SendFailedRead(r) PROVE OneChain' /\ Grown
  BY <1>5, <1>0, SendFailedReadEffect, OneChainKept DEF ChainSame, Grown
<1>6. ASSUME MineRead PROVE OneChain' /\ Grown
  BY <1>6, <1>0, MineReadEffect, OneChainKept DEF ChainSame, Grown
<1>7. ASSUME MineFound PROVE OneChain' /\ Grown
  BY <1>7, <1>0, MineFoundEffect, OneChainKept DEF ChainSame, Grown
<1>8. ASSUME MineNotYet PROVE OneChain' /\ Grown
  BY <1>8, <1>0, MineNotYetEffect, OneChainKept DEF ChainSame, Grown
<1>9. ASSUME MineFailedRead PROVE OneChain' /\ Grown
  BY <1>9, <1>0, MineFailedReadEffect, OneChainKept DEF ChainSame, Grown
<1>10. ASSUME MineFailedRelease PROVE OneChain' /\ Grown
  BY <1>10, <1>0, MineFailedReleaseEffect, OneChainKept DEF ChainSame, Grown
<1>11. ASSUME NEW a \in AllRequests, InsertRead(a) PROVE OneChain' /\ Grown
  BY <1>11, <1>0, InsertReadEffect, OneChainKept DEF ChainSame, Grown
<1>12. ASSUME CancelRead PROVE OneChain' /\ Grown
  BY <1>12, <1>0, CancelReadEffect, OneChainKept DEF ChainSame, Grown
<1>13. ASSUME CancelRemove PROVE OneChain' /\ Grown
  BY <1>13, <1>0, CancelRemoveEffect, OneChainKept DEF ChainSame, Grown
<1>14. ASSUME CancelSend PROVE OneChain' /\ Grown
  <2>1. Cancel \in Actors /\ loc[Cancel].rec.status = "sent"
    BY <1>14, <1>0, CancelSendEffect, ActorNames, RequestNames DEF Holding
  <2>2. loc[Cancel].rec.slot = 1 /\ Submitted # {}
    BY <1>0, <2>1 DEF HeldAtOne, AtOne
  <2>3. CASE Submit(loc[Cancel].rec.slot, NextHash)
    BY <1>14, <1>0, <2>2, <2>3, CancelSendEffect, OneChainSubmit DEF Grown, ChainSame
  <2>4. CASE ChainSame
    BY <1>0, <2>4, OneChainKept DEF ChainSame, Grown
  <2> QED BY <1>14, <1>0, <2>3, <2>4, CancelSendEffect
<1>15. ASSUME RetryFailedRead PROVE OneChain' /\ Grown
  BY <1>15, <1>0, RetryFailedReadEffect, OneChainKept DEF ChainSame, Grown
<1>16. ASSUME RetryFailedCheck PROVE OneChain' /\ Grown
  BY <1>16, <1>0, RetryFailedCheckEffect, OneChainKept DEF ChainSame, Grown
<1>17. ASSUME RetryFailedRemove PROVE OneChain' /\ Grown
  BY <1>17, <1>0, RetryFailedRemoveEffect, OneChainKept DEF ChainSame, Grown
<1>18. ASSUME SyncRetryRead PROVE OneChain' /\ Grown
  BY <1>18, <1>0, SyncRetryReadEffect, OneChainKept DEF ChainSame, Grown
<1>19. ASSUME SyncRetrySend PROVE OneChain' /\ Grown
  <2>1. SyncRetry \in Actors /\ loc[SyncRetry].rec.status = "sent"
    BY <1>19, <1>0, SyncRetrySendEffect, ActorNames, RequestNames DEF Holding
  <2>2. loc[SyncRetry].rec.slot = 1 /\ Submitted # {}
    BY <1>0, <2>1 DEF HeldAtOne, AtOne
  <2>3. CASE Submit(loc[SyncRetry].rec.slot, NextHash)
    BY <1>19, <1>0, <2>2, <2>3, SyncRetrySendEffect, OneChainSubmit DEF Grown, ChainSame
  <2>4. CASE ChainSame
    BY <1>0, <2>4, OneChainKept DEF ChainSame, Grown
  <2> QED BY <1>19, <1>0, <2>3, <2>4, SyncRetrySendEffect
<1>20. ASSUME RetryRead PROVE OneChain' /\ Grown
  BY <1>20, <1>0, RetryReadEffect, OneChainKept DEF ChainSame, Grown
<1>21. ASSUME NEW a \in Actors, Store(a) PROVE OneChain' /\ Grown
  BY <1>21, <1>0, StoreEffect, OneChainKept DEF ChainSame, Grown
<1>22. ASSUME NEW a \in Actors, Hook(a) PROVE OneChain' /\ Grown
  BY <1>22, <1>0, HookEffect, OneChainKept DEF ChainSame, Grown
<1>23. ASSUME NEW a \in Actors, AddMine(a) PROVE OneChain' /\ Grown
  BY <1>23, <1>0, AddMineEffect, OneChainKept DEF ChainSame, Grown
<1>24. ASSUME NEW a \in Actors, AddSend(a) PROVE OneChain' /\ Grown
  BY <1>24, <1>0, AddSendEffect, OneChainKept DEF ChainSame, Grown
<1>25. ASSUME NEW a \in Actors, Crash(a) PROVE OneChain' /\ Grown
  BY <1>25, <1>0, CrashEffect, OneChainKept DEF ChainSame, Grown
<1>26. ASSUME MineBlock PROVE OneChain' /\ Grown
  <2>1. Submitted' = Submitted /\ slotOf' = slotOf
    BY <1>26 DEF MineBlock, Submitted
  <2>2. PICK s \in Slots, h \in Submitted : slotOf[h] = s /\ mined' = [mined EXCEPT ![s] = h]
    BY <1>26 DEF MineBlock
  <2> QED BY <1>0, <2>1, <2>2 DEF OneChain, Grown, TypeOK
<1>27. ASSUME OtherTakes PROVE OneChain' /\ Grown
  <2>1. Submitted' = Submitted /\ slotOf' = slotOf
    BY <1>27 DEF OtherTakes, Submitted
  <2>2. PICK s \in released : mined' = [mined EXCEPT ![s] = -1]
    BY <1>27 DEF OtherTakes
  <2> QED BY <1>0, <2>1, <2>2 DEF OneChain, Grown, TypeOK
<1>28. ASSUME UNCHANGED vars PROVE OneChain' /\ Grown
  BY <1>28, <1>0, OneChainKept DEF vars, Grown
<1>29. ASSUME NEW r \in Resends, SendLate(r) PROVE OneChain' /\ Grown
  <2>1. CASE loc[Send(r)].rec.status = "queued" /\ Submit(NextSlot, NextHash)
    <3>1. NextSlot = 1 /\ Submitted = {} /\ r = 0
      BY <1>29, <1>0, <2>1, FirstSubmit, SendLateEffect
    <3> QED BY <1>29, <1>0, <2>1, <3>1, SendLateEffect, OneChainSubmit DEF Grown
  <2>2. CASE loc[Send(r)].rec.status = "sent" /\ Submit(loc[Send(r)].rec.slot, NextHash)
    <3>1. loc[Send(r)].rec.slot = 1 /\ Submitted # {}
      BY <1>0, <2>2, ActorNames DEF HeldAtOne, AtOne
    <3> QED BY <1>29, <1>0, <2>2, <3>1, SendLateEffect, OneChainSubmit DEF Grown
  <2> QED BY <1>29, <1>0, <2>1, <2>2, SendLateEffect
<1> QED BY <1>1, <1>2, <1>3, <1>4, <1>5, <1>6, <1>7, <1>8, <1>9, <1>10, <1>11, <1>12, <1>13,
    <1>14, <1>15, <1>16, <1>17, <1>18, <1>19, <1>20, <1>21, <1>22, <1>23, <1>24, <1>25,
    <1>26, <1>27, <1>28, <1>29
    DEF Next, Undisturbed, WorkerStep, SendStep, MineStep, ApiStep, ActorStep

\* The record in the next state, as AtOne.
AtOneNext(rec) == rec.status = "sent" => rec.slot = 1 /\ Submitted' # {}

\* HeldAtOne in the next state.
LEMMA HeldIf ==
  ASSUME AtOneNext(db), db' = db \/ AtOneNext(db'), \A b \in Actors : AtOneNext(loc'[b].rec)
  PROVE  HeldAtOne'
  BY DEF HeldAtOne, AtOne, AtOneNext

\* Every step keeps sent records at one nonce.
LEMMA HeldStep ==
  ASSUME TypeInv, SentOnce, Numbered, OneNonce, [Next]_vars
  PROVE  HeldAtOne'
<1>0. /\ TypeOK /\ Pcs /\ JobsRun /\ Numbered /\ Beginning /\ Following /\ Holding /\ OneChain
         /\ HeldAtOne
      /\ FirstDone /\ OneNonce /\ TypeInv /\ job \in [Jobs -> JobStates] /\ db \in Records
      /\ loc[RetryFailed].pc = "idle" /\ \A a \in AllRequests : a[1] = "insert" /\ a # Insert
         => loc[a].pc = "idle"
  BY NotRequested DEF TypeInv, OneNonce, TypeOK
<1>a. AtOneNext(db) /\ \A a \in Actors : AtOneNext(loc[a].rec)
  <2>1. Submitted # {} => Submitted' # {}
    BY OneChainStep DEF Grown
  <2> QED BY <1>0, <2>1 DEF HeldAtOne, AtOne, AtOneNext
<1>1. ASSUME NEW j \in Jobs, StartJob(j) PROVE HeldAtOne'
  <2>1. (db' = db \/ AtOneNext(db')) /\ \A b \in Actors : AtOneNext(loc'[b].rec)
    BY <1>1, <1>0, <1>a, StartJobEffect, ActorNames, RequestNames, RecordTypes
    DEF AtOneNext, Moves, ThrowMoves, StoreSame
  <2> QED BY <1>a, <2>1, HeldIf
<1>2. ASSUME NEW r \in Resends, SendRead(r) PROVE HeldAtOne'
  <2>1. (db' = db \/ AtOneNext(db')) /\ \A b \in Actors : AtOneNext(loc'[b].rec)
    BY <1>2, <1>0, <1>a, SendReadEffect, ActorNames, RequestNames, RecordTypes
    DEF AtOneNext, Moves, ThrowMoves, StoreSame
  <2> QED BY <1>a, <2>1, HeldIf
<1>3. ASSUME NEW r \in Resends, SendFirst(r) PROVE HeldAtOne'
  <2>1. Submit(NextSlot, NextHash) => Submitted' # {}
    BY <1>3, <1>0, SendFirstEffect, SubmitGrows
  <2>2. NextSlot = 1
    BY <1>3, <1>0, FirstSubmit, SendFirstEffect
  <2>3. db' = db /\ \A b \in Actors : AtOneNext(loc'[b].rec)
    BY <1>3, <1>0, <1>a, <2>1, <2>2, SendFirstEffect, ActorNames, RecordTypes
    DEF AtOneNext, Moves, ThrowMoves, StoreSame
  <2> QED BY <1>a, <2>3, HeldIf
<1>4. ASSUME NEW r \in Resends, SendAgain(r) PROVE HeldAtOne'
  <2>1. (db' = db \/ AtOneNext(db')) /\ \A b \in Actors : AtOneNext(loc'[b].rec)
    BY <1>4, <1>0, <1>a, SendAgainEffect, ActorNames, RequestNames, RecordTypes
    DEF AtOneNext, Moves, ThrowMoves, StoreSame
  <2> QED BY <1>a, <2>1, HeldIf
<1>5. ASSUME NEW r \in Resends, SendFailedRead(r) PROVE HeldAtOne'
  <2>1. (db' = db \/ AtOneNext(db')) /\ \A b \in Actors : AtOneNext(loc'[b].rec)
    BY <1>5, <1>0, <1>a, SendFailedReadEffect, ActorNames, RequestNames, RecordTypes
    DEF AtOneNext, Moves, ThrowMoves, StoreSame
  <2> QED BY <1>a, <2>1, HeldIf
<1>6. ASSUME MineRead PROVE HeldAtOne'
  <2>1. (db' = db \/ AtOneNext(db')) /\ \A b \in Actors : AtOneNext(loc'[b].rec)
    BY <1>6, <1>0, <1>a, MineReadEffect, ActorNames, RequestNames, RecordTypes
    DEF AtOneNext, Moves, ThrowMoves, StoreSame
  <2> QED BY <1>a, <2>1, HeldIf
<1>7. ASSUME MineFound PROVE HeldAtOne'
  <2>1. (db' = db \/ AtOneNext(db')) /\ \A b \in Actors : AtOneNext(loc'[b].rec)
    BY <1>7, <1>0, <1>a, MineFoundEffect, ActorNames, RequestNames, RecordTypes
    DEF AtOneNext, Moves, ThrowMoves, StoreSame
  <2> QED BY <1>a, <2>1, HeldIf
<1>8. ASSUME MineNotYet PROVE HeldAtOne'
  <2>1. (db' = db \/ AtOneNext(db')) /\ \A b \in Actors : AtOneNext(loc'[b].rec)
    BY <1>8, <1>0, <1>a, MineNotYetEffect, ActorNames, RequestNames, RecordTypes
    DEF AtOneNext, Moves, ThrowMoves, StoreSame
  <2> QED BY <1>a, <2>1, HeldIf
<1>9. ASSUME MineFailedRead PROVE HeldAtOne'
  <2>1. (db' = db \/ AtOneNext(db')) /\ \A b \in Actors : AtOneNext(loc'[b].rec)
    BY <1>9, <1>0, <1>a, MineFailedReadEffect, ActorNames, RequestNames, RecordTypes
    DEF AtOneNext, Moves, ThrowMoves, StoreSame
  <2> QED BY <1>a, <2>1, HeldIf
<1>10. ASSUME MineFailedRelease PROVE HeldAtOne'
  <2>1. (db' = db \/ AtOneNext(db')) /\ \A b \in Actors : AtOneNext(loc'[b].rec)
    BY <1>10, <1>0, <1>a, MineFailedReleaseEffect, ActorNames, RequestNames, RecordTypes
    DEF AtOneNext, Moves, ThrowMoves, StoreSame
  <2> QED BY <1>a, <2>1, HeldIf
<1>11. ASSUME NEW a \in AllRequests, InsertRead(a) PROVE HeldAtOne'
  <2>1. (db' = db \/ AtOneNext(db')) /\ \A b \in Actors : AtOneNext(loc'[b].rec)
    BY <1>11, <1>0, <1>a, InsertReadEffect, ActorNames, RequestNames, RecordTypes
    DEF AtOneNext, Moves, ThrowMoves, StoreSame
  <2> QED BY <1>a, <2>1, HeldIf
<1>12. ASSUME CancelRead PROVE HeldAtOne'
  <2>1. (db' = db \/ AtOneNext(db')) /\ \A b \in Actors : AtOneNext(loc'[b].rec)
    BY <1>12, <1>0, <1>a, CancelReadEffect, ActorNames, RequestNames, RecordTypes
    DEF AtOneNext, Moves, ThrowMoves, StoreSame
  <2> QED BY <1>a, <2>1, HeldIf
<1>13. ASSUME CancelRemove PROVE HeldAtOne'
  <2>1. (db' = db \/ AtOneNext(db')) /\ \A b \in Actors : AtOneNext(loc'[b].rec)
    BY <1>13, <1>0, <1>a, CancelRemoveEffect, ActorNames, RequestNames, RecordTypes
    DEF AtOneNext, Moves, ThrowMoves, StoreSame
  <2> QED BY <1>a, <2>1, HeldIf
<1>14. ASSUME CancelSend PROVE HeldAtOne'
  <2>1. (db' = db \/ AtOneNext(db')) /\ \A b \in Actors : AtOneNext(loc'[b].rec)
    BY <1>14, <1>0, <1>a, CancelSendEffect, ActorNames, RequestNames, RecordTypes
    DEF AtOneNext, Moves, ThrowMoves, StoreSame
  <2> QED BY <1>a, <2>1, HeldIf
<1>15. ASSUME RetryFailedRead PROVE HeldAtOne'
  <2>1. (db' = db \/ AtOneNext(db')) /\ \A b \in Actors : AtOneNext(loc'[b].rec)
    BY <1>15, <1>0, <1>a, RetryFailedReadEffect, ActorNames, RequestNames, RecordTypes
    DEF AtOneNext, Moves, ThrowMoves, StoreSame
  <2> QED BY <1>a, <2>1, HeldIf
<1>16. ASSUME RetryFailedCheck PROVE HeldAtOne'
  <2>1. (db' = db \/ AtOneNext(db')) /\ \A b \in Actors : AtOneNext(loc'[b].rec)
    BY <1>16, <1>0, <1>a, RetryFailedCheckEffect, ActorNames, RequestNames, RecordTypes
    DEF AtOneNext, Moves, ThrowMoves, StoreSame
  <2> QED BY <1>a, <2>1, HeldIf
<1>17. ASSUME RetryFailedRemove PROVE HeldAtOne'
  <2>1. (db' = db \/ AtOneNext(db')) /\ \A b \in Actors : AtOneNext(loc'[b].rec)
    BY <1>17, <1>0, <1>a, RetryFailedRemoveEffect, ActorNames, RequestNames, RecordTypes
    DEF AtOneNext, Moves, ThrowMoves, StoreSame
  <2> QED BY <1>a, <2>1, HeldIf
<1>18. ASSUME SyncRetryRead PROVE HeldAtOne'
  <2>1. (db' = db \/ AtOneNext(db')) /\ \A b \in Actors : AtOneNext(loc'[b].rec)
    BY <1>18, <1>0, <1>a, SyncRetryReadEffect, ActorNames, RequestNames, RecordTypes
    DEF AtOneNext, Moves, ThrowMoves, StoreSame
  <2> QED BY <1>a, <2>1, HeldIf
<1>19. ASSUME SyncRetrySend PROVE HeldAtOne'
  <2>1. (db' = db \/ AtOneNext(db')) /\ \A b \in Actors : AtOneNext(loc'[b].rec)
    BY <1>19, <1>0, <1>a, SyncRetrySendEffect, ActorNames, RequestNames, RecordTypes
    DEF AtOneNext, Moves, ThrowMoves, StoreSame
  <2> QED BY <1>a, <2>1, HeldIf
<1>20. ASSUME RetryRead PROVE HeldAtOne'
  <2>1. (db' = db \/ AtOneNext(db')) /\ \A b \in Actors : AtOneNext(loc'[b].rec)
    BY <1>20, <1>0, <1>a, RetryReadEffect, ActorNames, RequestNames, RecordTypes
    DEF AtOneNext, Moves, ThrowMoves, StoreSame
  <2> QED BY <1>a, <2>1, HeldIf
<1>21. ASSUME NEW a \in Actors, Store(a) PROVE HeldAtOne'
  <2>1. (db' = db \/ AtOneNext(db')) /\ \A b \in Actors : AtOneNext(loc'[b].rec)
    BY <1>21, <1>0, <1>a, StoreEffect, ActorNames, RequestNames, RecordTypes
    DEF AtOneNext, Moves, ThrowMoves, StoreSame
  <2> QED BY <1>a, <2>1, HeldIf
<1>22. ASSUME NEW a \in Actors, Hook(a) PROVE HeldAtOne'
  <2>1. (db' = db \/ AtOneNext(db')) /\ \A b \in Actors : AtOneNext(loc'[b].rec)
    BY <1>22, <1>0, <1>a, HookEffect, ActorNames, RequestNames, RecordTypes
    DEF AtOneNext, Moves, ThrowMoves, StoreSame
  <2> QED BY <1>a, <2>1, HeldIf
<1>23. ASSUME NEW a \in Actors, AddMine(a) PROVE HeldAtOne'
  <2>1. (db' = db \/ AtOneNext(db')) /\ \A b \in Actors : AtOneNext(loc'[b].rec)
    BY <1>23, <1>0, <1>a, AddMineEffect, ActorNames, RequestNames, RecordTypes
    DEF AtOneNext, Moves, ThrowMoves, StoreSame
  <2> QED BY <1>a, <2>1, HeldIf
<1>24. ASSUME NEW a \in Actors, AddSend(a) PROVE HeldAtOne'
  <2>1. (db' = db \/ AtOneNext(db')) /\ \A b \in Actors : AtOneNext(loc'[b].rec)
    BY <1>24, <1>0, <1>a, AddSendEffect, ActorNames, RequestNames, RecordTypes
    DEF AtOneNext, Moves, ThrowMoves, StoreSame
  <2> QED BY <1>a, <2>1, HeldIf
<1>25. ASSUME NEW a \in Actors, Crash(a) PROVE HeldAtOne'
  <2>1. (db' = db \/ AtOneNext(db')) /\ \A b \in Actors : AtOneNext(loc'[b].rec)
    BY <1>25, <1>0, <1>a, CrashEffect, ActorNames, RequestNames, RecordTypes
    DEF AtOneNext, Moves, ThrowMoves, StoreSame
  <2> QED BY <1>a, <2>1, HeldIf
<1>26. ASSUME MineBlock PROVE HeldAtOne'
  BY <1>26, <1>a, HeldIf DEF MineBlock
<1>27. ASSUME OtherTakes PROVE HeldAtOne'
  BY <1>27, <1>a, HeldIf DEF OtherTakes
<1>28. ASSUME UNCHANGED vars PROVE HeldAtOne'
  BY <1>28, <1>a, HeldIf DEF vars
<1>29. ASSUME NEW r \in Resends, SendLate(r) PROVE HeldAtOne'
  <2>1. db' = db /\ \A b \in Actors : AtOneNext(loc'[b].rec)
    BY <1>29, <1>0, <1>a, SendLateEffect, ActorNames, RecordTypes
    DEF AtOneNext, ThrowMoves, StoreSame
  <2> QED BY <1>a, <2>1, HeldIf
<1> QED BY <1>1, <1>2, <1>3, <1>4, <1>5, <1>6, <1>7, <1>8, <1>9, <1>10, <1>11, <1>12, <1>13,
    <1>14, <1>15, <1>16, <1>17, <1>18, <1>19, <1>20, <1>21, <1>22, <1>23, <1>24, <1>25,
    <1>26, <1>27, <1>28, <1>29
    DEF Next, Undisturbed, WorkerStep, SendStep, MineStep, ApiStep, ActorStep

\* Every step keeps FirstDone.
LEMMA FirstDoneStep ==
  ASSUME TypeInv, SentOnce, Numbered, OneNonce, SendSurvives, LateIsLast, [Next]_vars
  PROVE  FirstDone'
<1>0. /\ TypeOK /\ Pcs /\ JobsRun /\ Numbered /\ Beginning /\ Following /\ Holding /\ OneChain
         /\ HeldAtOne
      /\ FirstDone /\ OneNonce /\ TypeInv /\ job \in [Jobs -> JobStates] /\ db \in Records
      /\ loc[RetryFailed].pc = "idle" /\ \A a \in AllRequests : a[1] = "insert" /\ a # Insert
         => loc[a].pc = "idle"
  BY NotRequested DEF TypeInv, OneNonce, TypeOK
<1>a. OneChain' /\ Grown
  BY OneChainStep
<1>1. ASSUME NEW j \in Jobs, StartJob(j) PROVE FirstDone'
  <2>1. ASSUME Submitted' # {} PROVE Submitted # {}
    BY <1>1, <1>0, <1>a, <2>1, StartJobEffect, OneChainKept DEF ChainSame
  <2> QED BY <1>1, <1>0, <2>1, StartJobEffect, InsertNames, ActorNames, RequestNames, ActorCases,
         ResendZero, RecordTypes
      DEF FirstDone, Moves, ThrowMoves, Over, JobsRun
<1>2. ASSUME NEW r \in Resends, SendRead(r) PROVE FirstDone'
  <2>1. ASSUME Submitted' # {} PROVE Submitted # {}
    BY <1>2, <1>0, <1>a, <2>1, SendReadEffect, OneChainKept DEF ChainSame
  <2> QED BY <1>2, <1>0, <2>1, SendReadEffect, InsertNames, ActorNames, RequestNames, ActorCases,
         ResendZero, RecordTypes, CompleteEffect
      DEF FirstDone, Moves, ThrowMoves, Over, JobsRun
<1>3. ASSUME NEW r \in Resends, SendFirst(r) PROVE FirstDone'
  <2>1. r = 0 /\ Submitted = {}
    BY <1>3, <1>0, FirstSubmit, SendFirstEffect
  <2>2. ASSUME Submitted' # {}
        PROVE  /\ loc'[Send(0)].pc = "store" /\ loc'[Send(0)].rec.status = "sent" /\ job' = job
               /\ loc'[Insert] = loc[Insert]
    <3>1. Submit(NextSlot, NextHash)
      BY <1>a, <2>1, <2>2 DEF Grown
    <3>2. ~ChainSame
      BY <1>0, <2>1, <2>2, OneChainKept DEF ChainSame
    <3> QED BY <1>3, <1>0, <2>1, <3>2, SendFirstEffect, InsertNames DEF Moves
  <2>3. loc[Send(0)].pc = "act" /\ job[Send(0)].state = "active" /\ loc[Insert].pc = "done"
    BY <1>3, <1>0, <2>1, SendFirstEffect, InsertNames DEF JobsRun, Beginning
  <2> QED BY <2>2, <2>3 DEF FirstDone
<1>4. ASSUME NEW r \in Resends, SendAgain(r) PROVE FirstDone'
  <2>1. Send(r) \in Actors /\ loc[Send(r)].rec.status = "sent"
    BY <1>4, <1>0, SendAgainEffect, ActorNames, RequestNames DEF Holding
  <2>2. Submitted # {}
    BY <1>0, <2>1 DEF HeldAtOne, AtOne
  <2>3. Send(r) # Send(0) /\ Send(r) \in Jobs
    BY <1>4, <1>0, <2>2, SendAgainEffect, ActorNames DEF FirstDone
  <2>4. loc'[Send(0)] = loc[Send(0)] /\ loc'[Insert] = loc[Insert]
    BY <1>4, <1>0, <2>3, SendAgainEffect, InsertNames, ActorNames, ResendZero
    DEF Moves, ThrowMoves
  <2>5. job'[Send(0)] = job[Send(0)]
    BY <1>4, <1>0, <2>3, SendAgainEffect, InsertNames, CompleteEffect DEF ThrowMoves
  <2> QED BY <1>0, <2>2, <2>4, <2>5 DEF FirstDone
<1>5. ASSUME NEW r \in Resends, SendFailedRead(r) PROVE FirstDone'
  <2>1. ASSUME Submitted' # {} PROVE Submitted # {}
    BY <1>5, <1>0, <1>a, <2>1, SendFailedReadEffect, OneChainKept DEF ChainSame
  <2> QED BY <1>5, <1>0, <2>1, SendFailedReadEffect, InsertNames, ActorNames, RequestNames,
         ActorCases, ResendZero, RecordTypes
      DEF FirstDone, Moves, ThrowMoves, Over, JobsRun
<1>6. ASSUME MineRead PROVE FirstDone'
  <2>1. ASSUME Submitted' # {} PROVE Submitted # {}
    BY <1>6, <1>0, <1>a, <2>1, MineReadEffect, OneChainKept DEF ChainSame
  <2> QED BY <1>6, <1>0, <2>1, MineReadEffect, InsertNames, ActorNames, RequestNames, ActorCases,
         ResendZero, RecordTypes, CompleteEffect
      DEF FirstDone, Moves, ThrowMoves, Over, JobsRun
<1>7. ASSUME MineFound PROVE FirstDone'
  <2>1. ASSUME Submitted' # {} PROVE Submitted # {}
    BY <1>7, <1>0, <1>a, <2>1, MineFoundEffect, OneChainKept DEF ChainSame
  <2> QED BY <1>7, <1>0, <2>1, MineFoundEffect, InsertNames, ActorNames, RequestNames, ActorCases,
         ResendZero, RecordTypes
      DEF FirstDone, Moves, ThrowMoves, Over, JobsRun
<1>8. ASSUME MineNotYet PROVE FirstDone'
  <2>1. ASSUME Submitted' # {} PROVE Submitted # {}
    BY <1>8, <1>0, <1>a, <2>1, MineNotYetEffect, OneChainKept DEF ChainSame
  <2>2. job'[Send(0)] = job[Send(0)] /\ loc'[Insert] = loc[Insert] /\ loc'[Send(0)] = loc[Send(0)]
    BY <1>8, <1>0, MineKeepsFirst, MineNotYetEffect, InsertNames, ActorNames, ResendZero
    DEF ThrowMoves
  <2> QED BY <1>0, <2>1, <2>2 DEF FirstDone
<1>9. ASSUME MineFailedRead PROVE FirstDone'
  <2>1. ASSUME Submitted' # {} PROVE Submitted # {}
    BY <1>9, <1>0, <1>a, <2>1, MineFailedReadEffect, OneChainKept DEF ChainSame
  <2> QED BY <1>9, <1>0, <2>1, MineFailedReadEffect, InsertNames, ActorNames, RequestNames,
         ActorCases, ResendZero, RecordTypes
      DEF FirstDone, Moves, ThrowMoves, Over, JobsRun
<1>10. ASSUME MineFailedRelease PROVE FirstDone'
  <2>1. ASSUME Submitted' # {} PROVE Submitted # {}
    BY <1>10, <1>0, <1>a, <2>1, MineFailedReleaseEffect, OneChainKept DEF ChainSame
  <2> QED BY <1>10, <1>0, <2>1, MineFailedReleaseEffect, InsertNames, ActorNames, RequestNames,
         ActorCases, ResendZero, RecordTypes
      DEF FirstDone, Moves, ThrowMoves, Over, JobsRun
<1>11. ASSUME NEW a \in AllRequests, InsertRead(a) PROVE FirstDone'
  <2>1. ASSUME Submitted' # {} PROVE Submitted # {}
    BY <1>11, <1>0, <1>a, <2>1, InsertReadEffect, OneChainKept DEF ChainSame
  <2> QED BY <1>11, <1>0, <2>1, InsertReadEffect, InsertNames, ActorNames, RequestNames,
         ActorCases, ResendZero, RecordTypes
      DEF FirstDone, Moves, ThrowMoves, Over, JobsRun
<1>12. ASSUME CancelRead PROVE FirstDone'
  <2>1. ASSUME Submitted' # {} PROVE Submitted # {}
    BY <1>12, <1>0, <1>a, <2>1, CancelReadEffect, OneChainKept DEF ChainSame
  <2> QED BY <1>12, <1>0, <2>1, CancelReadEffect, InsertNames, ActorNames, RequestNames,
         ActorCases, ResendZero, RecordTypes
      DEF FirstDone, Moves, ThrowMoves, Over, JobsRun
<1>13. ASSUME CancelRemove PROVE FirstDone'
  <2>1. ASSUME Submitted' # {} PROVE Submitted # {}
    BY <1>13, <1>0, <1>a, <2>1, CancelRemoveEffect, OneChainKept DEF ChainSame
  <2> QED BY <1>13, <1>0, <2>1, CancelRemoveEffect, InsertNames, ActorNames, RequestNames,
         ActorCases, ResendZero, RecordTypes, JobEffects
      DEF FirstDone, Moves, ThrowMoves, Over, JobsRun
<1>14. ASSUME CancelSend PROVE FirstDone'
  <2>1. Cancel \in Actors /\ loc[Cancel].rec.status = "sent"
    BY <1>14, <1>0, CancelSendEffect, ActorNames, RequestNames DEF Holding
  <2>2. Submitted # {}
    BY <1>0, <2>1 DEF HeldAtOne, AtOne
  <2> QED BY <1>14, <1>0, <2>2, CancelSendEffect, InsertNames, ActorNames, RequestNames,
         ActorCases, ResendZero, RecordTypes
      DEF FirstDone, Moves, ThrowMoves, Over, JobsRun
<1>15. ASSUME RetryFailedRead PROVE FirstDone'
  <2>1. ASSUME Submitted' # {} PROVE Submitted # {}
    BY <1>15, <1>0, <1>a, <2>1, RetryFailedReadEffect, OneChainKept DEF ChainSame
  <2> QED BY <1>15, <1>0, <2>1, RetryFailedReadEffect, InsertNames, ActorNames, RequestNames,
         ActorCases, ResendZero, RecordTypes
      DEF FirstDone, Moves, ThrowMoves, Over, JobsRun
<1>16. ASSUME RetryFailedCheck PROVE FirstDone'
  <2>1. ASSUME Submitted' # {} PROVE Submitted # {}
    BY <1>16, <1>0, <1>a, <2>1, RetryFailedCheckEffect, OneChainKept DEF ChainSame
  <2> QED BY <1>16, <1>0, <2>1, RetryFailedCheckEffect, InsertNames, ActorNames, RequestNames,
         ActorCases, ResendZero, RecordTypes
      DEF FirstDone, Moves, ThrowMoves, Over, JobsRun
<1>17. ASSUME RetryFailedRemove PROVE FirstDone'
  <2>1. ASSUME Submitted' # {} PROVE Submitted # {}
    BY <1>17, <1>0, <1>a, <2>1, RetryFailedRemoveEffect, OneChainKept DEF ChainSame
  <2> QED BY <1>17, <1>0, <2>1, RetryFailedRemoveEffect, InsertNames, ActorNames, RequestNames,
         ActorCases, ResendZero, RecordTypes, JobEffects
      DEF FirstDone, Moves, ThrowMoves, Over, JobsRun
<1>18. ASSUME SyncRetryRead PROVE FirstDone'
  <2>1. ASSUME Submitted' # {} PROVE Submitted # {}
    BY <1>18, <1>0, <1>a, <2>1, SyncRetryReadEffect, OneChainKept DEF ChainSame
  <2> QED BY <1>18, <1>0, <2>1, SyncRetryReadEffect, InsertNames, ActorNames, RequestNames,
         ActorCases, ResendZero, RecordTypes
      DEF FirstDone, Moves, ThrowMoves, Over, JobsRun
<1>19. ASSUME SyncRetrySend PROVE FirstDone'
  <2>1. SyncRetry \in Actors /\ loc[SyncRetry].rec.status = "sent"
    BY <1>19, <1>0, SyncRetrySendEffect, ActorNames, RequestNames DEF Holding
  <2>2. Submitted # {}
    BY <1>0, <2>1 DEF HeldAtOne, AtOne
  <2> QED BY <1>19, <1>0, <2>2, SyncRetrySendEffect, InsertNames, ActorNames, RequestNames,
         ActorCases, ResendZero, RecordTypes
      DEF FirstDone, Moves, ThrowMoves, Over, JobsRun
<1>20. ASSUME RetryRead PROVE FirstDone'
  <2>1. ASSUME Submitted' # {} PROVE Submitted # {}
    BY <1>20, <1>0, <1>a, <2>1, RetryReadEffect, OneChainKept DEF ChainSame
  <2> QED BY <1>20, <1>0, <2>1, RetryReadEffect, InsertNames, ActorNames, RequestNames,
         ActorCases, ResendZero, RecordTypes
      DEF FirstDone, Moves, ThrowMoves, Over, JobsRun
<1>21. ASSUME NEW a \in Actors, Store(a) PROVE FirstDone'
  <2>1. ASSUME Submitted' # {} PROVE Submitted # {}
    BY <1>21, <1>0, <1>a, <2>1, StoreEffect, OneChainKept DEF ChainSame
  <2> QED BY <1>21, <1>0, <2>1, StoreEffect, InsertNames, ActorNames, RequestNames, ActorCases,
         ResendZero, RecordTypes
      DEF FirstDone, Moves, ThrowMoves, Over, JobsRun
<1>22. ASSUME NEW a \in Actors, Hook(a) PROVE FirstDone'
  <2>1. ASSUME Submitted' # {} PROVE Submitted # {}
    BY <1>22, <1>0, <1>a, <2>1, HookEffect, OneChainKept DEF ChainSame
  <2> QED BY <1>22, <1>0, <2>1, HookEffect, InsertNames, ActorNames, RequestNames, ActorCases,
         ResendZero, RecordTypes, CompleteEffect
      DEF FirstDone, Moves, ThrowMoves, Over, JobsRun
<1>23. ASSUME NEW a \in Actors, AddMine(a) PROVE FirstDone'
  <2>1. ASSUME Submitted' # {} PROVE Submitted # {}
    BY <1>23, <1>0, <1>a, <2>1, AddMineEffect, OneChainKept DEF ChainSame
  <2>2. /\ job[Send(0)].state # "waiting" => job'[Send(0)].state # "waiting"
        /\ loc'[Insert] = loc[Insert] /\ (loc'[Send(0)] = loc[Send(0)] \/ loc'[Send(0)].pc = "idle")
    <3>1. job[Send(0)].state # "waiting" => job'[Send(0)].state # "waiting"
      BY <1>23, <1>0, AddMineFirst
    <3>2. Send(0) # SyncRetry
      BY ActorNames, RequestNames, ResendZero
    <3>3. loc'[Insert] = loc[Insert] /\ (loc'[Send(0)] = loc[Send(0)] \/ loc'[Send(0)].pc = "idle")
      BY <1>23, <1>0, <3>2, AddMineEffect, InsertNames DEF Moves
    <3> QED BY <3>1, <3>3
  <2> QED BY <1>0, <2>1, <2>2 DEF FirstDone
<1>24. ASSUME NEW a \in Actors, AddSend(a) PROVE FirstDone'
  <2>1. ASSUME Submitted' # {} PROVE Submitted # {}
    BY <1>24, <1>0, <1>a, <2>1, AddSendEffect, OneChainKept DEF ChainSame
  <2>2. ASSUME Submitted # {}
        PROVE  job'[Send(0)] = job[Send(0)] /\ loc'[Insert] = loc[Insert]
               /\ loc'[Send(0)] = loc[Send(0)]
    <3>1. a = Retry
      BY <1>24, <1>0, <2>2, AddSendEffect DEF FirstDone
    <3> QED BY <1>24, <1>0, <3>1, RetryKeepsFirst, AddSendEffect, InsertNames, ActorNames,
           RequestNames
        DEF Moves
  <2> QED BY <1>0, <2>1, <2>2 DEF FirstDone
<1>25. ASSUME NEW a \in Actors, Crash(a) PROVE FirstDone'
  <2>1. ASSUME Submitted' # {} PROVE Submitted # {}
    BY <1>25, <1>0, <1>a, <2>1, CrashEffect, OneChainKept DEF ChainSame
  <2> QED BY <1>25, <1>0, <2>1, CrashEffect, InsertNames, ActorNames, RequestNames, ActorCases,
         ResendZero, RecordTypes
      DEF FirstDone, Moves, ThrowMoves, Over, JobsRun, SendSurvives
<1>26. ASSUME MineBlock PROVE FirstDone'
  <2>1. Submitted' = Submitted
    BY <1>26 DEF MineBlock, Submitted
  <2> QED BY <1>26, <1>0, <2>1 DEF MineBlock, FirstDone
<1>27. ASSUME OtherTakes PROVE FirstDone'
  <2>1. Submitted' = Submitted
    BY <1>27 DEF OtherTakes, Submitted
  <2> QED BY <1>27, <1>0, <2>1 DEF OtherTakes, FirstDone
<1>28. ASSUME UNCHANGED vars PROVE FirstDone'
  BY <1>28, <1>0, OneChainKept DEF vars, FirstDone
<1>29. ASSUME NEW r \in Resends, SendLate(r) PROVE FirstDone'
  <2>1. Send(r) \in Jobs /\ Send(r) \in Actors /\ loc'[Insert] = loc[Insert]
    BY <1>29, <1>0, SendLateEffect, InsertNames, ActorNames DEF ThrowMoves
  <2>2. CASE loc[Send(r)].rec.status = "queued"
    <3>1. r = 0 /\ job'[Send(r)].state = "failed"
      BY <1>29, <1>0, <2>2, FirstSubmit, SendLateEffect DEF LateIsLast
    <3>2. loc'[Send(0)].pc = "idle"
      BY <1>29, <1>0, <3>1, SendLateEffect DEF ThrowMoves
    <3>3. loc[Insert].pc = "done"
      BY <1>29, <1>0, <3>1, SendLateEffect, InsertNames DEF JobsRun, Beginning
    <3> QED BY <2>1, <3>1, <3>2, <3>3 DEF FirstDone
  <2>3. CASE loc[Send(r)].rec.status = "sent"
    <3>1. Submitted # {}
      BY <1>0, <2>1, <2>3 DEF HeldAtOne, AtOne
    <3>2. Send(r) # Send(0)
      BY <1>29, <1>0, <3>1, SendLateEffect DEF FirstDone
    <3>3. loc'[Send(0)] = loc[Send(0)] /\ job'[Send(0)] = job[Send(0)]
      BY <1>29, <1>0, <3>2, SendLateEffect, InsertNames, ActorNames, ResendZero DEF ThrowMoves
    <3> QED BY <1>0, <2>1, <3>1, <3>3 DEF FirstDone
  <2> QED BY <1>29, <1>0, <2>2, <2>3, SendLateEffect
<1> QED BY <1>1, <1>2, <1>3, <1>4, <1>5, <1>6, <1>7, <1>8, <1>9, <1>10, <1>11, <1>12, <1>13,
    <1>14, <1>15, <1>16, <1>17, <1>18, <1>19, <1>20, <1>21, <1>22, <1>23, <1>24, <1>25,
    <1>26, <1>27, <1>28, <1>29
    DEF Next, Undisturbed, WorkerStep, SendStep, MineStep, ApiStep, ActorStep

\* A transaction is executed at most once, however often it is resent or
\* cancelled, if its key is inserted once, no failed transaction is retried, the
\* send worker does not stop between submitting it and the end of its job, and
\* getBlockNumberish does not fail after the first submission but in a last attempt.
THEOREM ExecutedOnce ==
  ASSUME SentOnce
  PROVE  Spec /\ [][SendSurvives /\ LateIsLast]_vars => []ExecutedAtMostOnce
<1>1. Init => Numbered /\ OneNonce
  <2> SUFFICES ASSUME Init PROVE Numbered /\ OneNonce
    OBVIOUS
  <2>1. Submitted = {} /\ 1..0 = {} /\ 0 \in 0..MaxHashes
    BY LifecycleAssumption DEF Init, Submitted
  <2>2. \A a \in Actors : loc[a].rec = NoRecord /\ loc[a].pc \in {"idle", "read"}
    BY DEF Init, Idle
  <2>3. \A j \in Jobs : job[j].state = "absent"
    BY RecordTypes DEF Init
  <2>4. Beginning /\ Following /\ Holding
    BY <2>2, <2>3, InsertNames, ActorNames, RequestNames, ActorCases, RecordTypes
       DEF Init, Beginning, Following, Holding
  <2>5. OneChain /\ HeldAtOne /\ FirstDone
    BY <2>1, <2>2, RecordTypes DEF Init, OneChain, HeldAtOne, AtOne, FirstDone
  <2> QED BY <2>1, <2>4, <2>5 DEF Init, Numbered, OneNonce
<1>2. TypeInv /\ Numbered /\ OneNonce /\ [Next]_vars /\ [SendSurvives /\ LateIsLast]_vars
        => Numbered' /\ OneNonce'
  <2>1. ASSUME TypeInv, Numbered, OneNonce, [Next]_vars, SendSurvives, LateIsLast
        PROVE  Numbered' /\ OneNonce'
    BY <2>1, ChainStep, BeginningStep, FollowingStep, HoldingStep, OneChainStep, HeldStep,
       FirstDoneStep
       DEF ChainGrows, OneNonce
  <2>2. ASSUME Numbered, OneNonce, UNCHANGED vars
        PROVE  Numbered' /\ OneNonce'
    <3>1. Submitted' = Submitted
      BY <2>2 DEF vars, Submitted
    <3> QED BY <2>2, <3>1
            DEF vars, Numbered, OneNonce, Beginning, Following, Holding, OneChain, HeldAtOne,
                AtOne, FirstDone
  <2> QED BY <2>1, <2>2
<1>3. TypeInv /\ OneNonce => ExecutedAtMostOnce
  <2> SUFFICES ASSUME TypeInv, OneNonce PROVE ExecutedAtMostOnce
    OBVIOUS
  <2>1. 0 \notin Submitted /\ -1 \notin Submitted
    BY LifecycleAssumption DEF Submitted, Hashes
  <2>2. Executed \subseteq {1}
    BY <2>1 DEF Executed, OneNonce, OneChain
  <2>3. IsFiniteSet({1}) /\ Cardinality({1}) = 1
    BY FS_Singleton
  <2>4. Cardinality(Executed) <= Cardinality({1})
    BY <2>2, <2>3, FS_Subset
  <2> QED BY <2>3, <2>4 DEF ExecutedAtMostOnce
<1> QED BY <1>1, <1>2, <1>3, TypeInvariant, PTL DEF Spec

----------------------------------------------------------------------------
(* No transaction is left behind                                           *)

\* Nothing stops or is rejected, nothing is resent, and the requests are an
\* insert, a cancel and a retry of a failed transaction.
Plain == MaxFaults = 0 /\ MaxResends = 0 /\ Requests \subseteq {Insert, Cancel, RetryFailed}

\* Whose turn it is to bring the transaction further, given jobs and actors.
Turn(a, js, ls) ==
  \/ a = Insert /\ ls[a].pc \in {"read", "store", "addSend"}
  \/ a = Send(0) /\ \/ js[a].state = "waiting" \/ ls[a].pc \in {"read", "act", "store", "addMine"}
                    \/ ls[a].pc = "hook" /\ ls[a].rec.status = "sent"
  \/ a = SendFailed(0) /\ ls[a].pc \in {"read", "store"}
  \/ a = Mine /\ (js[a].state = "waiting" \/ ls[a].pc \in {"read", "act", "store"})
  \/ a = MineFailed /\ ls[a].pc \in {"read", "store"}
  \/ a = RetryFailed /\ ls[a].pc \in {"act", "remove", "addSend"}

\* It is one actor's turn at a time.
OneTurn == \A a, b \in Actors : Turn(a, job, loc) /\ Turn(b, job, loc) => a = b

\* The send worker has not stored what it sent.
Unsent(js, ls) == js[Send(0)].state = "waiting" \/ ls[Send(0)].pc \in {"read", "act", "store"}

\* The status of the record each actor works on, or writes.
Writing ==
  /\ loc[Send(0)].pc = "act" => loc[Send(0)].rec.status = "queued"
  /\ loc[Send(0)].pc = "store" => loc[Send(0)].rec.status \in {"sent", "errored"}
  /\ loc[SendFailed(0)].pc = "store" => loc[SendFailed(0)].rec.status = "errored"
  /\ loc[Mine].pc = "store" => loc[Mine].rec.status = "mined"
  /\ loc[MineFailed].pc = "store" => loc[MineFailed].rec.status = "errored"
  /\ loc[Cancel].pc = "store" => loc[Cancel].rec.status = "cancelled"
  /\ loc[Insert].pc = "store" => loc[Insert].rec.status = "queued"

\* Before the insert is done ...
BeforeSend ==
  /\ loc[Insert].pc # "done" => job[Send(0)].state = "absent" /\ job[Mine].state = "absent"
  /\ loc[Insert].pc \in {"idle", "read", "store"} =>
       /\ db.status = "none"
       /\ \A a \in Actors : a # Insert => loc[a].pc \in {"idle", "read", "done"}
  /\ loc[Insert].pc = "addSend" => db.status \in {"queued", "cancelled"}
  /\ db.status = "none" => loc[Insert].pc \in {"idle", "read", "store"}

\* ... while it is being sent ...
WhileSending ==
  /\ Turn(Send(0), job, loc) => job[Mine].state = "absent"
  /\ Unsent(job, loc) => db.status \in {"queued", "errored", "cancelled"}

\* ... and while it is retried.
WhileRetrying ==
  /\ loc[RetryFailed].pc \in {"act", "remove", "addSend"} => db.status \in {"errored", "cancelled"}
  /\ loc[RetryFailed].pc = "addSend" => job[Send(0)].state = "absent" /\ job[Mine].state = "absent"
  /\ loc[RetryFailed].pc \in {"idle", "read"} /\ db.status = "errored" =>
       \A a \in Actors : ~Turn(a, job, loc)

\* Someone takes care of a queued and of a sent transaction.
Covered ==
  /\ db.status = "queued" => \/ loc[Insert].pc = "addSend" \/ Unsent(job, loc)
                             \/ loc[SendFailed(0)].pc \in {"read", "store"} \/ loc[Cancel].pc = "store"
  /\ db.status = "sent" => \/ Turn(Send(0), job, loc) /\ ~Unsent(job, loc)
                           \/ Turn(Mine, job, loc) \/ loc[MineFailed].pc \in {"read", "store"}

PlainInv == OneTurn /\ Writing /\ BeforeSend /\ WhileSending /\ WhileRetrying /\ Covered

\* The actors of this section are different.
LEMMA PlainNames ==
  /\ Send(0) \in Actors /\ SendFailed(0) \in Actors /\ Mine \in Actors /\ MineFailed \in Actors
  /\ Insert \in Actors /\ Cancel \in Actors /\ RetryFailed \in Actors /\ SyncRetry \in Actors
     /\ Retry \in Actors
  /\ Send(0) \notin {SendFailed(0), Mine, MineFailed, Insert, Cancel, RetryFailed, SyncRetry, Retry}
  /\ SendFailed(0) \notin {Mine, MineFailed, Insert, Cancel, RetryFailed, SyncRetry, Retry}
  /\ Mine \notin {MineFailed, Insert, Cancel, RetryFailed, SyncRetry, Retry}
  /\ MineFailed \notin {Insert, Cancel, RetryFailed, SyncRetry, Retry}
  /\ Insert \notin {Cancel, RetryFailed, SyncRetry, Retry}
  /\ Cancel \notin {RetryFailed, SyncRetry, Retry} /\ RetryFailed \notin {SyncRetry, Retry}
     /\ SyncRetry # Retry
  /\ Send(0) \in Jobs /\ Mine \in Jobs /\ Send(0) \in SendJobs /\ Mine \notin SendJobs
  /\ {SendFailed(0), MineFailed, Insert, Cancel, RetryFailed, SyncRetry, Retry} \cap Jobs = {}
<1>1. /\ Send(0) \in Actors /\ SendFailed(0) \in Actors /\ Mine \in Actors /\ MineFailed \in Actors
      /\ Send(0) \in Jobs /\ Mine \in Jobs /\ Send(0) \in SendJobs /\ Mine \notin SendJobs
      /\ SendFailed(0) \notin Jobs /\ MineFailed \notin Jobs
  BY ActorNames, ResendZero
<1>2. {Insert, Cancel, RetryFailed, SyncRetry, Retry} \subseteq AllRequests
  BY RequestNames, InsertNames
<1>3. \A a \in AllRequests : a \in Actors /\ a \notin Jobs
  BY ActorNames
<1>4. /\ Send(0)[1] = "send" /\ SendFailed(0)[1] = "sendFailed" /\ Mine[1] = "mine"
         /\ MineFailed[1] = "mineFailed"
      /\ Insert[1] = "insert" /\ Cancel[1] = "cancel" /\ RetryFailed[1] = "retryFailed"
      /\ SyncRetry[1] = "syncRetry" /\ Retry[1] = "retry"
  BY ActorNames, RequestNames, InsertNames, ResendZero
<1> QED BY <1>1, <1>2, <1>3, <1>4

\* Who never moves, and what never happens.
LEMMA PlainFacts ==
  ASSUME TypeInv, Plain
  PROVE  /\ \A r \in Resends : r = 0
         /\ \A j \in Jobs : j = Send(0) \/ j = Mine
         /\ faults = 0 /\ MaxFaults = 0
         /\ loc[SyncRetry].pc = "idle" /\ loc[Retry].pc = "idle"
         /\ \A a \in AllRequests : a[1] = "insert" /\ a # Insert => loc[a].pc = "idle"
         /\ \A a \in AllRequests : a = Insert \/ a = Cancel \/ a = RetryFailed \/ loc[a].pc = "idle"
<1>1. Resends = {0}
  BY DEF Plain, Resends
<1>2. \A j \in Jobs : j = Send(0) \/ j = Mine
  BY <1>1, ActorCases
<1>3. faults = 0 /\ MaxFaults = 0
  BY DEF TypeInv, TypeOK, Plain
<1>4. \A a \in AllRequests : a = Insert \/ a = Cancel \/ a = RetryFailed \/ loc[a].pc = "idle"
  BY DEF Plain, TypeInv, Pcs
<1>5. SyncRetry \in AllRequests /\ Retry \in AllRequests /\ Cancel[1] # "insert"
      /\ RetryFailed[1] # "insert"
  BY RequestNames
<1>6. loc[SyncRetry].pc = "idle" /\ loc[Retry].pc = "idle"
  BY <1>4, <1>5, PlainNames
<1>7. \A a \in AllRequests : a[1] = "insert" /\ a # Insert => loc[a].pc = "idle"
  BY <1>4, <1>5
<1> QED BY <1>1, <1>2, <1>3, <1>4, <1>6, <1>7

\* In a plain instance the mine worker queues no resend.
LEMMA PlainMineNotYet ==
  ASSUME TypeInv, Plain, MineNotYet
  PROVE  StoreSame /\ loc[Mine].pc = "act" /\ ThrowMoves(job, Mine, MineFailed, MineAttempts)
<1>1. loc[Mine].rec.resendCount \in Nat /\ \A r \in Resends : r = 0
  BY PlainFacts, PlainNames, RecordTypes, ResendZero DEF TypeInv, TypeOK
<1> QED BY <1>1, MineNotYetEffect DEF TypeInv

\* Only the send worker adds the mine job.
LEMMA PlainAddMine ==
  ASSUME TypeInv, Plain, NEW a \in Actors, AddMine(a)
  PROVE  /\ StoreSame /\ a = Send(0) /\ loc[a].pc = "addMine" /\ Moves(a, "idle", NoRecord)
         /\ job'[Send(0)].state = "completed"
         /\ job[Mine].state = "absent" => job'[Mine].state = "waiting"
<1>0. TypeOK /\ Pcs /\ \A r \in Resends : r = 0
  BY PlainFacts DEF TypeInv
<1>1. StoreSame /\ a = Send(0) /\ loc[a].pc = "addMine" /\ Moves(a, "idle", NoRecord)
      /\ job' = Added(Complete(a), Mine)
  BY <1>0, AddMineEffect, PlainFacts
<1>2. /\ Complete(a) \in [Jobs -> JobStates] /\ Complete(a)[Send(0)].state = "completed"
      /\ Complete(a)[Mine] = job[Mine]
  BY <1>0, <1>1, CompleteEffect, PlainNames
<1>3. Added(Complete(a), Mine)[Send(0)] = Complete(a)[Send(0)]
  BY <1>2, AbsentKept, PlainNames
<1>4. job[Mine].state = "absent" => Added(Complete(a), Mine)[Mine] = FreshJob
  <2> DEFINE js == Complete(a)
  <2>1. js \in [Jobs -> JobStates] /\ js[Mine] = job[Mine] /\ Mine \in Jobs
    BY <1>2, PlainNames
  <2> HIDE DEF js
  <2>2. Added(js, Mine)[Mine] = IF js[Mine].state = "absent" THEN FreshJob ELSE js[Mine]
    BY <2>1, JobEffects
  <2> QED BY <2>1, <2>2 DEF js
<1> QED BY <1>1, <1>2, <1>3, <1>4, RecordTypes

\* Only insert and retry-failed add the send job.
LEMMA PlainAddSend ==
  ASSUME TypeInv, Plain, NEW a \in Actors, AddSend(a)
  PROVE  /\ StoreSame /\ (a = Insert \/ a = RetryFailed) /\ loc[a].pc = "addSend"
            /\ Moves(a, "done", NoRecord)
         /\ job'[Mine] = job[Mine]
         /\ job[Send(0)].state = "absent" => job'[Send(0)].state = "waiting"
<1>0. TypeOK /\ Pcs /\ job \in [Jobs -> JobStates]
  BY DEF TypeInv, TypeOK
<1>1. /\ StoreSame /\ loc[a].pc = "addSend" /\ Moves(a, "done", NoRecord) /\ a \in AllRequests
      /\ a = Retry \/ a = RetryFailed \/ a[1] = "insert"
  BY <1>0, AddSendEffect
<1>2. a = Insert \/ a = RetryFailed
  BY <1>1, PlainFacts
<1>3. job' = Added(job, Send(0))
  BY <1>0, <1>2, AddSendEffect, PlainFacts
<1> QED BY <1>0, <1>1, <1>2, <1>3, JobEffects, RecordTypes, PlainNames

\* Who writes what, and whose turn it was.
LEMMA PlainStore ==
  ASSUME TypeInv, Plain, PlainInv, NEW a \in Actors, Store(a)
  PROVE  /\ job' = job /\ db' = loc[a].rec /\ loc[a].pc = "store"
         /\ \A b \in Actors : b # a => loc'[b] = loc[b]
         /\ loc'[a].rec = loc[a].rec /\ loc'[a].pc = IF a = Insert THEN "addSend" ELSE "hook"
         /\ \/ a = Insert /\ db'.status = "queued"
            \/ a = Send(0) /\ db'.status \in {"sent", "errored"}
            \/ a \in {SendFailed(0), MineFailed} /\ db'.status = "errored"
            \/ a = Mine /\ db'.status = "mined"
            \/ a = Cancel /\ db'.status = "cancelled"
         /\ a # Cancel => Turn(a, job, loc)
<1>1. /\ job' = job /\ db' = loc[a].rec /\ loc[a].pc = "store"
         /\ Moves(a, AfterStore(a), loc[a].rec)
      /\ \/ a[1] \in {"insert", "retry"} /\ AfterStore(a) = "addSend"
         \/ a[1] = "syncRetry" /\ AfterStore(a) = "addMine"
         \/ a[1] \notin {"insert", "retry", "syncRetry"} /\ AfterStore(a) = "hook"
  BY StoreEffect DEF TypeInv
<1>2. a \in {Insert, Send(0), SendFailed(0), Mine, MineFailed, Cancel}
  BY <1>1, ActorCases, RequestNames, PlainFacts DEF TypeInv, Pcs
<1>3. AfterStore(a) = IF a = Insert THEN "addSend" ELSE "hook"
  BY <1>1, <1>2, ActorNames, RequestNames, InsertNames, ResendZero
<1>4. \/ a = Insert /\ db'.status = "queued"
      \/ a = Send(0) /\ db'.status \in {"sent", "errored"}
      \/ a \in {SendFailed(0), MineFailed} /\ db'.status = "errored"
      \/ a = Mine /\ db'.status = "mined"
      \/ a = Cancel /\ db'.status = "cancelled"
  BY <1>1, <1>2 DEF PlainInv, Writing
<1>5. a # Cancel => Turn(a, job, loc)
  BY <1>1, <1>2 DEF Turn
<1> QED BY <1>1, <1>3, <1>4, <1>5 DEF Moves

\* Every step keeps Writing.
LEMMA WritingStep ==
  ASSUME TypeInv, Plain, PlainInv, [Next]_vars
  PROVE  Writing'
<1>0. /\ TypeOK /\ Pcs /\ JobsRun /\ OneTurn /\ Writing /\ BeforeSend /\ WhileSending
         /\ WhileRetrying /\ Covered
      /\ TypeInv /\ Plain /\ PlainInv /\ job \in [Jobs -> JobStates] /\ db \in Records
      /\ \A r \in Resends : r = 0
      /\ \A j \in Jobs : j = Send(0) \/ j = Mine
      /\ faults = 0 /\ MaxFaults = 0
      /\ loc[SyncRetry].pc = "idle" /\ loc[Retry].pc = "idle"
      /\ \A a \in AllRequests : a[1] = "insert" /\ a # Insert => loc[a].pc = "idle"
      /\ \A a \in AllRequests : a = Insert \/ a = Cancel \/ a = RetryFailed \/ loc[a].pc = "idle"
  BY PlainFacts DEF TypeInv, TypeOK, PlainInv
<1>1. ASSUME NEW j \in Jobs, StartJob(j) PROVE Writing'
  BY <1>1, <1>0, StartJobEffect, PlainNames, RequestNames DEF Writing, Moves, ThrowMoves, Over
<1>2. ASSUME NEW r \in Resends, SendRead(r) PROVE Writing'
  <2>1. r = 0 /\ db.status # "sent"
    BY <1>2, <1>0, SendReadEffect DEF WhileSending, Unsent
  <2> QED BY <1>2, <1>0, <2>1, SendReadEffect, PlainNames DEF Writing, Moves
<1>3. ASSUME NEW r \in Resends, SendFirst(r) PROVE Writing'
  BY <1>3, <1>0, SendFirstEffect, PlainNames, RequestNames DEF Writing, Moves, ThrowMoves, Over
<1>4. ASSUME NEW r \in Resends, SendAgain(r) PROVE Writing'
  BY <1>4, <1>0, SendAgainEffect DEF Writing
<1>5. ASSUME NEW r \in Resends, SendFailedRead(r) PROVE Writing'
  BY <1>5, <1>0, SendFailedReadEffect, PlainNames, RequestNames
  DEF Writing, Moves, ThrowMoves, Over
<1>6. ASSUME MineRead PROVE Writing'
  BY <1>6, <1>0, MineReadEffect, PlainNames, RequestNames DEF Writing, Moves, ThrowMoves, Over
<1>7. ASSUME MineFound PROVE Writing'
  BY <1>7, <1>0, MineFoundEffect, PlainNames, RequestNames DEF Writing, Moves, ThrowMoves, Over
<1>8. ASSUME MineNotYet PROVE Writing'
  BY <1>8, <1>0, MineNotYetEffect, PlainNames, RequestNames DEF Writing, Moves, ThrowMoves, Over
<1>9. ASSUME MineFailedRead PROVE Writing'
  BY <1>9, <1>0, MineFailedReadEffect, PlainNames, RequestNames
  DEF Writing, Moves, ThrowMoves, Over
<1>10. ASSUME MineFailedRelease PROVE Writing'
  BY <1>10, <1>0, MineFailedReleaseEffect, PlainNames, RequestNames
  DEF Writing, Moves, ThrowMoves, Over
<1>11. ASSUME NEW a \in AllRequests, InsertRead(a) PROVE Writing'
  BY <1>11, <1>0, InsertReadEffect, PlainNames, RequestNames DEF Writing, Moves, ThrowMoves, Over
<1>12. ASSUME CancelRead PROVE Writing'
  BY <1>12, <1>0, CancelReadEffect, PlainNames, RequestNames DEF Writing, Moves, ThrowMoves, Over
<1>13. ASSUME CancelRemove PROVE Writing'
  BY <1>13, <1>0, CancelRemoveEffect, PlainNames, RequestNames
  DEF Writing, Moves, ThrowMoves, Over
<1>14. ASSUME CancelSend PROVE Writing'
  BY <1>14, <1>0, CancelSendEffect, PlainNames, RequestNames DEF Writing, Moves, ThrowMoves, Over
<1>15. ASSUME RetryFailedRead PROVE Writing'
  BY <1>15, <1>0, RetryFailedReadEffect, PlainNames, RequestNames
  DEF Writing, Moves, ThrowMoves, Over
<1>16. ASSUME RetryFailedCheck PROVE Writing'
  BY <1>16, <1>0, RetryFailedCheckEffect, PlainNames, RequestNames
  DEF Writing, Moves, ThrowMoves, Over
<1>17. ASSUME RetryFailedRemove PROVE Writing'
  BY <1>17, <1>0, RetryFailedRemoveEffect, PlainNames, RequestNames
  DEF Writing, Moves, ThrowMoves, Over
<1>18. ASSUME SyncRetryRead PROVE Writing'
  BY <1>18, <1>0, SyncRetryReadEffect
<1>19. ASSUME SyncRetrySend PROVE Writing'
  BY <1>19, <1>0, SyncRetrySendEffect
<1>20. ASSUME RetryRead PROVE Writing'
  BY <1>20, <1>0, RetryReadEffect
<1>21. ASSUME NEW a \in Actors, Store(a) PROVE Writing'
  BY <1>21, <1>0, StoreEffect, PlainNames, RequestNames DEF Writing, Moves, ThrowMoves, Over
<1>22. ASSUME NEW a \in Actors, Hook(a) PROVE Writing'
  BY <1>22, <1>0, HookEffect, PlainNames, RequestNames DEF Writing, Moves, ThrowMoves, Over
<1>23. ASSUME NEW a \in Actors, AddMine(a) PROVE Writing'
  BY <1>23, <1>0, AddMineEffect, PlainNames, RequestNames DEF Writing, Moves, ThrowMoves, Over
<1>24. ASSUME NEW a \in Actors, AddSend(a) PROVE Writing'
  BY <1>24, <1>0, AddSendEffect, PlainNames, RequestNames DEF Writing, Moves, ThrowMoves, Over
<1>25. ASSUME NEW a \in Actors, Crash(a) PROVE Writing'
  BY <1>25, <1>0, CrashEffect
<1>26. ASSUME MineBlock PROVE Writing'
  BY <1>26, <1>0 DEF MineBlock, Writing
<1>27. ASSUME OtherTakes PROVE Writing'
  BY <1>27, <1>0 DEF OtherTakes, Writing
<1>28. ASSUME UNCHANGED vars PROVE Writing'
  BY <1>28, <1>0 DEF vars, Writing
<1>29. ASSUME NEW r \in Resends, SendLate(r) PROVE Writing'
  BY <1>29, <1>0, SendLateEffect
<1> QED BY <1>1, <1>2, <1>3, <1>4, <1>5, <1>6, <1>7, <1>8, <1>9, <1>10, <1>11, <1>12, <1>13,
    <1>14, <1>15, <1>16, <1>17, <1>18, <1>19, <1>20, <1>21, <1>22, <1>23, <1>24, <1>25,
    <1>26, <1>27, <1>28, <1>29
    DEF Next, Undisturbed, WorkerStep, SendStep, MineStep, ApiStep, ActorStep

\* Every step keeps OneTurn.
LEMMA OneTurnStep ==
  ASSUME TypeInv, Plain, PlainInv, [Next]_vars
  PROVE  OneTurn'
<1>0. /\ TypeOK /\ Pcs /\ JobsRun /\ OneTurn /\ Writing /\ BeforeSend /\ WhileSending
         /\ WhileRetrying /\ Covered
      /\ TypeInv /\ Plain /\ PlainInv /\ job \in [Jobs -> JobStates] /\ db \in Records
      /\ \A r \in Resends : r = 0
      /\ \A j \in Jobs : j = Send(0) \/ j = Mine
      /\ faults = 0 /\ MaxFaults = 0
      /\ loc[SyncRetry].pc = "idle" /\ loc[Retry].pc = "idle"
      /\ \A a \in AllRequests : a[1] = "insert" /\ a # Insert => loc[a].pc = "idle"
      /\ \A a \in AllRequests : a = Insert \/ a = Cancel \/ a = RetryFailed \/ loc[a].pc = "idle"
  BY PlainFacts DEF TypeInv, TypeOK, PlainInv
<1>1. ASSUME NEW j \in Jobs, StartJob(j) PROVE OneTurn'
  BY <1>1, <1>0, StartJobEffect, PlainNames, RequestNames, RecordTypes
  DEF OneTurn, Turn, Moves, ThrowMoves, Over, JobsRun
<1>2. ASSUME NEW r \in Resends, SendRead(r) PROVE OneTurn'
  BY <1>2, <1>0, SendReadEffect, PlainNames, RequestNames, RecordTypes, CompleteEffect
  DEF OneTurn, Turn, Moves, ThrowMoves, Over, JobsRun
<1>3. ASSUME NEW r \in Resends, SendFirst(r) PROVE OneTurn'
  BY <1>3, <1>0, SendFirstEffect, PlainNames, RequestNames, RecordTypes
  DEF OneTurn, Turn, Moves, ThrowMoves, Over, JobsRun
<1>4. ASSUME NEW r \in Resends, SendAgain(r) PROVE OneTurn'
  BY <1>4, <1>0, SendAgainEffect DEF Writing
<1>5. ASSUME NEW r \in Resends, SendFailedRead(r) PROVE OneTurn'
  BY <1>5, <1>0, SendFailedReadEffect, PlainNames, RequestNames, RecordTypes
  DEF OneTurn, Turn, Moves, ThrowMoves, Over, JobsRun
<1>6. ASSUME MineRead PROVE OneTurn'
  BY <1>6, <1>0, MineReadEffect, PlainNames, RequestNames, RecordTypes, CompleteEffect
  DEF OneTurn, Turn, Moves, ThrowMoves, Over, JobsRun
<1>7. ASSUME MineFound PROVE OneTurn'
  BY <1>7, <1>0, MineFoundEffect, PlainNames, RequestNames, RecordTypes
  DEF OneTurn, Turn, Moves, ThrowMoves, Over, JobsRun
<1>8. ASSUME MineNotYet PROVE OneTurn'
  BY <1>8, <1>0, PlainMineNotYet, PlainNames DEF OneTurn, Turn, ThrowMoves
<1>9. ASSUME MineFailedRead PROVE OneTurn'
  BY <1>9, <1>0, MineFailedReadEffect, PlainNames, RequestNames, RecordTypes
  DEF OneTurn, Turn, Moves, ThrowMoves, Over, JobsRun
<1>10. ASSUME MineFailedRelease PROVE OneTurn'
  BY <1>10, <1>0, MineFailedReleaseEffect, PlainNames, RequestNames, RecordTypes
  DEF OneTurn, Turn, Moves, ThrowMoves, Over, JobsRun
<1>11. ASSUME NEW a \in AllRequests, InsertRead(a) PROVE OneTurn'
  BY <1>11, <1>0, InsertReadEffect, PlainNames, RequestNames, RecordTypes
  DEF OneTurn, Turn, Moves, ThrowMoves, Over, JobsRun
<1>12. ASSUME CancelRead PROVE OneTurn'
  BY <1>12, <1>0, CancelReadEffect, PlainNames, RequestNames, RecordTypes
  DEF OneTurn, Turn, Moves, ThrowMoves, Over, JobsRun
<1>13. ASSUME CancelRemove PROVE OneTurn'
  BY <1>13, <1>0, CancelRemoveEffect, PlainNames, RequestNames, RecordTypes, JobEffects
  DEF OneTurn, Turn, Moves, ThrowMoves, Over, JobsRun
<1>14. ASSUME CancelSend PROVE OneTurn'
  BY <1>14, <1>0, CancelSendEffect, PlainNames, RequestNames, RecordTypes
  DEF OneTurn, Turn, Moves, ThrowMoves, Over, JobsRun
<1>15. ASSUME RetryFailedRead PROVE OneTurn'
  BY <1>15, <1>0, RetryFailedReadEffect, PlainNames DEF OneTurn, Turn, Moves, WhileRetrying
<1>16. ASSUME RetryFailedCheck PROVE OneTurn'
  BY <1>16, <1>0, RetryFailedCheckEffect, PlainNames, RequestNames, RecordTypes
  DEF OneTurn, Turn, Moves, ThrowMoves, Over, JobsRun
<1>17. ASSUME RetryFailedRemove PROVE OneTurn'
  BY <1>17, <1>0, RetryFailedRemoveEffect, PlainNames, RequestNames, RecordTypes, JobEffects
  DEF OneTurn, Turn, Moves, ThrowMoves, Over, JobsRun
<1>18. ASSUME SyncRetryRead PROVE OneTurn'
  BY <1>18, <1>0, SyncRetryReadEffect
<1>19. ASSUME SyncRetrySend PROVE OneTurn'
  BY <1>19, <1>0, SyncRetrySendEffect
<1>20. ASSUME RetryRead PROVE OneTurn'
  BY <1>20, <1>0, RetryReadEffect
<1>21. ASSUME NEW a \in Actors, Store(a) PROVE OneTurn'
  BY <1>21, <1>0, StoreEffect, PlainNames, RequestNames, RecordTypes
  DEF OneTurn, Turn, Moves, ThrowMoves, Over, JobsRun
<1>22. ASSUME NEW a \in Actors, Hook(a) PROVE OneTurn'
  BY <1>22, <1>0, HookEffect, PlainNames, RequestNames, RecordTypes, CompleteEffect
  DEF OneTurn, Turn, Moves, ThrowMoves, Over, JobsRun
<1>23. ASSUME NEW a \in Actors, AddMine(a) PROVE OneTurn'
  <2>1. Turn(Send(0), job, loc) /\ job[Mine].state = "absent"
    BY <1>23, <1>0, PlainAddMine DEF Turn, WhileSending
  <2>2. ~Turn(Send(0), job', loc')
    BY <1>23, <1>0, PlainAddMine, PlainNames DEF Turn, Moves
  <2>3. \A b \in Actors : b # Send(0) /\ b # Mine /\ Turn(b, job', loc') => Turn(b, job, loc)
    BY <1>23, <1>0, PlainAddMine, PlainNames DEF Turn, Moves
  <2> QED BY <1>0, <2>1, <2>2, <2>3, PlainNames DEF OneTurn
<1>24. ASSUME NEW a \in Actors, AddSend(a) PROVE OneTurn'
  <2>1. Turn(a, job, loc)
    BY <1>24, <1>0, PlainAddSend DEF Turn
  <2>2. ~Turn(a, job', loc')
    BY <1>24, <1>0, PlainAddSend, PlainNames DEF Turn, Moves
  <2>3. \A b \in Actors : b # Send(0) /\ b # a /\ Turn(b, job', loc') => Turn(b, job, loc)
    BY <1>24, <1>0, PlainAddSend, PlainNames DEF Turn, Moves
  <2> QED BY <1>0, <2>1, <2>2, <2>3, PlainNames DEF OneTurn
<1>25. ASSUME NEW a \in Actors, Crash(a) PROVE OneTurn'
  BY <1>25, <1>0, CrashEffect
<1>26. ASSUME MineBlock PROVE OneTurn'
  BY <1>26, <1>0 DEF MineBlock, OneTurn
<1>27. ASSUME OtherTakes PROVE OneTurn'
  BY <1>27, <1>0 DEF OtherTakes, OneTurn
<1>28. ASSUME UNCHANGED vars PROVE OneTurn'
  BY <1>28, <1>0 DEF vars, OneTurn
<1>29. ASSUME NEW r \in Resends, SendLate(r) PROVE OneTurn'
  BY <1>29, <1>0, SendLateEffect
<1> QED BY <1>1, <1>2, <1>3, <1>4, <1>5, <1>6, <1>7, <1>8, <1>9, <1>10, <1>11, <1>12, <1>13,
    <1>14, <1>15, <1>16, <1>17, <1>18, <1>19, <1>20, <1>21, <1>22, <1>23, <1>24, <1>25,
    <1>26, <1>27, <1>28, <1>29
    DEF Next, Undisturbed, WorkerStep, SendStep, MineStep, ApiStep, ActorStep

\* Every step keeps BeforeSend.
LEMMA BeforeSendStep ==
  ASSUME TypeInv, Plain, PlainInv, [Next]_vars
  PROVE  BeforeSend'
<1>0. /\ TypeOK /\ Pcs /\ JobsRun /\ OneTurn /\ Writing /\ BeforeSend /\ WhileSending
         /\ WhileRetrying /\ Covered
      /\ TypeInv /\ Plain /\ PlainInv /\ job \in [Jobs -> JobStates] /\ db \in Records
      /\ \A r \in Resends : r = 0
      /\ \A j \in Jobs : j = Send(0) \/ j = Mine
      /\ faults = 0 /\ MaxFaults = 0
      /\ loc[SyncRetry].pc = "idle" /\ loc[Retry].pc = "idle"
      /\ \A a \in AllRequests : a[1] = "insert" /\ a # Insert => loc[a].pc = "idle"
      /\ \A a \in AllRequests : a = Insert \/ a = Cancel \/ a = RetryFailed \/ loc[a].pc = "idle"
  BY PlainFacts DEF TypeInv, TypeOK, PlainInv
<1>1. ASSUME NEW j \in Jobs, StartJob(j) PROVE BeforeSend'
  BY <1>1, <1>0, StartJobEffect, PlainNames, RequestNames, RecordTypes
  DEF BeforeSend, Moves, ThrowMoves, Over, JobsRun, StoreSame, Writing
<1>2. ASSUME NEW r \in Resends, SendRead(r) PROVE BeforeSend'
  BY <1>2, <1>0, SendReadEffect, PlainNames, RequestNames, RecordTypes, CompleteEffect
  DEF BeforeSend, Moves, ThrowMoves, Over, JobsRun, StoreSame, Writing
<1>3. ASSUME NEW r \in Resends, SendFirst(r) PROVE BeforeSend'
  BY <1>3, <1>0, SendFirstEffect, PlainNames, RequestNames, RecordTypes
  DEF BeforeSend, Moves, ThrowMoves, Over, JobsRun, StoreSame, Writing
<1>4. ASSUME NEW r \in Resends, SendAgain(r) PROVE BeforeSend'
  BY <1>4, <1>0, SendAgainEffect DEF Writing
<1>5. ASSUME NEW r \in Resends, SendFailedRead(r) PROVE BeforeSend'
  BY <1>5, <1>0, SendFailedReadEffect, PlainNames, RequestNames, RecordTypes
  DEF BeforeSend, Moves, ThrowMoves, Over, JobsRun, StoreSame, Writing
<1>6. ASSUME MineRead PROVE BeforeSend'
  BY <1>6, <1>0, MineReadEffect, PlainNames, RequestNames, RecordTypes, CompleteEffect
  DEF BeforeSend, Moves, ThrowMoves, Over, JobsRun, StoreSame, Writing
<1>7. ASSUME MineFound PROVE BeforeSend'
  BY <1>7, <1>0, MineFoundEffect, PlainNames, RequestNames, RecordTypes
  DEF BeforeSend, Moves, ThrowMoves, Over, JobsRun, StoreSame, Writing
<1>8. ASSUME MineNotYet PROVE BeforeSend'
  BY <1>8, <1>0, MineNotYetEffect, PlainNames, RequestNames, RecordTypes
  DEF BeforeSend, Moves, ThrowMoves, Over, JobsRun, StoreSame, Writing
<1>9. ASSUME MineFailedRead PROVE BeforeSend'
  BY <1>9, <1>0, MineFailedReadEffect, PlainNames, RequestNames, RecordTypes
  DEF BeforeSend, Moves, ThrowMoves, Over, JobsRun, StoreSame, Writing
<1>10. ASSUME MineFailedRelease PROVE BeforeSend'
  BY <1>10, <1>0, MineFailedReleaseEffect, PlainNames, RequestNames, RecordTypes
  DEF BeforeSend, Moves, ThrowMoves, Over, JobsRun, StoreSame, Writing
<1>11. ASSUME NEW a \in AllRequests, InsertRead(a) PROVE BeforeSend'
  BY <1>11, <1>0, InsertReadEffect, PlainNames, RequestNames, RecordTypes
  DEF BeforeSend, Moves, ThrowMoves, Over, JobsRun, StoreSame, Writing
<1>12. ASSUME CancelRead PROVE BeforeSend'
  BY <1>12, <1>0, CancelReadEffect, PlainNames, RequestNames, RecordTypes
  DEF BeforeSend, Moves, ThrowMoves, Over, JobsRun, StoreSame, Writing
<1>13. ASSUME CancelRemove PROVE BeforeSend'
  <2>1. loc[Insert].pc \notin {"idle", "read", "store"}
    BY <1>13, <1>0, CancelRemoveEffect, PlainNames DEF BeforeSend
  <2>2. loc'[Insert] = loc[Insert] /\ db' = db
    BY <1>13, <1>0, CancelRemoveEffect, PlainNames DEF Moves, StoreSame
  <2>3. \A j \in Jobs : job[j].state = "absent" => job'[j].state = "absent"
    BY <1>13, <1>0, CancelRemoveEffect, AbsentKept
  <2> QED BY <1>0, <2>1, <2>2, <2>3, PlainNames DEF BeforeSend
<1>14. ASSUME CancelSend PROVE BeforeSend'
  BY <1>14, <1>0, CancelSendEffect, PlainNames, RequestNames, RecordTypes
  DEF BeforeSend, Moves, ThrowMoves, Over, JobsRun, StoreSame, Writing
<1>15. ASSUME RetryFailedRead PROVE BeforeSend'
  BY <1>15, <1>0, RetryFailedReadEffect, PlainNames, RequestNames, RecordTypes
  DEF BeforeSend, Moves, ThrowMoves, Over, JobsRun, StoreSame, Writing
<1>16. ASSUME RetryFailedCheck PROVE BeforeSend'
  BY <1>16, <1>0, RetryFailedCheckEffect, PlainNames, RequestNames, RecordTypes
  DEF BeforeSend, Moves, ThrowMoves, Over, JobsRun, StoreSame, Writing
<1>17. ASSUME RetryFailedRemove PROVE BeforeSend'
  BY <1>17, <1>0, RetryFailedRemoveEffect, PlainNames, RequestNames, RecordTypes, JobEffects
  DEF BeforeSend, Moves, ThrowMoves, Over, JobsRun, StoreSame, Writing
<1>18. ASSUME SyncRetryRead PROVE BeforeSend'
  BY <1>18, <1>0, SyncRetryReadEffect
<1>19. ASSUME SyncRetrySend PROVE BeforeSend'
  BY <1>19, <1>0, SyncRetrySendEffect
<1>20. ASSUME RetryRead PROVE BeforeSend'
  BY <1>20, <1>0, RetryReadEffect
<1>21. ASSUME NEW a \in Actors, Store(a) PROVE BeforeSend'
  <2>1. job' = job /\ db' = loc[a].rec /\ loc[a].pc = "store" /\ Moves(a, AfterStore(a), loc[a].rec)
    BY <1>21, <1>0, StoreEffect
  <2>2. CASE a = Insert
    <3>1. loc'[Insert].pc = "addSend" /\ db'.status = "queued"
      BY <1>21, <1>0, <2>1, <2>2, StoreEffect, InsertNames DEF Moves, Writing
    <3> QED BY <1>0, <2>1, <2>2, <3>1 DEF BeforeSend
  <2>3. CASE a # Insert
    <3>1. loc'[Insert] = loc[Insert] /\ loc[Insert].pc \in {"addSend", "done"}
      BY <1>0, <2>1, <2>3, PlainNames, InsertNames DEF Moves, BeforeSend, Pcs
    <3>2. a \in {Send(0), SendFailed(0), Mine, MineFailed, Cancel}
      BY <1>0, <2>1, <2>3, ActorCases, RequestNames DEF Pcs
    <3>3. db'.status \notin {"none", "queued"}
      BY <1>0, <2>1, <3>2 DEF Writing
    <3>4. loc[Insert].pc = "addSend" => a = Cancel
      <4>1. CASE a \in {Send(0), Mine}
        BY <1>0, <2>1, <4>1, PlainNames DEF BeforeSend, JobsRun
      <4>2. CASE a \in {SendFailed(0), MineFailed}
        BY <1>0, <2>1, <4>2, PlainNames DEF OneTurn, Turn
      <4> QED BY <3>2, <4>1, <4>2
    <3> QED BY <1>0, <2>1, <3>1, <3>3, <3>4 DEF BeforeSend, Writing
  <2> QED BY <2>2, <2>3
<1>22. ASSUME NEW a \in Actors, Hook(a) PROVE BeforeSend'
  <2>1. db' = db /\ loc[a].pc = "hook" /\ a # Insert
        /\ loc[Insert].pc \notin {"idle", "read", "store"}
    BY <1>22, <1>0, HookEffect, InsertNames DEF BeforeSend, Pcs
  <2>2. loc'[Insert] = loc[Insert]
    BY <1>22, <1>0, <2>1, HookEffect, InsertNames DEF Moves
  <2>3. loc[Insert].pc # "done" => a \notin Jobs
    BY <1>0, <2>1 DEF BeforeSend, JobsRun
  <2>4. loc[Insert].pc # "done" => job' = job
    BY <1>22, <1>0, <2>3, HookEffect, ActorCases
  <2> QED BY <1>0, <2>1, <2>2, <2>4 DEF BeforeSend
<1>23. ASSUME NEW a \in Actors, AddMine(a) PROVE BeforeSend'
  BY <1>23, <1>0, AddMineEffect, PlainNames, RequestNames, RecordTypes, CompleteEffect, JobEffects
  DEF BeforeSend, Moves, ThrowMoves, Over, JobsRun, StoreSame, Writing
<1>24. ASSUME NEW a \in Actors, AddSend(a) PROVE BeforeSend'
  <2>1. db' = db /\ loc[Insert].pc \in {"addSend", "done"} /\ db.status # "none"
    BY <1>24, <1>0, PlainAddSend, InsertNames, PlainNames DEF BeforeSend, Pcs, StoreSame
  <2>2. CASE a = Insert
    BY <1>24, <1>0, <2>1, <2>2, PlainAddSend DEF BeforeSend, Moves
  <2>3. CASE a = RetryFailed
    <3>1. loc[Insert].pc = "done"
      BY <1>24, <1>0, <2>1, <2>3, PlainAddSend, PlainNames DEF OneTurn, Turn
    <3>2. loc'[Insert] = loc[Insert]
      BY <1>24, <1>0, <2>3, PlainAddSend, PlainNames DEF Moves
    <3> QED BY <2>1, <3>1, <3>2 DEF BeforeSend
  <2> QED BY <1>24, <1>0, <2>2, <2>3, PlainAddSend
<1>25. ASSUME NEW a \in Actors, Crash(a) PROVE BeforeSend'
  BY <1>25, <1>0, CrashEffect
<1>26. ASSUME MineBlock PROVE BeforeSend'
  BY <1>26, <1>0 DEF MineBlock, BeforeSend
<1>27. ASSUME OtherTakes PROVE BeforeSend'
  BY <1>27, <1>0 DEF OtherTakes, BeforeSend
<1>28. ASSUME UNCHANGED vars PROVE BeforeSend'
  BY <1>28, <1>0 DEF vars, BeforeSend
<1>29. ASSUME NEW r \in Resends, SendLate(r) PROVE BeforeSend'
  BY <1>29, <1>0, SendLateEffect
<1> QED BY <1>1, <1>2, <1>3, <1>4, <1>5, <1>6, <1>7, <1>8, <1>9, <1>10, <1>11, <1>12, <1>13,
    <1>14, <1>15, <1>16, <1>17, <1>18, <1>19, <1>20, <1>21, <1>22, <1>23, <1>24, <1>25,
    <1>26, <1>27, <1>28, <1>29
    DEF Next, Undisturbed, WorkerStep, SendStep, MineStep, ApiStep, ActorStep

\* Every step keeps WhileSending.
LEMMA WhileSendingStep ==
  ASSUME TypeInv, Plain, PlainInv, [Next]_vars
  PROVE  WhileSending'
<1>0. /\ TypeOK /\ Pcs /\ JobsRun /\ OneTurn /\ Writing /\ BeforeSend /\ WhileSending
         /\ WhileRetrying /\ Covered
      /\ TypeInv /\ Plain /\ PlainInv /\ job \in [Jobs -> JobStates] /\ db \in Records
      /\ \A r \in Resends : r = 0
      /\ \A j \in Jobs : j = Send(0) \/ j = Mine
      /\ faults = 0 /\ MaxFaults = 0
      /\ loc[SyncRetry].pc = "idle" /\ loc[Retry].pc = "idle"
      /\ \A a \in AllRequests : a[1] = "insert" /\ a # Insert => loc[a].pc = "idle"
      /\ \A a \in AllRequests : a = Insert \/ a = Cancel \/ a = RetryFailed \/ loc[a].pc = "idle"
  BY PlainFacts DEF TypeInv, TypeOK, PlainInv
<1>1. ASSUME NEW j \in Jobs, StartJob(j) PROVE WhileSending'
  BY <1>1, <1>0, StartJobEffect, PlainNames, RequestNames, RecordTypes
  DEF WhileSending, Turn, Unsent, Writing, Moves, ThrowMoves, Over, JobsRun, StoreSame
<1>2. ASSUME NEW r \in Resends, SendRead(r) PROVE WhileSending'
  BY <1>2, <1>0, SendReadEffect, PlainNames, RequestNames, RecordTypes, CompleteEffect
  DEF WhileSending, Turn, Unsent, Writing, Moves, ThrowMoves, Over, JobsRun, StoreSame
<1>3. ASSUME NEW r \in Resends, SendFirst(r) PROVE WhileSending'
  BY <1>3, <1>0, SendFirstEffect, PlainNames, RequestNames, RecordTypes
  DEF WhileSending, Turn, Unsent, Writing, Moves, ThrowMoves, Over, JobsRun, StoreSame
<1>4. ASSUME NEW r \in Resends, SendAgain(r) PROVE WhileSending'
  BY <1>4, <1>0, SendAgainEffect DEF Writing
<1>5. ASSUME NEW r \in Resends, SendFailedRead(r) PROVE WhileSending'
  BY <1>5, <1>0, SendFailedReadEffect, PlainNames, RequestNames, RecordTypes
  DEF WhileSending, Turn, Unsent, Writing, Moves, ThrowMoves, Over, JobsRun, StoreSame
<1>6. ASSUME MineRead PROVE WhileSending'
  BY <1>6, <1>0, MineReadEffect, PlainNames, RequestNames, RecordTypes, CompleteEffect
  DEF WhileSending, Turn, Unsent, Writing, Moves, ThrowMoves, Over, JobsRun, StoreSame
<1>7. ASSUME MineFound PROVE WhileSending'
  BY <1>7, <1>0, MineFoundEffect, PlainNames, RequestNames, RecordTypes
  DEF WhileSending, Turn, Unsent, Writing, Moves, ThrowMoves, Over, JobsRun, StoreSame
<1>8. ASSUME MineNotYet PROVE WhileSending'
  BY <1>8, <1>0, PlainMineNotYet, PlainNames, RequestNames, RecordTypes
  DEF WhileSending, Turn, Unsent, Writing, Moves, ThrowMoves, Over, JobsRun, StoreSame
<1>9. ASSUME MineFailedRead PROVE WhileSending'
  BY <1>9, <1>0, MineFailedReadEffect, PlainNames, RequestNames, RecordTypes
  DEF WhileSending, Turn, Unsent, Writing, Moves, ThrowMoves, Over, JobsRun, StoreSame
<1>10. ASSUME MineFailedRelease PROVE WhileSending'
  BY <1>10, <1>0, MineFailedReleaseEffect, PlainNames, RequestNames, RecordTypes
  DEF WhileSending, Turn, Unsent, Writing, Moves, ThrowMoves, Over, JobsRun, StoreSame
<1>11. ASSUME NEW a \in AllRequests, InsertRead(a) PROVE WhileSending'
  BY <1>11, <1>0, InsertReadEffect, PlainNames, RequestNames, RecordTypes
  DEF WhileSending, Turn, Unsent, Writing, Moves, ThrowMoves, Over, JobsRun, StoreSame
<1>12. ASSUME CancelRead PROVE WhileSending'
  BY <1>12, <1>0, CancelReadEffect, PlainNames, RequestNames, RecordTypes
  DEF WhileSending, Turn, Unsent, Writing, Moves, ThrowMoves, Over, JobsRun, StoreSame
<1>13. ASSUME CancelRemove PROVE WhileSending'
  BY <1>13, <1>0, CancelRemoveEffect, PlainNames, RequestNames, RecordTypes, JobEffects
  DEF WhileSending, Turn, Unsent, Writing, Moves, ThrowMoves, Over, JobsRun, StoreSame
<1>14. ASSUME CancelSend PROVE WhileSending'
  BY <1>14, <1>0, CancelSendEffect, PlainNames, RequestNames, RecordTypes
  DEF WhileSending, Turn, Unsent, Writing, Moves, ThrowMoves, Over, JobsRun, StoreSame
<1>15. ASSUME RetryFailedRead PROVE WhileSending'
  BY <1>15, <1>0, RetryFailedReadEffect, PlainNames, RequestNames, RecordTypes
  DEF WhileSending, Turn, Unsent, Writing, Moves, ThrowMoves, Over, JobsRun, StoreSame
<1>16. ASSUME RetryFailedCheck PROVE WhileSending'
  BY <1>16, <1>0, RetryFailedCheckEffect, PlainNames, RequestNames, RecordTypes
  DEF WhileSending, Turn, Unsent, Writing, Moves, ThrowMoves, Over, JobsRun, StoreSame
<1>17. ASSUME RetryFailedRemove PROVE WhileSending'
  BY <1>17, <1>0, RetryFailedRemoveEffect, PlainNames, RequestNames, RecordTypes, JobEffects
  DEF WhileSending, Turn, Unsent, Writing, Moves, ThrowMoves, Over, JobsRun, StoreSame
<1>18. ASSUME SyncRetryRead PROVE WhileSending'
  BY <1>18, <1>0, SyncRetryReadEffect
<1>19. ASSUME SyncRetrySend PROVE WhileSending'
  BY <1>19, <1>0, SyncRetrySendEffect
<1>20. ASSUME RetryRead PROVE WhileSending'
  BY <1>20, <1>0, RetryReadEffect
<1>21. ASSUME NEW a \in Actors, Store(a) PROVE WhileSending'
  <2>1. Turn(Send(0), job', loc') => Turn(Send(0), job, loc)
    BY <1>21, <1>0, PlainStore, PlainNames DEF Turn
  <2>2. Unsent(job', loc') => Unsent(job, loc) /\ a # Send(0)
    BY <1>21, <1>0, PlainStore, PlainNames DEF Unsent, JobsRun
  <2>3. Unsent(job, loc) => Turn(Send(0), job, loc)
    BY DEF Turn, Unsent
  <2>4. Unsent(job', loc') => a = Cancel \/ a = Send(0)
    BY <1>21, <1>0, <2>2, <2>3, PlainStore, PlainNames DEF OneTurn
  <2> QED BY <1>21, <1>0, <2>1, <2>2, <2>4, PlainStore, PlainNames DEF WhileSending
<1>22. ASSUME NEW a \in Actors, Hook(a) PROVE WhileSending'
  BY <1>22, <1>0, HookEffect, PlainNames, RequestNames, RecordTypes, CompleteEffect
  DEF WhileSending, Turn, Unsent, Writing, Moves, ThrowMoves, Over, JobsRun, StoreSame
<1>23. ASSUME NEW a \in Actors, AddMine(a) PROVE WhileSending'
  BY <1>23, <1>0, PlainAddMine, PlainNames, RequestNames, RecordTypes
  DEF WhileSending, Turn, Unsent, Writing, Moves, ThrowMoves, Over, JobsRun, StoreSame
<1>24. ASSUME NEW a \in Actors, AddSend(a) PROVE WhileSending'
  <2>1. job[Mine].state = "absent" /\ db.status \in {"queued", "errored", "cancelled"}
    BY <1>24, <1>0, PlainAddSend DEF BeforeSend, WhileRetrying
  <2> QED BY <1>24, <1>0, <2>1, PlainAddSend DEF WhileSending, StoreSame
<1>25. ASSUME NEW a \in Actors, Crash(a) PROVE WhileSending'
  BY <1>25, <1>0, CrashEffect
<1>26. ASSUME MineBlock PROVE WhileSending'
  BY <1>26, <1>0 DEF MineBlock, WhileSending
<1>27. ASSUME OtherTakes PROVE WhileSending'
  BY <1>27, <1>0 DEF OtherTakes, WhileSending
<1>28. ASSUME UNCHANGED vars PROVE WhileSending'
  BY <1>28, <1>0 DEF vars, WhileSending
<1>29. ASSUME NEW r \in Resends, SendLate(r) PROVE WhileSending'
  BY <1>29, <1>0, SendLateEffect
<1> QED BY <1>1, <1>2, <1>3, <1>4, <1>5, <1>6, <1>7, <1>8, <1>9, <1>10, <1>11, <1>12, <1>13,
    <1>14, <1>15, <1>16, <1>17, <1>18, <1>19, <1>20, <1>21, <1>22, <1>23, <1>24, <1>25,
    <1>26, <1>27, <1>28, <1>29
    DEF Next, Undisturbed, WorkerStep, SendStep, MineStep, ApiStep, ActorStep

\* Every step keeps WhileRetrying.
LEMMA WhileRetryingStep ==
  ASSUME TypeInv, Plain, PlainInv, [Next]_vars
  PROVE  WhileRetrying'
<1>0. /\ TypeOK /\ Pcs /\ JobsRun /\ OneTurn /\ Writing /\ BeforeSend /\ WhileSending
         /\ WhileRetrying /\ Covered
      /\ TypeInv /\ Plain /\ PlainInv /\ job \in [Jobs -> JobStates] /\ db \in Records
      /\ \A r \in Resends : r = 0
      /\ \A j \in Jobs : j = Send(0) \/ j = Mine
      /\ faults = 0 /\ MaxFaults = 0
      /\ loc[SyncRetry].pc = "idle" /\ loc[Retry].pc = "idle"
      /\ \A a \in AllRequests : a[1] = "insert" /\ a # Insert => loc[a].pc = "idle"
      /\ \A a \in AllRequests : a = Insert \/ a = Cancel \/ a = RetryFailed \/ loc[a].pc = "idle"
  BY PlainFacts DEF TypeInv, TypeOK, PlainInv
<1>1. ASSUME NEW j \in Jobs, StartJob(j) PROVE WhileRetrying'
  BY <1>1, <1>0, StartJobEffect, PlainNames, RequestNames, RecordTypes
  DEF WhileRetrying, Turn, Writing, Moves, ThrowMoves, Over, JobsRun, StoreSame
<1>2. ASSUME NEW r \in Resends, SendRead(r) PROVE WhileRetrying'
  BY <1>2, <1>0, SendReadEffect, PlainNames, RequestNames, RecordTypes, CompleteEffect
  DEF WhileRetrying, Turn, Writing, Moves, ThrowMoves, Over, JobsRun, StoreSame
<1>3. ASSUME NEW r \in Resends, SendFirst(r) PROVE WhileRetrying'
  BY <1>3, <1>0, SendFirstEffect, PlainNames, RequestNames, RecordTypes
  DEF WhileRetrying, Turn, Writing, Moves, ThrowMoves, Over, JobsRun, StoreSame
<1>4. ASSUME NEW r \in Resends, SendAgain(r) PROVE WhileRetrying'
  BY <1>4, <1>0, SendAgainEffect DEF Writing
<1>5. ASSUME NEW r \in Resends, SendFailedRead(r) PROVE WhileRetrying'
  BY <1>5, <1>0, SendFailedReadEffect, PlainNames, RequestNames, RecordTypes
  DEF WhileRetrying, Turn, Writing, Moves, ThrowMoves, Over, JobsRun, StoreSame
<1>6. ASSUME MineRead PROVE WhileRetrying'
  BY <1>6, <1>0, MineReadEffect, PlainNames, RequestNames, RecordTypes, CompleteEffect
  DEF WhileRetrying, Turn, Writing, Moves, ThrowMoves, Over, JobsRun, StoreSame
<1>7. ASSUME MineFound PROVE WhileRetrying'
  BY <1>7, <1>0, MineFoundEffect, PlainNames, RequestNames, RecordTypes
  DEF WhileRetrying, Turn, Writing, Moves, ThrowMoves, Over, JobsRun, StoreSame
<1>8. ASSUME MineNotYet PROVE WhileRetrying'
  BY <1>8, <1>0, PlainMineNotYet, PlainNames, RequestNames, RecordTypes
  DEF WhileRetrying, Turn, Writing, Moves, ThrowMoves, Over, JobsRun, StoreSame
<1>9. ASSUME MineFailedRead PROVE WhileRetrying'
  BY <1>9, <1>0, MineFailedReadEffect, PlainNames, RequestNames, RecordTypes
  DEF WhileRetrying, Turn, Writing, Moves, ThrowMoves, Over, JobsRun, StoreSame
<1>10. ASSUME MineFailedRelease PROVE WhileRetrying'
  BY <1>10, <1>0, MineFailedReleaseEffect, PlainNames, RequestNames, RecordTypes
  DEF WhileRetrying, Turn, Writing, Moves, ThrowMoves, Over, JobsRun, StoreSame
<1>11. ASSUME NEW a \in AllRequests, InsertRead(a) PROVE WhileRetrying'
  BY <1>11, <1>0, InsertReadEffect, PlainNames, RequestNames, RecordTypes
  DEF WhileRetrying, Turn, Writing, Moves, ThrowMoves, Over, JobsRun, StoreSame
<1>12. ASSUME CancelRead PROVE WhileRetrying'
  BY <1>12, <1>0, CancelReadEffect, PlainNames, RequestNames, RecordTypes
  DEF WhileRetrying, Turn, Writing, Moves, ThrowMoves, Over, JobsRun, StoreSame
<1>13. ASSUME CancelRemove PROVE WhileRetrying'
  BY <1>13, <1>0, CancelRemoveEffect, PlainNames, RequestNames, RecordTypes, JobEffects
  DEF WhileRetrying, Turn, Writing, Moves, ThrowMoves, Over, JobsRun, StoreSame
<1>14. ASSUME CancelSend PROVE WhileRetrying'
  BY <1>14, <1>0, CancelSendEffect, PlainNames, RequestNames, RecordTypes
  DEF WhileRetrying, Turn, Writing, Moves, ThrowMoves, Over, JobsRun, StoreSame
<1>15. ASSUME RetryFailedRead PROVE WhileRetrying'
  BY <1>15, <1>0, RetryFailedReadEffect, PlainNames, RequestNames, RecordTypes
  DEF WhileRetrying, Turn, Writing, Moves, ThrowMoves, Over, JobsRun, StoreSame
<1>16. ASSUME RetryFailedCheck PROVE WhileRetrying'
  BY <1>16, <1>0, RetryFailedCheckEffect, PlainNames, RequestNames, RecordTypes
  DEF WhileRetrying, Turn, Writing, Moves, ThrowMoves, Over, JobsRun, StoreSame
<1>17. ASSUME RetryFailedRemove PROVE WhileRetrying'
  BY <1>17, <1>0, RetryFailedRemoveEffect, PlainNames, RequestNames, RecordTypes, JobEffects
  DEF WhileRetrying, Turn, Writing, Moves, ThrowMoves, Over, JobsRun, StoreSame
<1>18. ASSUME SyncRetryRead PROVE WhileRetrying'
  BY <1>18, <1>0, SyncRetryReadEffect
<1>19. ASSUME SyncRetrySend PROVE WhileRetrying'
  BY <1>19, <1>0, SyncRetrySendEffect
<1>20. ASSUME RetryRead PROVE WhileRetrying'
  BY <1>20, <1>0, RetryReadEffect
<1>21. ASSUME NEW a \in Actors, Store(a) PROVE WhileRetrying'
  <2>1. Turn(RetryFailed, job, loc) => a = Cancel
    BY <1>21, <1>0, PlainStore, PlainNames DEF OneTurn
  <2>2. loc'[RetryFailed] = loc[RetryFailed]
    BY <1>21, <1>0, PlainStore, PlainNames
  <2>3. loc[RetryFailed].pc \in {"act", "remove", "addSend"} => a = Cancel
    BY <2>1 DEF Turn
  <2>4. ASSUME db'.status = "errored", NEW b \in Actors, Turn(b, job', loc')
        PROVE  FALSE
    <3>1. a \in {Send(0), SendFailed(0), MineFailed} /\ Turn(a, job, loc)
      <4>1. a \in {Send(0), SendFailed(0), MineFailed}
        BY <1>21, <1>0, <2>4, PlainStore
      <4>2. a # Cancel
        BY <4>1, PlainNames
      <4> QED BY <1>21, <1>0, <4>1, <4>2, PlainStore
    <3>2. b # a => Turn(b, job, loc)
      BY <1>21, <1>0, <2>4, PlainStore DEF Turn
    <3>3. b = a
      BY <1>0, <3>1, <3>2 DEF OneTurn
    <3> QED BY <1>21, <1>0, <2>4, <3>1, <3>3, PlainStore, PlainNames DEF Turn, JobsRun
  <2> QED BY <1>21, <1>0, <2>2, <2>3, <2>4, PlainStore, PlainNames DEF WhileRetrying
<1>22. ASSUME NEW a \in Actors, Hook(a) PROVE WhileRetrying'
  BY <1>22, <1>0, HookEffect, PlainNames, RequestNames, RecordTypes, CompleteEffect
  DEF WhileRetrying, Turn, Writing, Moves, ThrowMoves, Over, JobsRun, StoreSame
<1>23. ASSUME NEW a \in Actors, AddMine(a) PROVE WhileRetrying'
  BY <1>23, <1>0, PlainAddMine, PlainNames, RequestNames, RecordTypes
  DEF WhileRetrying, Turn, Writing, Moves, ThrowMoves, Over, JobsRun, StoreSame
<1>24. ASSUME NEW a \in Actors, AddSend(a) PROVE WhileRetrying'
  <2>1. CASE a = RetryFailed
    BY <1>24, <1>0, <2>1, PlainAddSend DEF WhileRetrying, Moves
  <2>2. CASE a = Insert
    <3>1. loc'[RetryFailed] = loc[RetryFailed] /\ db' = db /\ db.status # "errored"
      BY <1>24, <1>0, <2>2, PlainAddSend, PlainNames DEF Moves, StoreSame, BeforeSend
    <3>2. loc[RetryFailed].pc \notin {"act", "remove", "addSend"}
      BY <1>24, <1>0, <2>2, PlainAddSend, PlainNames DEF OneTurn, Turn
    <3> QED BY <3>1, <3>2 DEF WhileRetrying
  <2> QED BY <1>24, <1>0, <2>1, <2>2, PlainAddSend
<1>25. ASSUME NEW a \in Actors, Crash(a) PROVE WhileRetrying'
  BY <1>25, <1>0, CrashEffect
<1>26. ASSUME MineBlock PROVE WhileRetrying'
  BY <1>26, <1>0 DEF MineBlock, WhileRetrying
<1>27. ASSUME OtherTakes PROVE WhileRetrying'
  BY <1>27, <1>0 DEF OtherTakes, WhileRetrying
<1>28. ASSUME UNCHANGED vars PROVE WhileRetrying'
  BY <1>28, <1>0 DEF vars, WhileRetrying
<1>29. ASSUME NEW r \in Resends, SendLate(r) PROVE WhileRetrying'
  BY <1>29, <1>0, SendLateEffect
<1> QED BY <1>1, <1>2, <1>3, <1>4, <1>5, <1>6, <1>7, <1>8, <1>9, <1>10, <1>11, <1>12, <1>13,
    <1>14, <1>15, <1>16, <1>17, <1>18, <1>19, <1>20, <1>21, <1>22, <1>23, <1>24, <1>25,
    <1>26, <1>27, <1>28, <1>29
    DEF Next, Undisturbed, WorkerStep, SendStep, MineStep, ApiStep, ActorStep

\* Every step keeps a queued or sent transaction covered.
LEMMA CoveredStep ==
  ASSUME TypeInv, Plain, PlainInv, [Next]_vars
  PROVE  Covered'
<1>0. /\ TypeOK /\ Pcs /\ JobsRun /\ OneTurn /\ Writing /\ BeforeSend /\ WhileSending
         /\ WhileRetrying /\ Covered
      /\ TypeInv /\ Plain /\ PlainInv /\ job \in [Jobs -> JobStates] /\ db \in Records
      /\ \A r \in Resends : r = 0
      /\ \A j \in Jobs : j = Send(0) \/ j = Mine
      /\ faults = 0 /\ MaxFaults = 0
      /\ loc[SyncRetry].pc = "idle" /\ loc[Retry].pc = "idle"
      /\ \A a \in AllRequests : a[1] = "insert" /\ a # Insert => loc[a].pc = "idle"
      /\ \A a \in AllRequests : a = Insert \/ a = Cancel \/ a = RetryFailed \/ loc[a].pc = "idle"
  BY PlainFacts DEF TypeInv, TypeOK, PlainInv
<1>1. ASSUME NEW j \in Jobs, StartJob(j) PROVE Covered'
  BY <1>1, <1>0, StartJobEffect, PlainNames, RequestNames, RecordTypes
  DEF Covered, Turn, Unsent, Writing, Moves, ThrowMoves, Over, JobsRun, StoreSame
<1>2. ASSUME NEW r \in Resends, SendRead(r) PROVE Covered'
  BY <1>2, <1>0, SendReadEffect, PlainNames, RequestNames, RecordTypes, CompleteEffect
  DEF Covered, Turn, Unsent, Writing, Moves, ThrowMoves, Over, JobsRun, StoreSame
<1>3. ASSUME NEW r \in Resends, SendFirst(r) PROVE Covered'
  BY <1>3, <1>0, SendFirstEffect, PlainNames, RequestNames, RecordTypes
  DEF Covered, Turn, Unsent, Writing, Moves, ThrowMoves, Over, JobsRun, StoreSame
<1>4. ASSUME NEW r \in Resends, SendAgain(r) PROVE Covered'
  BY <1>4, <1>0, SendAgainEffect DEF Writing
<1>5. ASSUME NEW r \in Resends, SendFailedRead(r) PROVE Covered'
  BY <1>5, <1>0, SendFailedReadEffect, PlainNames, RequestNames, RecordTypes
  DEF Covered, Turn, Unsent, Writing, Moves, ThrowMoves, Over, JobsRun, StoreSame
<1>6. ASSUME MineRead PROVE Covered'
  BY <1>6, <1>0, MineReadEffect, PlainNames, RequestNames, RecordTypes, CompleteEffect
  DEF Covered, Turn, Unsent, Writing, Moves, ThrowMoves, Over, JobsRun, StoreSame
<1>7. ASSUME MineFound PROVE Covered'
  BY <1>7, <1>0, MineFoundEffect, PlainNames, RequestNames, RecordTypes
  DEF Covered, Turn, Unsent, Writing, Moves, ThrowMoves, Over, JobsRun, StoreSame
<1>8. ASSUME MineNotYet PROVE Covered'
  BY <1>8, <1>0, PlainMineNotYet, PlainNames, RequestNames, RecordTypes
  DEF Covered, Turn, Unsent, Writing, Moves, ThrowMoves, Over, JobsRun, StoreSame
<1>9. ASSUME MineFailedRead PROVE Covered'
  BY <1>9, <1>0, MineFailedReadEffect, PlainNames, RequestNames, RecordTypes
  DEF Covered, Turn, Unsent, Writing, Moves, ThrowMoves, Over, JobsRun, StoreSame
<1>10. ASSUME MineFailedRelease PROVE Covered'
  BY <1>10, <1>0, MineFailedReleaseEffect, PlainNames, RequestNames, RecordTypes
  DEF Covered, Turn, Unsent, Writing, Moves, ThrowMoves, Over, JobsRun, StoreSame
<1>11. ASSUME NEW a \in AllRequests, InsertRead(a) PROVE Covered'
  BY <1>11, <1>0, InsertReadEffect, PlainNames, RequestNames, RecordTypes
  DEF Covered, Turn, Unsent, Writing, Moves, ThrowMoves, Over, JobsRun, StoreSame
<1>12. ASSUME CancelRead PROVE Covered'
  BY <1>12, <1>0, CancelReadEffect, PlainNames, RequestNames, RecordTypes
  DEF Covered, Turn, Unsent, Writing, Moves, ThrowMoves, Over, JobsRun, StoreSame
<1>13. ASSUME CancelRemove PROVE Covered'
  BY <1>13, <1>0, CancelRemoveEffect, PlainNames, RequestNames, RecordTypes, JobEffects
  DEF Covered, Turn, Unsent, Writing, Moves, ThrowMoves, Over, JobsRun, StoreSame
<1>14. ASSUME CancelSend PROVE Covered'
  BY <1>14, <1>0, CancelSendEffect, PlainNames, RequestNames, RecordTypes
  DEF Covered, Turn, Unsent, Writing, Moves, ThrowMoves, Over, JobsRun, StoreSame
<1>15. ASSUME RetryFailedRead PROVE Covered'
  BY <1>15, <1>0, RetryFailedReadEffect, PlainNames, RequestNames, RecordTypes
  DEF Covered, Turn, Unsent, Writing, Moves, ThrowMoves, Over, JobsRun, StoreSame
<1>16. ASSUME RetryFailedCheck PROVE Covered'
  BY <1>16, <1>0, RetryFailedCheckEffect, PlainNames, RequestNames, RecordTypes
  DEF Covered, Turn, Unsent, Writing, Moves, ThrowMoves, Over, JobsRun, StoreSame
<1>17. ASSUME RetryFailedRemove PROVE Covered'
  <2>1. db' = db /\ db.status \in {"errored", "cancelled"}
    BY <1>17, <1>0, RetryFailedRemoveEffect DEF WhileRetrying, StoreSame
  <2> QED BY <2>1 DEF Covered
<1>18. ASSUME SyncRetryRead PROVE Covered'
  BY <1>18, <1>0, SyncRetryReadEffect
<1>19. ASSUME SyncRetrySend PROVE Covered'
  BY <1>19, <1>0, SyncRetrySendEffect
<1>20. ASSUME RetryRead PROVE Covered'
  BY <1>20, <1>0, RetryReadEffect
<1>21. ASSUME NEW a \in Actors, Store(a) PROVE Covered'
  <2>1. CASE a = Insert
    BY <1>21, <1>0, <2>1, PlainStore, PlainNames DEF Covered
  <2>2. CASE a = Send(0) /\ db'.status = "sent"
    <3>1. loc'[Send(0)].pc = "hook" /\ loc'[Send(0)].rec.status = "sent"
          /\ job'[Send(0)].state = "active"
      BY <1>21, <1>0, <2>2, PlainStore, PlainNames DEF JobsRun
    <3>2. Turn(Send(0), job', loc') /\ ~Unsent(job', loc')
      BY <3>1 DEF Turn, Unsent
    <3> QED BY <2>2, <3>2 DEF Covered
  <2>3. CASE db'.status \notin {"queued", "sent"}
    BY <2>3 DEF Covered
  <2> QED BY <1>21, <1>0, <2>1, <2>2, <2>3, PlainStore
<1>22. ASSUME NEW a \in Actors, Hook(a) PROVE Covered'
  BY <1>22, <1>0, HookEffect, PlainNames, RequestNames, RecordTypes, CompleteEffect
  DEF Covered, Turn, Unsent, Writing, Moves, ThrowMoves, Over, JobsRun, StoreSame
<1>23. ASSUME NEW a \in Actors, AddMine(a) PROVE Covered'
  <2>1. Turn(Send(0), job, loc) /\ ~Unsent(job, loc) /\ job[Mine].state = "absent"
    BY <1>23, <1>0, PlainAddMine, PlainNames DEF Turn, Unsent, JobsRun, WhileSending
  <2>2. Turn(Mine, job', loc')
    BY <1>23, <1>0, <2>1, PlainAddMine DEF Turn
  <2>3. \A b \in Actors : b # Send(0) => loc'[b] = loc[b]
    BY <1>23, <1>0, PlainAddMine DEF Moves
  <2> QED BY <1>23, <1>0, <2>1, <2>2, <2>3, PlainAddMine, PlainNames DEF Covered, StoreSame
<1>24. ASSUME NEW a \in Actors, AddSend(a) PROVE Covered'
  <2>1. CASE a = RetryFailed
    <3>1. db' = db /\ db.status \in {"errored", "cancelled"}
      BY <1>24, <1>0, <2>1, PlainAddSend DEF WhileRetrying, StoreSame
    <3> QED BY <3>1 DEF Covered
  <2>2. CASE a = Insert
    <3>1. db' = db /\ db.status # "sent" /\ job'[Send(0)].state = "waiting"
      BY <1>24, <1>0, <2>2, PlainAddSend DEF BeforeSend, StoreSame
    <3> QED BY <3>1 DEF Covered, Unsent
  <2> QED BY <1>24, <1>0, <2>1, <2>2, PlainAddSend
<1>25. ASSUME NEW a \in Actors, Crash(a) PROVE Covered'
  BY <1>25, <1>0, CrashEffect
<1>26. ASSUME MineBlock PROVE Covered'
  BY <1>26, <1>0 DEF MineBlock, Covered
<1>27. ASSUME OtherTakes PROVE Covered'
  BY <1>27, <1>0 DEF OtherTakes, Covered
<1>28. ASSUME UNCHANGED vars PROVE Covered'
  BY <1>28, <1>0 DEF vars, Covered
<1>29. ASSUME NEW r \in Resends, SendLate(r) PROVE Covered'
  BY <1>29, <1>0, SendLateEffect
<1> QED BY <1>1, <1>2, <1>3, <1>4, <1>5, <1>6, <1>7, <1>8, <1>9, <1>10, <1>11, <1>12, <1>13,
    <1>14, <1>15, <1>16, <1>17, <1>18, <1>19, <1>20, <1>21, <1>22, <1>23, <1>24, <1>25,
    <1>26, <1>27, <1>28, <1>29
    DEF Next, Undisturbed, WorkerStep, SendStep, MineStep, ApiStep, ActorStep

\* When nothing is resent, stops or is rejected, no transaction that may be
\* cancelled, or retried after a failure, is left queued or sent when all is quiet.
THEOREM NothingLeftBehind ==
  ASSUME Plain
  PROVE  Spec => []NoLimbo
<1>1. Init => PlainInv
  <2> SUFFICES ASSUME Init PROVE PlainInv
    OBVIOUS
  <2>1. \A a \in Actors : loc[a].rec = NoRecord /\ loc[a].pc \in {"idle", "read"}
    BY DEF Init, Idle
  <2>2. \A j \in Jobs : job[j].state = "absent"
    BY RecordTypes DEF Init
  <2>3. \A a \in Actors : a \notin Requests => loc[a].pc = "idle"
    BY DEF Init, Idle
  <2>4. {Send(0), SendFailed(0), Mine, MineFailed} \cap Requests = {}
    BY ActorNames, ResendZero, LifecycleAssumption
  <2>5. \A a \in Actors : Turn(a, job, loc) => a = Insert
    BY <2>1, <2>2, <2>3, <2>4, PlainNames DEF Turn
  <2>6. db.status = "none"
    BY RecordTypes DEF Init
  <2>7. OneTurn /\ Writing /\ BeforeSend
    BY <2>1, <2>2, <2>5, <2>6, PlainNames DEF OneTurn, Writing, BeforeSend
  <2>8. WhileSending /\ WhileRetrying /\ Covered
    BY <2>1, <2>2, <2>3, <2>4, <2>5, <2>6, PlainNames
    DEF WhileSending, WhileRetrying, Covered, Unsent
  <2> QED BY <2>7, <2>8 DEF PlainInv
<1>2. TypeInv /\ PlainInv /\ [Next]_vars => PlainInv'
  <2> SUFFICES ASSUME TypeInv, PlainInv, [Next]_vars PROVE PlainInv'
    OBVIOUS
  <2> QED BY OneTurnStep, WritingStep, BeforeSendStep, WhileSendingStep, WhileRetryingStep,
         CoveredStep
      DEF PlainInv
<1>3. TypeInv /\ PlainInv => NoLimbo
  BY PlainNames DEF PlainInv, Covered, Turn, Unsent, NoLimbo, Quiet
<1> QED BY <1>1, <1>2, <1>3, TypeInvariant, PTL DEF Spec
==============================================================================
