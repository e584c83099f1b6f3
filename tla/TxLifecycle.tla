---------------------------- MODULE TxLifecycle ----------------------------
(***************************************************************************)
(* The life of ONE queueId: its record in TransactionDB, its BullMQ jobs,  *)
(* the send and mine workers with their "failed" handlers, the API routes  *)
(* that touch it, and the nonces it occupies on the chain.                 *)
(*                                                                         *)
(* Every actor reads the record, awaits, and later writes the WHOLE record *)
(* back (TransactionDB.set); no write checks what it overwrites.  An actor *)
(* is therefore a program counter and the record it read (`loc`).          *)
(*                                                                         *)
(* acquireNonce and the submission are one step here and never share a     *)
(* nonce: WalletNonce is the model of how that can fail.                   *)
(***************************************************************************)
EXTENDS Integers, FiniteSets

CONSTANTS
  Kinds,         \* values of isUserOp: {FALSE} an EOA transaction, {TRUE} a userOp
  Requests,      \* the API calls of this instance, each made at most once
  SendAttempts,  \* attempts of a send job (5 in the code)
  MineAttempts,  \* attempts of a mine job (200 in the code)
  MaxResends,    \* bound: resendCount of jobs is 0..MaxResends
  MaxSlots,      \* bound: nonces the transaction may acquire
  MaxHashes,     \* bound: transactions the engine may submit for it
  MaxFaults      \* bound: crashes, and RPC failures other than a refused submission

AllRequests == {<<"insert", 1>>, <<"insert", 2>>, <<"cancel", 1>>,
                <<"retryFailed", 1>>, <<"syncRetry", 1>>, <<"retry", 1>>}

ASSUME LifecycleAssumption ==
  /\ Kinds \subseteq BOOLEAN /\ Kinds # {}
  /\ Requests \subseteq AllRequests
  /\ SendAttempts \in Nat \ {0} /\ MineAttempts \in Nat \ {0}
  /\ MaxResends \in Nat /\ MaxSlots \in Nat /\ MaxHashes \in Nat /\ MaxFaults \in Nat

Slots    == 1..MaxSlots    \* nonces, named in the order they were acquired
Hashes   == 1..MaxHashes   \* hashes, named in the order they were submitted
Statuses == {"none", "queued", "sent", "mined", "errored", "cancelled"}

\* A record of TransactionDB; "none" when there is none.
Records == [status : Statuses, isUserOp : BOOLEAN, slot : 0..MaxSlots,
            hashes : SUBSET Hashes, resendCount : 0..MaxResends]
NoRecord == [status |-> "none", isUserOp |-> FALSE, slot |-> 0, hashes |-> {},
             resendCount |-> 0]

Send(r)       == <<"send", r>>        \* job `${queueId}.${r}`
SendFailed(r) == <<"sendFailed", r>>  \* its "failed" event handler
Mine          == <<"mine", 0>>        \* job `mine.${queueId}`
MineFailed    == <<"mineFailed", 0>>

Resends  == 0..MaxResends
SendJobs == {Send(r) : r \in Resends}
Jobs     == SendJobs \cup {Mine}
Actors   == Jobs \cup {SendFailed(r) : r \in Resends} \cup {MineFailed} \cup AllRequests

JobStates == [state : {"absent", "waiting", "active", "completed", "failed"},
              tries : 0..(SendAttempts + MineAttempts)]
NoJob     == [state |-> "absent", tries |-> 0]
FreshJob  == [state |-> "waiting", tries |-> 0]

VARIABLES
  db,        \* the record of the queueId
  lists,     \* the status sorted sets the queueId was added to
  hooks,     \* the event types a webhook job was enqueued for
  job,       \* BullMQ: every job that exists, finished ones included
  loc,       \* each actor's program counter and the record it holds
  slotOf,    \* chain: the nonce of each submitted hash, 0 if not submitted
  cancels,   \* chain: which hashes are empty cancellation transactions
  mined,     \* chain: the hash mined at each nonce, 0 none, -1 someone else's
  released,  \* nonces given back by the mine job's "failed" handler
  faults

vars == <<db, lists, hooks, job, loc, slotOf, cancels, mined, released, faults>>
chainVars == <<slotOf, cancels, mined>>

PCs == {"idle", "read", "act", "store", "hook", "addMine", "addSend", "remove",
        "release", "done"}

TypeOK ==
  /\ db \in Records
  /\ lists \subseteq Statuses /\ hooks \subseteq Statuses
  /\ job \in [Jobs -> JobStates]
  /\ loc \in [Actors -> [pc : PCs, rec : Records]]
  /\ slotOf \in [Hashes -> 0..MaxSlots] /\ cancels \subseteq Hashes
  /\ mined \in [Slots -> -1..MaxHashes]
  /\ released \subseteq Slots
  /\ faults \in 0..MaxFaults

Idle == [pc |-> "idle", rec |-> NoRecord]

\* Nothing is stored yet; the first insert request is about to be made.
Init ==
  /\ db = NoRecord /\ lists = {} /\ hooks = {}
  /\ job = [j \in Jobs |-> NoJob]
  /\ loc = [a \in Actors |-> IF a \in Requests THEN [Idle EXCEPT !.pc = "read"] ELSE Idle]
  /\ slotOf = [h \in Hashes |-> 0] /\ cancels = {}
  /\ mined = [s \in Slots |-> 0]
  /\ released = {} /\ faults = 0

----------------------------------------------------------------------------
(* Helpers                                                                 *)

At(a, l)       == loc[a].pc = l
Goto(a, l, r)  == loc' = [loc EXCEPT ![a] = [pc |-> l, rec |-> r]]
Finish(a)      == Goto(a, IF a \in AllRequests THEN "done" ELSE "idle", NoRecord)

\* TransactionDB.set: replaces the record, adds the queueId to the sorted set of
\* its status ("sent" has none) and removes it from no other.
StoreRecord(r) ==
  /\ db' = r
  /\ lists' = IF r.status = "sent" THEN lists ELSE lists \cup {r.status}

\* Mutant: the webhook job is deduplicated by queueId alone.
EnqueueWebhook_Once(r) == hooks' = IF hooks = {} THEN {r.status} ELSE hooks

\* enqueueTransactionWebhook: one job per event type and queueId.
EnqueueWebhook(r) == hooks' = hooks \cup {r.status}

\* Queue.add with a jobId: ignored while a job of that id exists, finished or not.
Added(jobs, j) == IF jobs[j].state = "absent" THEN [jobs EXCEPT ![j] = FreshJob] ELSE jobs

\* Queue.remove: a job that is being processed is locked and stays.
Removed(jobs, S) ==
  [j \in Jobs |-> IF j \in S /\ jobs[j].state # "active" THEN NoJob ELSE jobs[j]]

Complete(j) == [job EXCEPT ![j].state = "completed"]

Submitted == {h \in Hashes : slotOf[h] # 0}
NextHash  == Cardinality(Submitted) + 1
UsedSlots == {slotOf[h] : h \in Submitted}
NextSlot  == Cardinality(UsedSlots) + 1

\* The node takes a transaction at nonce s: nothing is mined there yet.
Submit(s, h) ==
  /\ h \in Hashes /\ s \in Slots /\ mined[s] = 0
  /\ slotOf' = [slotOf EXCEPT ![h] = s]
  /\ UNCHANGED <<mined, released>>

\* eth_getTransactionReceipt of a set of hashes.
HasReceipt(hs) == \E s \in Slots : mined[s] \in hs

\* Both callers take a rejected RPC call for a receipt that does not exist.
NoReceiptSeen(hs) ==
  \/ ~HasReceipt(hs) /\ UNCHANGED faults
  \/ HasReceipt(hs) /\ faults < MaxFaults /\ faults' = faults + 1

\* The actor is finished; a job that ran to its end is kept as completed.
End(a) == Finish(a) /\ job' = IF a \in Jobs THEN Complete(a) ELSE job

\* Mutant: `attempts` is not set, so that the job is tried for ever.
Throws_Unlimited(jobs, j, handler, limit) ==
  /\ job' = [jobs EXCEPT ![j] = [state |-> "waiting", tries |-> @.tries + 1]]
  /\ loc' = [loc EXCEPT ![j] = Idle]

\* A thrown exception.  BullMQ runs the job again, or moves it to failed and
\* emits "failed", which starts the worker's handler (bound: one run of it at a time).
Throws(jobs, j, handler, limit) ==
  LET tries == jobs[j].tries + 1
      last  == tries = limit
  IN  /\ last => At(handler, "idle")
      /\ job' = [jobs EXCEPT ![j] = [state |-> IF last THEN "failed" ELSE "waiting",
                                     tries |-> tries]]
      /\ loc' = [loc EXCEPT ![j] = Idle,
                            ![handler] = IF last THEN [pc |-> "read", rec |-> NoRecord] ELSE @]

----------------------------------------------------------------------------
(* Steps every actor shares                                                *)

\* A worker takes a job.
StartJob(j) ==
  /\ job[j].state = "waiting"
  /\ job' = [job EXCEPT ![j].state = "active"]
  /\ Goto(j, "read", NoRecord)
  /\ UNCHANGED <<db, lists, hooks, chainVars, released, faults>>

AfterStore(a) ==
  CASE a[1] \in {"insert", "retry"} -> "addSend"
    [] a[1] = "syncRetry"           -> "addMine"
    [] OTHER                        -> "hook"

Store(a) ==
  /\ At(a, "store")
  /\ StoreRecord(loc[a].rec)
  /\ Goto(a, AfterStore(a), loc[a].rec)
  /\ UNCHANGED <<hooks, job, chainVars, released, faults>>

\* Only the send worker goes on to add a mine job, only the mine worker's
\* "failed" handler goes on to release the nonce.
Hook(a) ==
  /\ At(a, "hook")
  /\ EnqueueWebhook(loc[a].rec)
  /\ IF a \in SendJobs /\ loc[a].rec.status = "sent"
     THEN Goto(a, "addMine", loc[a].rec) /\ UNCHANGED job
     ELSE IF a = MineFailed /\ ~loc[a].rec.isUserOp
          THEN Goto(a, "release", loc[a].rec) /\ UNCHANGED job
          ELSE End(a)
  /\ UNCHANGED <<db, lists, chainVars, released, faults>>

\* MineTransactionQueue.add; sync-retry enqueues its webhook after it.
AddMine(a) ==
  /\ At(a, "addMine")
  /\ IF a[1] = "syncRetry"
     THEN Goto(a, "hook", loc[a].rec) /\ job' = Added(job, Mine)
     ELSE Finish(a) /\ job' = Added(Complete(a), Mine)
  /\ UNCHANGED <<db, lists, hooks, chainVars, released, faults>>

\* SendTransactionQueue.add: insert and retry-failed use resendCount 0.
AddSend(a) ==
  /\ At(a, "addSend")
  /\ LET r == IF a[1] = "retry" THEN loc[a].rec.resendCount + 1 ELSE 0
     IN  r \in Resends /\ job' = Added(job, Send(r))
  /\ Finish(a)
  /\ UNCHANGED <<db, lists, hooks, chainVars, released, faults>>

----------------------------------------------------------------------------
(* sendTransactionWorker                                                   *)

\* An errored transaction retried with resendCount 0 is treated as queued.
AsRead(r) ==
  IF db.status = "errored" /\ r = 0 THEN [db EXCEPT !.status = "queued", !.slot = 0] ELSE db

SendRead(r) ==
  /\ At(Send(r), "read")
  /\ IF AsRead(r).status \in {"queued", "sent"}
     THEN Goto(Send(r), "act", AsRead(r)) /\ UNCHANGED job
     ELSE End(Send(r))
  /\ UNCHANGED <<db, lists, hooks, chainVars, released, faults>>

SendThrows(r) == Throws(job, Send(r), SendFailed(r), SendAttempts)

\* _sendTransaction or _sendUserOp: accepted, reverted by the simulation, or
\* failed in a way that can be retried.
SendFirst(r) ==
  /\ At(Send(r), "act") /\ loc[Send(r)].rec.status = "queued"
  /\ \/ /\ Submit(NextSlot, NextHash)
        /\ Goto(Send(r), "store", [loc[Send(r)].rec EXCEPT
             !.status = "sent", !.slot = NextSlot, !.hashes = {NextHash}, !.resendCount = 0])
        /\ UNCHANGED job
     \/ /\ Goto(Send(r), "store", [loc[Send(r)].rec EXCEPT !.status = "errored"])
        /\ UNCHANGED <<job, slotOf, mined, released>>
     \/ /\ SendThrows(r)
        /\ UNCHANGED <<slotOf, mined, released>>
  /\ UNCHANGED <<db, lists, hooks, cancels, faults>>

\* The record a resend writes: the hash is appended to the hashes it read.
Resent(rec, r, h) == [rec EXCEPT !.hashes = @ \cup {h}, !.resendCount = r]

\* Mutant: a resend acquires a nonce of its own.
SendAgain_NewNonce(r) ==
  /\ At(Send(r), "act") /\ loc[Send(r)].rec.status = "sent"
  /\ Submit(NextSlot, NextHash)
  /\ Goto(Send(r), "store", Resent(loc[Send(r)].rec, r, NextHash))
  /\ UNCHANGED <<db, lists, hooks, job, cancels, faults>>

\* _resendTransaction: accepted at the same nonce, not needed any more (null),
\* or failed.  It asserts that the transaction is not a userOp.
SendAgain(r) ==
  /\ At(Send(r), "act") /\ loc[Send(r)].rec.status = "sent"
  /\ \/ /\ ~loc[Send(r)].rec.isUserOp
        /\ Submit(loc[Send(r)].rec.slot, NextHash)
        /\ Goto(Send(r), "store", Resent(loc[Send(r)].rec, r, NextHash))
        /\ UNCHANGED job
     \/ /\ ~loc[Send(r)].rec.isUserOp
        /\ End(Send(r))
        /\ UNCHANGED <<slotOf, mined, released>>
     \/ /\ SendThrows(r)
        /\ UNCHANGED <<slotOf, mined, released>>
  /\ UNCHANGED <<db, lists, hooks, cancels, faults>>

\* getBlockNumberish throws although the node took the transaction: it is not
\* recorded as sent, and the attempt counts as failed.
SendLate(r) ==
  /\ At(Send(r), "act")
  /\ \/ loc[Send(r)].rec.status = "queued" /\ Submit(NextSlot, NextHash)
     \/ /\ loc[Send(r)].rec.status = "sent" /\ ~loc[Send(r)].rec.isUserOp
        /\ Submit(loc[Send(r)].rec.slot, NextHash)
  /\ SendThrows(r)
  /\ faults < MaxFaults /\ faults' = faults + 1
  /\ UNCHANGED <<db, lists, hooks, cancels>>

\* Mutant: the handler errors only sent transactions, like the mine worker's.
SendFailedRead_OnlySent(r) ==
  /\ At(SendFailed(r), "read")
  /\ IF db.status = "sent"
     THEN Goto(SendFailed(r), "store", [db EXCEPT !.status = "errored"])
     ELSE Finish(SendFailed(r))
  /\ UNCHANGED <<db, lists, hooks, job, chainVars, released, faults>>

\* The "failed" handler errors whatever record it finds.
SendFailedRead(r) ==
  /\ At(SendFailed(r), "read")
  /\ IF db.status = "none"
     THEN Finish(SendFailed(r))
     ELSE Goto(SendFailed(r), "store", [db EXCEPT !.status = "errored"])
  /\ UNCHANGED <<db, lists, hooks, job, chainVars, released, faults>>

----------------------------------------------------------------------------
(* mineTransactionWorker                                                   *)

MineRead ==
  /\ At(Mine, "read")
  /\ IF db.status = "sent"
     THEN Goto(Mine, "act", db) /\ UNCHANGED job
     ELSE End(Mine)
  /\ UNCHANGED <<db, lists, hooks, chainVars, released, faults>>

\* Mutant: a used nonce is taken for a mined transaction.
MineFound_ByNonce ==
  /\ At(Mine, "act")
  /\ mined[loc[Mine].rec.slot] # 0
  /\ Goto(Mine, "store", [loc[Mine].rec EXCEPT !.status = "mined"])
  /\ UNCHANGED <<db, lists, hooks, job, chainVars, released, faults>>

\* A receipt of any of the hashes read: the transaction is mined.
MineFound ==
  /\ At(Mine, "act")
  /\ HasReceipt(loc[Mine].rec.hashes)
  /\ Goto(Mine, "store", [loc[Mine].rec EXCEPT !.status = "mined"])
  /\ UNCHANGED <<db, lists, hooks, job, chainVars, released, faults>>

\* No receipt, or its RPC call was rejected, which allSettled does not tell
\* apart: NOT_CONFIRMED_YET, after queueing a resend of an EOA transaction if
\* enough blocks have passed since it was sent.
MineNotYet ==
  /\ At(Mine, "act")
  /\ NoReceiptSeen(loc[Mine].rec.hashes)
  /\ LET r == loc[Mine].rec.resendCount + 1
     IN  \/ Throws(job, Mine, MineFailed, MineAttempts)
         \/ ~loc[Mine].rec.isUserOp /\ r \in Resends
            /\ Throws(Added(job, Send(r)), Mine, MineFailed, MineAttempts)
  /\ UNCHANGED <<db, lists, hooks, chainVars, released>>

\* Mutant: the handler is not registered.
MineFailedRead_Ignored ==
  /\ At(MineFailed, "read")
  /\ Finish(MineFailed)
  /\ UNCHANGED <<db, lists, hooks, job, chainVars, released, faults>>

\* The "failed" handler errors the record only while it is sent.
MineFailedRead ==
  /\ At(MineFailed, "read")
  /\ IF db.status = "sent"
     THEN Goto(MineFailed, "store", [db EXCEPT !.status = "errored"])
     ELSE Finish(MineFailed)
  /\ UNCHANGED <<db, lists, hooks, job, chainVars, released, faults>>

\* recycleNonce and removeSentNonce: other transactions may use the nonce now.
MineFailedRelease ==
  /\ At(MineFailed, "release")
  /\ released' = released \cup {loc[MineFailed].rec.slot}
  /\ Finish(MineFailed)
  /\ UNCHANGED <<db, lists, hooks, job, chainVars, faults>>

----------------------------------------------------------------------------
(* API routes                                                              *)

\* insertTransaction with an idempotency key: the queueId is the key.
InsertRead(a) ==
  /\ At(a, "read") /\ a[1] = "insert"
  /\ IF db.status # "none"
     THEN Finish(a)
     ELSE \E u \in Kinds :
            Goto(a, "store", [NoRecord EXCEPT !.status = "queued", !.isUserOp = u])
  /\ UNCHANGED <<db, lists, hooks, job, chainVars, released, faults>>

Cancel == <<"cancel", 1>>

\* POST /transaction/cancel reads the record.
CancelRead ==
  /\ At(Cancel, "read")
  /\ CASE db.status = "queued" /\ ~db.isUserOp -> Goto(Cancel, "remove", db)
       [] db.status = "sent" /\ ~db.isUserOp   -> Goto(Cancel, "act", db)
       [] OTHER                             -> Finish(Cancel)
  /\ UNCHANGED <<db, lists, hooks, job, chainVars, released, faults>>

\* A queued transaction: its send jobs are removed, except one that is running.
CancelRemove ==
  /\ At(Cancel, "remove")
  /\ job' = Removed(job, SendJobs)
  /\ \/ /\ Goto(Cancel, "store", [loc[Cancel].rec EXCEPT !.status = "cancelled",
                                                         !.slot = 0, !.hashes = {}])
        /\ UNCHANGED faults
     \/ \* getBlockNumberish throws after the jobs are gone
        /\ Finish(Cancel)
        /\ faults < MaxFaults /\ faults' = faults + 1
  /\ UNCHANGED <<db, lists, hooks, chainVars, released>>

\* A sent transaction: sendCancellationTransaction at the same nonce.
CancelSend ==
  /\ At(Cancel, "act")
  /\ \/ /\ Submit(loc[Cancel].rec.slot, NextHash)
        /\ cancels' = cancels \cup {NextHash}
        /\ Goto(Cancel, "store", [loc[Cancel].rec EXCEPT !.status = "cancelled",
                                                         !.hashes = {NextHash}])
     \/ /\ Finish(Cancel)
        /\ UNCHANGED <<chainVars, released>>
  /\ UNCHANGED <<db, lists, hooks, job, faults>>

RetryFailed == <<"retryFailed", 1>>

\* POST /transaction/retry-failed.
RetryFailedRead ==
  /\ At(RetryFailed, "read")
  /\ IF db.status = "errored" /\ ~db.isUserOp
     THEN Goto(RetryFailed, "act", db)
     ELSE Finish(RetryFailed)
  /\ UNCHANGED <<db, lists, hooks, job, chainVars, released, faults>>

\* "If any of the transactions are mined, we should not retry."
RetryFailedCheck ==
  /\ At(RetryFailed, "act")
  /\ \/ /\ HasReceipt(loc[RetryFailed].rec.hashes)
        /\ Finish(RetryFailed)
        /\ UNCHANGED faults
     \/ /\ NoReceiptSeen(loc[RetryFailed].rec.hashes)
        /\ Goto(RetryFailed, "remove", loc[RetryFailed].rec)
  /\ UNCHANGED <<db, lists, hooks, job, chainVars, released>>

\* The finished jobs would make Queue.add a no-op.  Removing one that is being
\* processed throws and ends the request.
RetryFailedRemove ==
  /\ At(RetryFailed, "remove")
  /\ LET sendRuns == job[Send(0)].state = "active"
         mineRuns == job[Mine].state = "active"
     IN  /\ job' = IF sendRuns THEN job
                   ELSE Removed(job, {Send(0)} \cup IF mineRuns THEN {} ELSE {Mine})
         /\ IF sendRuns \/ mineRuns
            THEN Finish(RetryFailed)
            ELSE Goto(RetryFailed, "addSend", loc[RetryFailed].rec)
  /\ UNCHANGED <<db, lists, hooks, chainVars, released, faults>>

SyncRetry == <<"syncRetry", 1>>

\* POST /transaction/sync-retry: a resend from the API process.
SyncRetryRead ==
  /\ At(SyncRetry, "read")
  /\ IF db.status = "sent" /\ ~db.isUserOp
     THEN Goto(SyncRetry, "act", db)
     ELSE Finish(SyncRetry)
  /\ UNCHANGED <<db, lists, hooks, job, chainVars, released, faults>>

SyncRetrySend ==
  /\ At(SyncRetry, "act")
  /\ LET rec == loc[SyncRetry].rec
     IN  \/ /\ rec.resendCount + 1 \in Resends
            /\ Submit(rec.slot, NextHash)
            /\ Goto(SyncRetry, "store", Resent(rec, rec.resendCount + 1, NextHash))
         \/ /\ Finish(SyncRetry)
            /\ UNCHANGED <<slotOf, mined, released>>
  /\ UNCHANGED <<db, lists, hooks, job, cancels, faults>>

Retry == <<"retry", 1>>

\* POST /transaction/retry overrides the gas values (of userOps too).
RetryRead ==
  /\ At(Retry, "read")
  /\ IF db.status = "sent"
     THEN Goto(Retry, "store", db)
     ELSE Finish(Retry)
  /\ UNCHANGED <<db, lists, hooks, job, chainVars, released, faults>>

----------------------------------------------------------------------------
(* Crashes and the chain                                                   *)

\* The host stops (or, for an API call, a call of the handler throws).  BullMQ
\* runs a stalled job again from its start; handlers and requests are lost.
Crash(a) ==
  /\ loc[a].pc \notin {"idle", "done"} /\ (a \in AllRequests => loc[a].pc # "read")
  /\ faults < MaxFaults /\ faults' = faults + 1
  /\ Finish(a)
  /\ job' = IF a \in Jobs THEN [job EXCEPT ![a].state = "waiting"] ELSE job
  /\ UNCHANGED <<db, lists, hooks, chainVars, released>>

\* A block includes one of the transactions submitted at a nonce.
MineBlock ==
  /\ \E s \in Slots : \E h \in Submitted :
       slotOf[h] = s /\ mined[s] = 0 /\ mined' = [mined EXCEPT ![s] = h]
  /\ UNCHANGED <<db, lists, hooks, job, loc, slotOf, cancels, released, faults>>

\* A released nonce is used by another transaction or by the cancel cron.
OtherTakes ==
  /\ \E s \in released : mined[s] = 0 /\ mined' = [mined EXCEPT ![s] = -1]
  /\ UNCHANGED <<db, lists, hooks, job, loc, slotOf, cancels, released, faults>>

ActorStep(a) == Store(a) \/ Hook(a) \/ AddMine(a) \/ AddSend(a)

SendStep(r) == SendRead(r) \/ SendFirst(r) \/ SendAgain(r) \/ SendFailedRead(r)

MineStep == MineRead \/ MineFound \/ MineNotYet \/ MineFailedRead \/ MineFailedRelease

ApiStep ==
  \/ \E a \in AllRequests : InsertRead(a)
  \/ CancelRead \/ CancelRemove \/ CancelSend
  \/ RetryFailedRead \/ RetryFailedCheck \/ RetryFailedRemove
  \/ SyncRetryRead \/ SyncRetrySend \/ RetryRead

WorkerStep ==
  \/ \E j \in Jobs : StartJob(j)
  \/ \E r \in Resends : SendStep(r)
  \/ MineStep

Undisturbed ==
  \/ WorkerStep \/ ApiStep
  \/ \E a \in Actors : ActorStep(a)
  \/ MineBlock \/ OtherTakes

Next ==
  \/ Undisturbed
  \/ \E r \in Resends : SendLate(r)
  \/ \E a \in Actors : Crash(a)

Spec == Init /\ [][Next]_vars

\* The send worker does not stop between submitting the transaction and the end of its job.
SendSurvives == ~(Crash(Send(0)) /\ loc[Send(0)].rec.status = "sent")

\* No actor stops between writing a record and enqueueing its webhook.
HooksFollow == \A a \in Actors : Crash(a) => loc[a].pc \notin {"hook", "addMine"}

\* Crashes, but none in these two places.
SurvivingCrash(a) == Crash(a) /\ SendSurvives /\ HooksFollow

\* A job that fails although the node took its transaction does not send it anew: it
\* was resending it, or this was its last attempt.
LateIsLast ==
  \A r \in Resends : SendLate(r) =>
    loc[Send(r)].rec.status = "sent" \/ job[Send(r)].tries + 1 = SendAttempts

SurvivingLate(r) == SendLate(r) /\ LateIsLast

SurvivingNext ==
  \/ Undisturbed
  \/ \E r \in Resends : SurvivingLate(r)
  \/ \E a \in Actors : SurvivingCrash(a)

SurvivingSpec == Init /\ [][SurvivingNext]_vars

\* No process stops and no late failure happens; workers, the steps of a request
\* that has begun, and the chain go on.
FairSpec ==
  /\ Init /\ [][Undisturbed]_vars
  /\ WF_vars(\E j \in Jobs : StartJob(j))
  /\ \A r \in Resends : WF_vars(SendStep(r))
  /\ WF_vars(MineStep)
  /\ \A a \in Actors : WF_vars(ActorStep(a))
  /\ WF_vars(\E a \in AllRequests : InsertRead(a))
  /\ WF_vars(CancelRemove \/ CancelSend \/ RetryFailedCheck \/ RetryFailedRemove
             \/ SyncRetrySend)
  /\ WF_vars(MineBlock)

----------------------------------------------------------------------------
(* Properties                                                              *)

\* The nonces at which the user's transaction (not a cancellation) was executed.
Executed == {s \in Slots : mined[s] \in Submitted \ cancels}

\* Nothing is running or waiting to run, and every request was answered.
Quiet ==
  /\ \A a \in Actors : loc[a].pc \in {"idle", "done"}
  /\ \A j \in Jobs : job[j].state \notin {"waiting", "active"}

\* A queueId is executed at most once, whatever is resent, retried or cancelled.
ExecutedAtMostOnce == Cardinality(Executed) <= 1

\* "mined" is true: a record is stored as mined, and a mined webhook is
\* enqueued, only if the user's transaction is on the chain.
MinedIsTrue == db.status = "mined" \/ "mined" \in hooks => Executed # {}

\* "There must be a worker to poll the result for every transaction hash": when
\* all is quiet no transaction is left queued or sent.
NoLimbo == Quiet => db.status \notin {"queued", "sent"}

\* The webhook of the status that is stored in the end was enqueued.
OutcomeAnnounced == Quiet /\ db.status \notin {"none", "queued"} => db.status \in hooks

\* Every transaction is eventually mined, errored or cancelled, and stays so.
Settles == <>[](db.status \in {"mined", "errored", "cancelled"})

=============================================================================
