---------------------------- MODULE WalletNonce ----------------------------
(***************************************************************************)
(* Nonce management of ONE backend wallet on ONE chain.                    *)
(*                                                                         *)
(* Three Redis keys (src/db/wallets/walletNonce.ts) are shared, without    *)
(* any lock, by every send job (sendTransactionWorker.ts), every mine job  *)
(* (mineTransactionWorker.ts), the cancel-recycled-nonces cron, the nonce  *)
(* resync cron and the reset-nonces route.  One action is one await: a     *)
(* Redis command, a Lua script or an RPC call.                             *)
(*                                                                         *)
(* Features selects which disturbances and which optional actors a run     *)
(* includes, so that a property can say under which ones it holds.         *)
(***************************************************************************)
EXTENDS Integers, FiniteSets

CONSTANTS
  Txs,          \* queueIds of EOA transactions sent from the wallet
  MaxNonce,     \* bound: nonces are 0..MaxNonce
  MaxAttempts,  \* `attempts` of a send job (5 in sendTransactionQueue.ts)
  MaxFaults,    \* bound: how many faults and external transactions happen
  InitCount,    \* eth_getTransactionCount("latest") at the start
  InitLastUsed, \* initial `nonce:<chainId>:<wallet>` key, Unset if absent
  Features,     \* the disturbances and actors of this instance
  Free, CancelTx, ExternalTx  \* who occupies a nonce, besides Txs

AllFeatures == {"external", "drop", "crash", "lostReply", "lateThrow",
                "rpcError", "mineTimeout", "resync", "cancel", "reset"}

Nonces  == 0..MaxNonce
Counts  == 0..(MaxNonce + 1)
Unset   == -2   \* the Redis key is absent; -1 is a legal value of the key
NoNonce == -1
Users   == Txs \cup {Free, CancelTx, ExternalTx}

ASSUME ConstantsAssumption ==
  /\ MaxNonce \in Nat /\ MaxAttempts \in Nat \ {0} /\ MaxFaults \in Nat
  /\ InitCount \in Counts
  /\ InitLastUsed \in {Unset} \cup (-1..MaxNonce)
  /\ Features \subseteq AllFeatures

ASSUME UsersAssumption ==
  /\ Free \notin Txs /\ CancelTx \notin Txs /\ ExternalTx \notin Txs
  /\ Free # CancelTx /\ Free # ExternalTx /\ CancelTx # ExternalTx

VARIABLES
  lastUsed,   \* nonce:<chain>:<wallet>
  recycled,   \* nonce-recycled:<chain>:<wallet>, a sorted set
  sent,       \* nonce-sent:<chain>:<wallet>, a set
  nonceMap,   \* nonce-map: queueId -> nonce; also the attempt's local `nonce`
  pc,         \* where each transaction's job is
  cnt,        \* transactionCount a job has read and not used yet
  attempts,   \* attemptsMade of the send job
  resending,  \* resend jobs between their read of the DB and their RPC call
  batch,      \* nonces the cancel-recycled-nonces run still has to handle
  resync,     \* the nonce-resync run
  reset,      \* the reset-nonces request
  count,      \* chain: number of mined transactions of the wallet
  mempool,    \* chain: the pending transaction at each nonce
  mined,      \* chain: the mined transaction at each nonce
  faults      \* faults so far, at most MaxFaults

redisVars == <<lastUsed, recycled, sent>>
jobVars   == <<nonceMap, pc, cnt, attempts, resending>>
cronVars  == <<batch, resync, reset>>
chainVars == <<count, mempool, mined>>
vars      == <<redisVars, jobVars, cronVars, chainVars, faults>>

PCs == {"queued", "incr", "fetch", "setSync", "incrAgain", "submit", "recycle",
        "fetchHigher", "setHigher", "addSent", "stamp", "sent", "release",
        "unsend", "mined", "errored"}

ResyncStates ==
  [phase : {"idle", "start", "gotCount", "gotDb", "check", "recycle"},
   count : Counts, last : -1..MaxNonce, cur : Counts]

Keys == {"nonce", "recycled"}  \* the wallet's keys that deleteAllNonces matches

ResetStates == [phase : {"idle", "keys", "delete", "fetch", "set"},
                count : Counts, used : SUBSET Keys, listed : SUBSET Keys]

NoResync == [phase |-> "idle", count |-> 0, last |-> 0, cur |-> 0]
NoReset  == [phase |-> "idle", count |-> 0, used |-> {}, listed |-> {}]

TypeOK ==
  /\ lastUsed \in {Unset} \cup (-1..MaxNonce)
  /\ recycled \in SUBSET Nonces /\ sent \in SUBSET Nonces
  /\ batch \in SUBSET Nonces
  /\ nonceMap \in [Txs -> Nonces \cup {NoNonce}]
  /\ pc \in [Txs -> PCs]
  /\ cnt \in [Txs -> Counts]
  /\ attempts \in [Txs -> 0..MaxAttempts]
  /\ resending \in SUBSET Txs
  /\ resync \in ResyncStates /\ reset \in ResetStates
  /\ count \in Counts
  /\ mempool \in [Nonces -> Users] /\ mined \in [Nonces -> Users]
  /\ faults \in 0..MaxFaults

Init ==
  /\ lastUsed = InitLastUsed /\ recycled = {} /\ sent = {}
  /\ nonceMap = [t \in Txs |-> NoNonce]
  /\ pc = [t \in Txs |-> "queued"]
  /\ cnt = [t \in Txs |-> 0]
  /\ attempts = [t \in Txs |-> 0]
  /\ resending = {} /\ batch = {}
  /\ resync = NoResync /\ reset = NoReset
  /\ count = InitCount
  /\ mempool = [n \in Nonces |-> Free]
  /\ mined = [n \in Nonces |-> IF n < InitCount THEN ExternalTx ELSE Free]
  /\ faults = 0

Fault(f) == f \in Features /\ faults < MaxFaults /\ faults' = faults + 1

Goto(t, l) == pc' = [pc EXCEPT ![t] = l]

Lowest(S) == CHOOSE n \in S : \A m \in S : n <= m

\* INCR of an absent key starts from 0.
Incremented == IF lastUsed = Unset THEN 1 ELSE lastUsed + 1

\* (mutant: one attempt too many)
Throw_OffByOne(t) ==
  /\ attempts' = [attempts EXCEPT ![t] = @ + 1]
  /\ Goto(t, IF attempts[t] + 1 > MaxAttempts THEN "errored" ELSE "queued")

\* A thrown exception: BullMQ runs the job again until its attempts are spent;
\* the last failure makes the "failed" handler store an errored transaction.
Throw(t) ==
  /\ attempts' = [attempts EXCEPT ![t] = @ + 1]
  /\ Goto(t, IF attempts[t] + 1 = MaxAttempts THEN "errored" ELSE "queued")

----------------------------------------------------------------------------
(* acquireNonce, called by _sendTransaction                                *)

\* getPopulatedOrErroredTransaction: the simulation reverts.
PopulateError(t) ==
  /\ pc[t] = "queued"
  /\ Goto(t, "errored")
  /\ UNCHANGED <<redisVars, nonceMap, cnt, attempts, resending, cronVars,
                 chainVars, faults>>

\* (mutant: ZRANGE 0 0 where the code pops)
AcquireRecycled_NoPop(t) ==
  /\ pc[t] = "queued" /\ recycled # {}
  /\ nonceMap' = [nonceMap EXCEPT ![t] = Lowest(recycled)]
  /\ Goto(t, "submit")
  /\ UNCHANGED <<redisVars, cnt, attempts, resending, cronVars, chainVars, faults>>

\* _acquireRecycledNonce: ZPOPMIN on the recycled set; updateNonceMap.
AcquireRecycled(t) ==
  /\ pc[t] = "queued" /\ recycled # {}
  /\ recycled' = recycled \ {Lowest(recycled)}
  /\ nonceMap' = [nonceMap EXCEPT ![t] = Lowest(recycled)]
  /\ Goto(t, "submit")
  /\ UNCHANGED <<lastUsed, sent, cnt, attempts, resending, cronVars, chainVars,
                 faults>>

\* ZPOPMIN of an empty set returns nothing.
NoneRecycled(t) ==
  /\ pc[t] = "queued" /\ recycled = {}
  /\ Goto(t, "incr")
  /\ UNCHANGED <<redisVars, nonceMap, cnt, attempts, resending, cronVars,
                 chainVars, faults>>

\* redis.incr gives the nonce; updateNonceMap.
AcquireIncr(t) ==
  /\ pc[t] = "incr"
  /\ Incremented # 1 /\ Incremented <= MaxNonce
  /\ lastUsed' = Incremented
  /\ nonceMap' = [nonceMap EXCEPT ![t] = Incremented]
  /\ Goto(t, "submit")
  /\ UNCHANGED <<recycled, sent, cnt, attempts, resending, cronVars, chainVars,
                 faults>>

\* A result of 1 is read as "the key was not set": sync it first.
AcquireIncrOne(t) ==
  /\ pc[t] = "incr"
  /\ Incremented = 1 /\ Incremented <= MaxNonce
  /\ lastUsed' = Incremented
  /\ Goto(t, "fetch")
  /\ UNCHANGED <<recycled, sent, nonceMap, cnt, attempts, resending, cronVars,
                 chainVars, faults>>

\* syncLatestNonceFromOnchain reads the chain ...
SyncFetch(t) ==
  /\ pc[t] = "fetch"
  /\ cnt' = [cnt EXCEPT ![t] = count]
  /\ Goto(t, "setSync")
  /\ UNCHANGED <<redisVars, nonceMap, attempts, resending, cronVars, chainVars,
                 faults>>

\* ... and overwrites the key with what it read.
SyncSet(t) ==
  /\ pc[t] = "setSync"
  /\ lastUsed' = cnt[t] - 1
  /\ cnt' = [cnt EXCEPT ![t] = 0]
  /\ Goto(t, "incrAgain")
  /\ UNCHANGED <<recycled, sent, nonceMap, attempts, resending, cronVars,
                 chainVars, faults>>

\* The second INCR's result is used whatever it is.
AcquireIncrAgain(t) ==
  /\ pc[t] = "incrAgain"
  /\ Incremented <= MaxNonce
  /\ lastUsed' = Incremented
  /\ nonceMap' = [nonceMap EXCEPT ![t] = Incremented]
  /\ Goto(t, "submit")
  /\ UNCHANGED <<recycled, sent, cnt, attempts, resending, cronVars, chainVars,
                 faults>>

----------------------------------------------------------------------------
(* account.sendTransaction and the outcomes of an RPC submission           *)

\* The node takes the transaction: a nonce not mined yet, free in its mempool
\* or replacing what is pending there (the new gas price is high enough).
NodeAccepts(n, user) ==
  /\ n >= count
  /\ mempool' = [mempool EXCEPT ![n] = user]
  /\ UNCHANGED <<count, mined>>

NonceTooLow(n) == n < count
Underpriced(n) == n >= count /\ mempool[n] # Free

\* (mutant: an exception after the node took the transaction reaches the catch)
SubmitAccepted_Throws(t) ==
  /\ pc[t] = "submit"
  /\ NodeAccepts(nonceMap[t], t)
  /\ Goto(t, "recycle")
  /\ UNCHANGED <<redisVars, nonceMap, cnt, attempts, resending, cronVars, faults>>

SubmitAccepted(t) ==
  /\ pc[t] = "submit"
  /\ NodeAccepts(nonceMap[t], t)
  /\ Goto(t, "addSent")
  /\ UNCHANGED <<redisVars, nonceMap, cnt, attempts, resending, cronVars, faults>>

\* isNonceAlreadyUsedError or isReplacementGasFeeTooLow: the nonce is given up.
SubmitNonceUsed(t) ==
  /\ pc[t] = "submit"
  /\ NonceTooLow(nonceMap[t]) \/ Underpriced(nonceMap[t])
  /\ Goto(t, "fetchHigher")
  /\ UNCHANGED <<redisVars, nonceMap, cnt, attempts, resending, cronVars,
                 chainVars, faults>>

\* Any other error: an outage, a wallet that cannot be loaded, no funds.
SubmitFails(t) ==
  /\ pc[t] = "submit"
  /\ Goto(t, "recycle")
  /\ UNCHANGED <<redisVars, nonceMap, cnt, attempts, resending, cronVars,
                 chainVars, faults>>

\* The node took the transaction but its answer never arrives.
SubmitLostReply(t) ==
  /\ pc[t] = "submit"
  /\ Fault("lostReply")
  /\ NodeAccepts(nonceMap[t], t)
  /\ Goto(t, "recycle")
  /\ UNCHANGED <<redisVars, nonceMap, cnt, attempts, resending, cronVars>>

\* recycleNonce in the catch block, then `throw error`.
RecycleAfterError(t) ==
  /\ pc[t] = "recycle"
  /\ recycled' = recycled \cup {nonceMap[t]}
  /\ Throw(t)
  /\ UNCHANGED <<lastUsed, sent, nonceMap, cnt, resending, cronVars, chainVars,
                 faults>>

\* syncLatestNonceFromOnchainIfHigher: the RPC read ...
FetchHigher(t) ==
  /\ pc[t] = "fetchHigher"
  /\ cnt' = [cnt EXCEPT ![t] = count]
  /\ Goto(t, "setHigher")
  /\ UNCHANGED <<redisVars, nonceMap, attempts, resending, cronVars, chainVars,
                 faults>>

\* max(transactionCount - 1, lastUsedNonce or 0)
HigherOf(transactionCount, last) ==
  LET db == IF last = Unset THEN 0 ELSE last
  IN  IF transactionCount - 1 > db THEN transactionCount - 1 ELSE db

\* ... and the Lua script, then `throw error`.
SetHigher(t) ==
  /\ pc[t] = "setHigher"
  /\ lastUsed' = HigherOf(cnt[t], lastUsed)
  /\ cnt' = [cnt EXCEPT ![t] = 0]
  /\ Throw(t)
  /\ UNCHANGED <<recycled, sent, nonceMap, resending, cronVars, chainVars, faults>>

\* (mutant: addSentNonce is not called)
AddSentNonce_Missing(t) ==
  /\ pc[t] = "addSent"
  /\ Goto(t, "stamp")
  /\ UNCHANGED <<redisVars, nonceMap, cnt, attempts, resending, cronVars,
                 chainVars, faults>>

AddSentNonce(t) ==
  /\ pc[t] = "addSent"
  /\ sent' = sent \cup {nonceMap[t]}
  /\ Goto(t, "stamp")
  /\ UNCHANGED <<lastUsed, recycled, nonceMap, cnt, attempts, resending,
                 cronVars, chainVars, faults>>

\* `sentAtBlock: await getBlockNumberish`, then TransactionDB.set stores the
\* sent transaction and its mine job is added.
StampSent(t) ==
  /\ pc[t] = "stamp"
  /\ Goto(t, "sent")
  /\ UNCHANGED <<redisVars, nonceMap, cnt, attempts, resending, cronVars,
                 chainVars, faults>>

\* getBlockNumberish throws: no block number is cached for the chain.
StampThrows(t) ==
  /\ pc[t] = "stamp"
  /\ Fault("lateThrow")
  /\ Throw(t)
  /\ UNCHANGED <<redisVars, nonceMap, cnt, resending, cronVars, chainVars>>

----------------------------------------------------------------------------
(* Resends and the mine job                                                *)

\* A resend job reads the sent transaction; its nonce is kept.
ResendRead(t) ==
  /\ pc[t] = "sent"
  /\ t \notin resending
  /\ resending' = resending \cup {t}
  /\ UNCHANGED <<redisVars, nonceMap, pc, cnt, attempts, cronVars, chainVars,
                 faults>>

\* (mutant: a resend takes the next nonce)
ResendNonce_Next(t) == Incremented

\* The nonce a resend uses.
ResendNonce(t) == nonceMap[t]

\* _resendTransaction at twice the gas: the node takes it ...
ResendAccepted(t) ==
  /\ t \in resending
  /\ resending' = resending \ {t}
  /\ NodeAccepts(ResendNonce(t), t)
  /\ UNCHANGED <<redisVars, nonceMap, pc, cnt, attempts, cronVars, faults>>

\* ... or rejects it: the nonce is used, or a pending transaction has a higher
\* fee (neither is an error), or the RPC fails until the job has no attempts left.
ResendRejected(t) ==
  /\ t \in resending
  /\ resending' = resending \ {t}
  /\ \/ /\ NonceTooLow(ResendNonce(t)) \/ Underpriced(ResendNonce(t))
        /\ UNCHANGED faults
     \/ Fault("rpcError")
  /\ UNCHANGED <<redisVars, nonceMap, pc, cnt, attempts, cronVars, chainVars>>

\* _mineTransaction finds a receipt and removes the nonce from nonce-sent.
MineFound(t) ==
  /\ pc[t] = "sent"
  /\ mined[nonceMap[t]] = t
  /\ sent' = sent \ {nonceMap[t]}
  /\ Goto(t, "mined")
  /\ UNCHANGED <<lastUsed, recycled, nonceMap, cnt, attempts, resending,
                 cronVars, chainVars, faults>>

\* The mine job spent its attempts; the "failed" handler stores "errored".
MineTimeout(t) ==
  /\ pc[t] = "sent"
  /\ Fault("mineTimeout")
  /\ Goto(t, "release")
  /\ UNCHANGED <<redisVars, nonceMap, cnt, attempts, resending, cronVars, chainVars>>

\* ... recycleNonce first ...
TimeoutRecycle(t) ==
  /\ pc[t] = "release"
  /\ recycled' = recycled \cup {nonceMap[t]}
  /\ Goto(t, "unsend")
  /\ UNCHANGED <<lastUsed, sent, nonceMap, cnt, attempts, resending, cronVars,
                 chainVars, faults>>

\* ... removeSentNonce second.
TimeoutRemoveSent(t) ==
  /\ pc[t] = "unsend"
  /\ sent' = sent \ {nonceMap[t]}
  /\ Goto(t, "errored")
  /\ UNCHANGED <<lastUsed, recycled, nonceMap, cnt, attempts, resending,
                 cronVars, chainVars, faults>>

----------------------------------------------------------------------------
(* Faults of a job                                                         *)

\* eth_getTransactionCount throws: the attempt fails with the key as it is.
ReadFails(t) ==
  /\ pc[t] \in {"fetch", "fetchHigher"}
  /\ Fault("rpcError")
  /\ Throw(t)
  /\ UNCHANGED <<redisVars, nonceMap, cnt, resending, cronVars, chainVars>>

InAttempt == {"incr", "fetch", "setSync", "incrAgain", "submit", "recycle",
              "fetchHigher", "setHigher", "addSent", "stamp"}

\* The host stops.  BullMQ gives a stalled send job to another worker; the
\* "failed" event handler of the mine worker is a callback and is not repeated.
Crash(t) ==
  /\ Fault("crash")
  /\ \/ pc[t] \in InAttempt /\ Goto(t, "queued")
     \/ pc[t] \in {"release", "unsend"} /\ Goto(t, "errored")
  /\ cnt' = [cnt EXCEPT ![t] = 0]
  /\ UNCHANGED <<redisVars, nonceMap, attempts, resending, cronVars, chainVars>>

----------------------------------------------------------------------------
(* cancelRecycledNoncesWorker                                              *)

\* (mutant: the key is read and not deleted)
CancelTake_NoDelete ==
  /\ "cancel" \in Features
  /\ batch = {} /\ recycled # {}
  /\ batch' = recycled
  /\ UNCHANGED <<redisVars, jobVars, resync, reset, chainVars, faults>>

\* getAndDeleteRecycledNonces: MULTI ZRANGE DEL.
CancelTake ==
  /\ "cancel" \in Features
  /\ batch = {} /\ recycled # {}
  /\ batch' = recycled
  /\ recycled' = {}
  /\ UNCHANGED <<lastUsed, sent, jobVars, resync, reset, chainVars, faults>>

\* sendCancellationTransaction for the lowest nonce left succeeds, ...
CancelAccepted ==
  /\ batch # {}
  /\ NodeAccepts(Lowest(batch), CancelTx)
  /\ batch' = batch \ {Lowest(batch)}
  /\ UNCHANGED <<redisVars, jobVars, resync, reset, faults>>

\* ... fails because the nonce is mined and is forgotten, ...
CancelIgnored ==
  /\ batch # {}
  /\ NonceTooLow(Lowest(batch))
  /\ batch' = batch \ {Lowest(batch)}
  /\ UNCHANGED <<redisVars, jobVars, resync, reset, chainVars, faults>>

\* (mutant: a failed cancellation is counted and forgotten)
CancelFails_Forgets ==
  /\ batch # {}
  /\ \/ Underpriced(Lowest(batch)) /\ UNCHANGED faults
     \/ Fault("rpcError")
  /\ batch' = batch \ {Lowest(batch)}
  /\ UNCHANGED <<redisVars, jobVars, resync, reset, chainVars>>

\* ... or fails in any other way, "replacement underpriced" included, and is
\* recycled again.
CancelFails ==
  /\ batch # {}
  /\ \/ Underpriced(Lowest(batch)) /\ UNCHANGED faults
     \/ Fault("rpcError")
  /\ batch' = batch \ {Lowest(batch)}
  /\ recycled' = recycled \cup {Lowest(batch)}
  /\ UNCHANGED <<lastUsed, sent, jobVars, resync, reset, chainVars>>

\* The batch lives in the memory of the run: a crash forgets it.
CancelCrash ==
  /\ batch # {}
  /\ Fault("crash")
  /\ batch' = {}
  /\ UNCHANGED <<redisVars, jobVars, resync, reset, chainVars>>

----------------------------------------------------------------------------
(* nonceResyncWorker                                                       *)

\* redis.keys("nonce-sent*"): a wallet whose set is empty has no key.
ResyncStart ==
  /\ "resync" \in Features
  /\ resync.phase = "idle" /\ sent # {}
  /\ resync' = [NoResync EXCEPT !.phase = "start"]
  /\ UNCHANGED <<redisVars, jobVars, batch, reset, chainVars, faults>>

\* Both promises of Promise.all have resolved: return early, or begin the loop.
ResyncDecide(c, last) ==
  resync' = IF c - 1 >= last THEN NoResync
            ELSE [phase |-> "check", count |-> 0, last |-> last, cur |-> c]

ResyncReadCount ==
  /\ \/ /\ resync.phase = "start"
        /\ resync' = [resync EXCEPT !.phase = "gotCount", !.count = count]
     \/ /\ resync.phase = "gotDb"
        /\ ResyncDecide(count, resync.last)
  /\ UNCHANGED <<redisVars, jobVars, batch, reset, chainVars, faults>>

\* inspectNonce: 0 when the key is absent.
InspectNonce == IF lastUsed = Unset THEN 0 ELSE lastUsed

ResyncReadDb ==
  /\ \/ /\ resync.phase = "start"
        /\ resync' = [resync EXCEPT !.phase = "gotDb", !.last = InspectNonce]
     \/ /\ resync.phase = "gotCount"
        /\ ResyncDecide(resync.count, InspectNonce)
  /\ UNCHANGED <<redisVars, jobVars, batch, reset, chainVars, faults>>

\* (mutant: the loop ends one nonce early)
ResyncInLoop_Short == resync.cur < resync.last - 1

\* The loop's condition: strictly below the last used nonce.
ResyncInLoop == resync.cur < resync.last

\* isSentNonce for the current nonce; the loop ends at the last used nonce.
ResyncCheck ==
  /\ resync.phase = "check"
  /\ resync' = IF ~ResyncInLoop THEN NoResync
               ELSE IF resync.cur \in sent
                    THEN [resync EXCEPT !.cur = @ + 1]
                    ELSE [resync EXCEPT !.phase = "recycle"]
  /\ UNCHANGED <<redisVars, jobVars, batch, reset, chainVars, faults>>

ResyncRecycle ==
  /\ resync.phase = "recycle"
  /\ recycled' = recycled \cup {resync.cur}
  /\ resync' = [resync EXCEPT !.phase = "check", !.cur = @ + 1]
  /\ UNCHANGED <<lastUsed, sent, jobVars, batch, reset, chainVars, faults>>

\* The run ends early: the RPC read rejects, or the host stops.
ResyncAborts ==
  /\ resync.phase # "idle"
  /\ \/ Fault("crash")
     \/ resync.phase \in {"start", "gotDb"} /\ Fault("rpcError")
  /\ resync' = NoResync
  /\ UNCHANGED <<redisVars, jobVars, batch, reset, chainVars>>

----------------------------------------------------------------------------
(* POST /backend-wallet/reset-nonces                                       *)

\* redis.keys: the keys of the wallet that exist.
KeysPresent == {k \in Keys : \/ k = "nonce" /\ lastUsed # Unset
                             \/ k = "recycled" /\ recycled # {}}

\* getUsedBackendWallets: is there a `nonce:` key for the wallet?
ResetStart ==
  /\ reset.phase = "idle"
  /\ Fault("reset")
  /\ reset' = [NoReset EXCEPT !.phase = "keys", !.used = KeysPresent \cap {"nonce"}]
  /\ UNCHANGED <<redisVars, jobVars, batch, resync, chainVars>>

\* deleteAllNonces lists the keys there are.  Its third pattern is
\* "sent-nonce:*" while the key is "nonce-sent:*": the sent set is not listed.
DeleteListKeys ==
  /\ reset.phase = "keys"
  /\ reset' = [reset EXCEPT !.phase = "delete", !.listed = KeysPresent]
  /\ UNCHANGED <<redisVars, jobVars, batch, resync, chainVars, faults>>

\* redis.del of the listed keys.
DeleteAllNonces ==
  /\ reset.phase = "delete"
  /\ lastUsed' = IF "nonce" \in reset.listed THEN Unset ELSE lastUsed
  /\ recycled' = IF "recycled" \in reset.listed THEN {} ELSE recycled
  /\ reset' = IF reset.used = {} THEN NoReset ELSE [NoReset EXCEPT !.phase = "fetch"]
  /\ UNCHANGED <<sent, jobVars, batch, resync, chainVars, faults>>

\* syncLatestNonceFromOnchain for each wallet in use; Promise.allSettled
\* ignores the ones that fail.
ResetFetch ==
  /\ reset.phase = "fetch"
  /\ \/ /\ reset' = [reset EXCEPT !.phase = "set", !.count = count]
        /\ UNCHANGED faults
     \/ /\ reset' = NoReset
        /\ Fault("rpcError")
  /\ UNCHANGED <<redisVars, jobVars, batch, resync, chainVars>>

ResetSet ==
  /\ reset.phase = "set"
  /\ lastUsed' = reset.count - 1
  /\ reset' = NoReset
  /\ UNCHANGED <<recycled, sent, jobVars, batch, resync, chainVars, faults>>

----------------------------------------------------------------------------
(* The chain (external)                                                    *)

\* A block includes the transaction at the wallet's next nonce.
Mine ==
  /\ count <= MaxNonce /\ mempool[count] # Free
  /\ mined' = [mined EXCEPT ![count] = mempool[count]]
  /\ mempool' = [mempool EXCEPT ![count] = Free]
  /\ count' = count + 1
  /\ UNCHANGED <<redisVars, jobVars, cronVars, faults>>

\* The mempool forgets a pending transaction.
Drop ==
  /\ Fault("drop")
  /\ \E n \in Nonces : /\ mempool[n] # Free
                       /\ mempool' = [mempool EXCEPT ![n] = Free]
  /\ UNCHANGED <<redisVars, jobVars, cronVars, count, mined>>

\* The wallet is used outside the engine, at its lowest nonce nobody occupies.
External ==
  /\ Fault("external")
  /\ \E n \in Nonces : /\ n >= count /\ mempool[n] = Free
                       /\ \A m \in Nonces : count <= m /\ m < n => mempool[m] # Free
                       /\ mempool' = [mempool EXCEPT ![n] = ExternalTx]
  /\ UNCHANGED <<redisVars, jobVars, cronVars, count, mined>>

----------------------------------------------------------------------------
SendStep(t) ==
  \/ AcquireRecycled(t) \/ NoneRecycled(t) \/ AcquireIncr(t)
  \/ AcquireIncrOne(t) \/ SyncFetch(t) \/ SyncSet(t) \/ AcquireIncrAgain(t)
  \/ SubmitAccepted(t) \/ SubmitNonceUsed(t)
  \/ RecycleAfterError(t) \/ FetchHigher(t) \/ SetHigher(t)
  \/ AddSentNonce(t) \/ StampSent(t)

SendFault(t) ==
  \/ PopulateError(t) \/ SubmitFails(t) \/ SubmitLostReply(t)
  \/ StampThrows(t) \/ ReadFails(t) \/ Crash(t)

MineStep(t) ==
  \/ ResendRead(t) \/ ResendAccepted(t) \/ ResendRejected(t) \/ MineFound(t)
  \/ MineTimeout(t) \/ TimeoutRecycle(t) \/ TimeoutRemoveSent(t)

CancelStep ==
  CancelTake \/ CancelAccepted \/ CancelIgnored \/ CancelFails \/ CancelCrash

ResyncStep ==
  \/ ResyncStart \/ ResyncReadCount \/ ResyncReadDb \/ ResyncCheck
  \/ ResyncRecycle \/ ResyncAborts

ResetStep ==
  ResetStart \/ DeleteListKeys \/ DeleteAllNonces \/ ResetFetch \/ ResetSet

ChainStep == Mine \/ Drop \/ External

Next ==
  \/ \E t \in Txs : SendStep(t) \/ SendFault(t) \/ MineStep(t)
  \/ CancelStep \/ ResyncStep \/ ResetStep \/ ChainStep

Spec == Init /\ [][Next]_vars

\* Weak fairness: BullMQ keeps giving jobs to workers and both crons keep
\* firing, and the chain keeps producing blocks.  No fault is ever required.
FairSpec ==
  /\ Spec
  /\ \A t \in Txs :
       /\ WF_vars(SendStep(t))
       /\ WF_vars(ResendRead(t)) /\ WF_vars(ResendAccepted(t))
       /\ WF_vars(MineFound(t))
       /\ WF_vars(TimeoutRecycle(t) \/ TimeoutRemoveSent(t))
  /\ WF_vars(CancelTake) /\ WF_vars(CancelAccepted \/ CancelIgnored)
  /\ WF_vars(ResyncStart \/ ResyncReadCount \/ ResyncReadDb \/ ResyncCheck
             \/ ResyncRecycle)
  /\ WF_vars(Mine)

----------------------------------------------------------------------------
(* Properties                                                              *)

\* The attempt, or the sent transaction, that has a claim on its nonce.
Owning == {"submit", "recycle", "addSent", "stamp", "sent", "release"}
Owns(t) == pc[t] \in Owning

\* "Acquire an unused nonce": no two live transactions share a nonce, and a
\* nonce one of them has is neither up for reuse nor about to be cancelled.
NonceExclusive ==
  /\ \A t, u \in Txs : Owns(t) /\ Owns(u) /\ t # u => nonceMap[t] # nonceMap[u]
  /\ \A t \in Txs : Owns(t) => nonceMap[t] \notin recycled \cup batch
  /\ recycled \cap batch = {}

\* No nonce is skipped for good: everything between the chain's count and the
\* last nonce handed out is pending, owned, or waiting to be reused or cancelled.
NoNonceLost ==
  \A n \in Nonces :
    count <= n /\ n <= lastUsed =>
      \/ n \in recycled \cup batch
      \/ mempool[n] # Free
      \/ \E t \in Txs : Owns(t) /\ nonceMap[t] = n

\* nonce-sent "stores nonces that have been sent on chain but not yet mined":
\* it holds the nonce of every transaction that waits to be mined.
SentTracked == \A t \in Txs : pc[t] = "sent" => nonceMap[t] \in sent

\* A transaction is executed at most once: it is mined at one nonce only.
AtMostOnce ==
  \A t \in Txs : \A n, m \in Nonces : mined[n] = t /\ mined[m] = t => n = m

\* "Otherwise this nonce is not used yet": a job that will be tried again, or
\* was given up, left nothing at the node.
RetryIsSafe ==
  \A t \in Txs : pc[t] \in {"queued", "incr", "submit", "recycle", "errored"} =>
    \A n \in Nonces : mempool[n] # t /\ mined[n] # t

\* The engine never replaces the pending transaction of another queueId: a
\* live transaction leaves the mempool when it is mined or dropped.
NeverDisplaced ==
  [][\A n \in Nonces : \A t \in Txs :
       mempool[n] = t /\ Owns(t) /\ nonceMap[t] = n =>
         mempool'[n] \in {t, Free}]_vars

\* The gap left by a crashed attempt or a dropped cancellation below a sent
\* transaction is found by the resync cron and filled.
GapFilled ==
  \A n \in Nonces :
    (count = n /\ \E t \in Txs : pc[t] = "sent" /\ nonceMap[t] > n) ~> (count > n)

=============================================================================
