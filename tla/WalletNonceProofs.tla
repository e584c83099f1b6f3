------------------------- MODULE WalletNonceProofs -------------------------
(***************************************************************************)
(* Theorems about WalletNonce, for every set of transactions, every bound  *)
(* and every initial state the assumptions of WalletNonce allow.           *)
(***************************************************************************)
EXTENDS WalletNonce, WellFoundedInduction, TLAPS

(* Type correctness                                                        *)

\* Program points after acquireNonce returned: the local `nonce` is a number.
Acquired == Owning \cup {"fetchHigher", "setHigher", "unsend", "mined"}

\* What TypeOK needs to be inductive: jobs with a nonce have a proper one, an
\* attempt is running only while the job has attempts left, and the resync
\* loop recycles only nonces below the last used one.
Wellformed ==
  /\ \A t \in Txs : pc[t] \in Acquired => nonceMap[t] \in Nonces
  /\ \A t \in Txs : pc[t] \in InAttempt \cup {"queued"} => attempts[t] < MaxAttempts
  /\ resync.phase = "recycle" => resync.cur < resync.last

TypeInv == TypeOK /\ Wellformed

\* What ZPOPMIN returns is a member of the set.
LEMMA LowestMember ==
  ASSUME NEW S \in SUBSET Nonces, S # {}
  PROVE  Lowest(S) \in S
<1>0. S \subseteq Nat
  BY ConstantsAssumption DEF Nonces
<1>1. \E n \in S : \A m \in S : ~ (<<m, n>> \in OpToRel(<, Nat))
  BY <1>0, NatLessThanWellFounded, WFMin
<1>2. PICK n \in S : \A m \in S : ~ (<<m, n>> \in OpToRel(<, Nat))
  BY <1>1
<1>3. \A m \in S : n <= m
  <2> SUFFICES ASSUME NEW m \in S, m < n PROVE FALSE
    BY <1>0
  <2>1. <<m, n>> \in Nat \X Nat /\ <<m, n>>[1] < <<m, n>>[2]
    BY <1>0
  <2>2. <<m, n>> \in OpToRel(<, Nat)
    BY <2>1 DEF OpToRel
  <2> QED
    BY <1>2, <2>2
<1> QED
  BY <1>3 DEF Lowest

\* The initial Redis keys, jobs and chain are well typed.
LEMMA InitType == Init => TypeInv
BY ConstantsAssumption, UsersAssumption
   DEF Init, TypeInv, TypeOK, Wellformed, Nonces, Counts, Users, PCs, Acquired, Owning, InAttempt,
       NoResync, NoReset, ResyncStates, ResetStates, Unset, NoNonce

\* acquireNonce keeps the types.
LEMMA AcquireType ==
  ASSUME TypeInv, NEW t \in Txs,
         AcquireRecycled(t) \/ NoneRecycled(t) \/ AcquireIncr(t) \/ AcquireIncrOne(t) \/ SyncFetch(t) \/ SyncSet(t) \/ AcquireIncrAgain(t) \/ PopulateError(t)
  PROVE  TypeInv'
<1> USE ConstantsAssumption
        DEF TypeInv, TypeOK, Wellformed, Nonces, Counts, PCs, Acquired, Owning,
            InAttempt, Goto, redisVars, cronVars, chainVars, Unset, NoNonce
<1>1. CASE AcquireRecycled(t)
  BY <1>1, LowestMember DEF AcquireRecycled
<1>2. CASE NoneRecycled(t)
  BY <1>2 DEF NoneRecycled
<1>3. CASE AcquireIncr(t)
  BY <1>3 DEF AcquireIncr, Incremented
<1>4. CASE AcquireIncrOne(t)
  BY <1>4 DEF AcquireIncrOne, Incremented
<1>5. CASE SyncFetch(t)
  BY <1>5 DEF SyncFetch
<1>6. CASE SyncSet(t)
  BY <1>6 DEF SyncSet
<1>7. CASE AcquireIncrAgain(t)
  BY <1>7 DEF AcquireIncrAgain, Incremented
<1>8. CASE PopulateError(t)
  BY <1>8 DEF PopulateError
<1> QED
  BY <1>1, <1>2, <1>3, <1>4, <1>5, <1>6, <1>7, <1>8

\* A thrown exception ends the attempt and keeps the count of attempts in range.
LEMMA ThrowType ==
  ASSUME TypeInv, NEW t \in Txs, pc[t] \in InAttempt, Throw(t)
  PROVE  /\ attempts' \in [Txs -> 0..MaxAttempts]
         /\ pc' \in [Txs -> PCs]
         /\ pc'[t] \in {"queued", "errored"}
         /\ \A u \in Txs : u # t => pc'[u] = pc[u] /\ attempts'[u] = attempts[u]
         /\ pc'[t] = "queued" => attempts'[t] < MaxAttempts
<1>1. attempts[t] \in 0..(MaxAttempts - 1)
  BY ConstantsAssumption DEF TypeInv, TypeOK, Wellformed
<1>2. pc' = [pc EXCEPT ![t] = IF attempts[t] + 1 = MaxAttempts THEN "errored" ELSE "queued"]
  BY DEF Throw, Goto
<1>3. attempts' = [attempts EXCEPT ![t] = attempts[t] + 1]
  BY DEF Throw
<1> QED
  BY <1>1, <1>2, <1>3, ConstantsAssumption DEF TypeInv, TypeOK, PCs

\* The submission and its error paths keep the types.
LEMMA SubmitType ==
  ASSUME TypeInv, NEW t \in Txs,
         SubmitAccepted(t) \/ SubmitNonceUsed(t) \/ SubmitFails(t) \/ SubmitLostReply(t) \/ RecycleAfterError(t) \/ FetchHigher(t) \/ SetHigher(t) \/ AddSentNonce(t) \/ StampSent(t) \/ StampThrows(t)
  PROVE  TypeInv'
<1> USE ConstantsAssumption
        DEF TypeInv, TypeOK, Wellformed, Nonces, Counts, PCs, Acquired, Owning,
            InAttempt, Goto, redisVars, cronVars, chainVars, Unset, NoNonce
<1>1. CASE SubmitAccepted(t)
  BY <1>1 DEF SubmitAccepted, NodeAccepts, Users
<1>2. CASE SubmitNonceUsed(t)
  BY <1>2 DEF SubmitNonceUsed
<1>3. CASE SubmitFails(t)
  BY <1>3 DEF SubmitFails
<1>4. CASE SubmitLostReply(t)
  BY <1>4 DEF SubmitLostReply, NodeAccepts, Users, Fault
<1>5. CASE RecycleAfterError(t)
  <2>1. nonceMap[t] \in Nonces /\ pc[t] \in InAttempt /\ Throw(t)
    BY <1>5 DEF RecycleAfterError
  <2>2. recycled' \in SUBSET Nonces
    BY <1>5, <2>1 DEF RecycleAfterError
  <2> QED
    BY <1>5, <2>1, <2>2, ThrowType DEF RecycleAfterError
<1>6. CASE FetchHigher(t)
  BY <1>6 DEF FetchHigher
<1>7. CASE SetHigher(t)
  <2>1. pc[t] \in InAttempt /\ Throw(t)
    BY <1>7 DEF SetHigher
  <2>2. HigherOf(cnt[t], lastUsed) \in -1..MaxNonce
    BY DEF HigherOf
  <2>3. lastUsed' \in -1..MaxNonce /\ cnt' \in [Txs -> Counts]
    BY <1>7, <2>2 DEF SetHigher
  <2> QED
    BY <1>7, <2>1, <2>3, ThrowType DEF SetHigher
<1>8. CASE AddSentNonce(t)
  <2>1. nonceMap[t] \in Nonces
    BY <1>8 DEF AddSentNonce
  <2>2. sent' \in SUBSET Nonces
    BY <1>8, <2>1 DEF AddSentNonce
  <2> QED
    BY <1>8, <2>1, <2>2 DEF AddSentNonce
<1>9. CASE StampSent(t)
  BY <1>9 DEF StampSent
<1>10. CASE StampThrows(t)
  <2>1. pc[t] \in InAttempt /\ Throw(t)
    BY <1>10 DEF StampThrows
  <2>2. faults' \in 0..MaxFaults
    BY <1>10 DEF StampThrows, Fault
  <2> QED
    BY <1>10, <2>1, <2>2, ThrowType DEF StampThrows
<1> QED
  BY <1>1, <1>2, <1>3, <1>4, <1>5, <1>6, <1>7, <1>8, <1>9, <1>10

\* Resends, the mine job and the faults of a job keep the types.
LEMMA MineJobType ==
  ASSUME TypeInv, NEW t \in Txs,
         ResendRead(t) \/ ResendAccepted(t) \/ ResendRejected(t) \/ MineFound(t) \/ MineTimeout(t) \/ TimeoutRecycle(t) \/ TimeoutRemoveSent(t) \/ ReadFails(t) \/ Crash(t)
  PROVE  TypeInv'
<1> USE ConstantsAssumption
        DEF TypeInv, TypeOK, Wellformed, Nonces, Counts, PCs, Acquired, Owning,
            InAttempt, Goto, redisVars, cronVars, chainVars, Unset, NoNonce
<1>1. CASE ResendRead(t)
  BY <1>1 DEF ResendRead
<1>2. CASE ResendAccepted(t)
  BY <1>2 DEF ResendAccepted, NodeAccepts, Users
<1>3. CASE ResendRejected(t)
  BY <1>3 DEF ResendRejected, Fault
<1>4. CASE MineFound(t)
  BY <1>4 DEF MineFound
<1>5. CASE MineTimeout(t)
  BY <1>5 DEF MineTimeout, Fault
<1>6. CASE TimeoutRecycle(t)
  <2>1. nonceMap[t] \in Nonces
    BY <1>6 DEF TimeoutRecycle
  <2>2. recycled' \in SUBSET Nonces
    BY <1>6, <2>1 DEF TimeoutRecycle
  <2> QED
    BY <1>6, <2>1, <2>2 DEF TimeoutRecycle
<1>7. CASE TimeoutRemoveSent(t)
  BY <1>7 DEF TimeoutRemoveSent
<1>8. CASE ReadFails(t)
  BY <1>8 DEF ReadFails, Throw, Fault
<1>9. CASE Crash(t)
  <2>1. CASE pc[t] \in InAttempt /\ Goto(t, "queued")
    BY <1>9, <2>1 DEF Crash, Fault
  <2>2. CASE pc[t] \in {"release", "unsend"} /\ Goto(t, "errored")
    BY <1>9, <2>2 DEF Crash, Fault
  <2> QED
    BY <1>9, <2>1, <2>2 DEF Crash
<1> QED
  BY <1>1, <1>2, <1>3, <1>4, <1>5, <1>6, <1>7, <1>8, <1>9

\* The cancel cron keeps the types.
LEMMA CancelType ==
  ASSUME TypeInv, CancelTake \/ CancelAccepted \/ CancelIgnored \/ CancelFails \/ CancelCrash
  PROVE  TypeInv'
<1> USE ConstantsAssumption
        DEF TypeInv, TypeOK, Wellformed, Nonces, Counts, jobVars, redisVars,
            chainVars, cronVars, Unset, ResyncStates, ResetStates, NoResync, NoReset
<1>1. CASE CancelTake
  BY <1>1 DEF CancelTake
<1>2. CASE CancelAccepted
  BY <1>2, LowestMember DEF CancelAccepted, NodeAccepts, Users
<1>3. CASE CancelIgnored
  BY <1>3, LowestMember DEF CancelIgnored
<1>4. CASE CancelFails
  <2>1. Lowest(batch) \in Nonces
    BY <1>4, LowestMember DEF CancelFails
  <2>2. recycled' \in SUBSET Nonces /\ batch' \in SUBSET Nonces
    BY <1>4, <2>1 DEF CancelFails
  <2>3. faults' \in 0..MaxFaults
    BY <1>4 DEF CancelFails, Fault
  <2> QED
    BY <1>4, <2>2, <2>3 DEF CancelFails
<1>5. CASE CancelCrash
  BY <1>5 DEF CancelCrash, Fault
<1> QED
  BY <1>1, <1>2, <1>3, <1>4, <1>5

\* The resync cron keeps the types: its loop variable stays below the last
\* used nonce it read.
LEMMA ResyncType ==
  ASSUME TypeInv, ResyncStep
  PROVE  TypeInv'
<1> USE ConstantsAssumption DEF Nonces, Counts
<1>1. /\ resync.phase \in {"idle", "start", "gotCount", "gotDb", "check", "recycle"}
      /\ resync.count \in Counts /\ resync.last \in -1..MaxNonce
      /\ resync.cur \in Counts /\ count \in Counts
      /\ InspectNonce \in -1..MaxNonce
      /\ resync.phase = "recycle" => resync.cur < resync.last
  BY DEF TypeInv, TypeOK, Wellformed, ResyncStates, InspectNonce, Unset
<1> DEFINE Fine(r) == r \in ResyncStates /\ (r.phase = "recycle" => r.cur < r.last)
<1>2. Fine(NoResync)
  BY DEF ResyncStates, NoResync
<1>3. Fine(resync')
  <2>1. CASE ResyncStart
    BY <2>1 DEF ResyncStart, ResyncStates, NoResync
  <2>2. ASSUME NEW c \in Counts, NEW l \in -1..MaxNonce, ResyncDecide(c, l)
        PROVE  Fine(resync')
    <3>1. CASE c - 1 >= l
      BY <1>2, <2>2, <3>1 DEF ResyncDecide
    <3>2. CASE ~(c - 1 >= l)
      BY <2>2, <3>2 DEF ResyncDecide, ResyncStates
    <3> QED
      BY <3>1, <3>2
  <2>3. CASE ResyncReadCount
    <3>1. CASE resync' = [resync EXCEPT !.phase = "gotCount", !.count = count]
      BY <1>1, <3>1 DEF ResyncStates, TypeInv, TypeOK
    <3>2. CASE ResyncDecide(count, resync.last)
      BY <1>1, <2>2, <3>2
    <3> QED
      BY <2>3, <3>1, <3>2 DEF ResyncReadCount
  <2>4. CASE ResyncReadDb
    <3>1. CASE resync' = [resync EXCEPT !.phase = "gotDb", !.last = InspectNonce]
      BY <1>1, <3>1 DEF ResyncStates, TypeInv, TypeOK
    <3>2. CASE ResyncDecide(resync.count, InspectNonce)
      BY <1>1, <2>2, <3>2
    <3> QED
      BY <2>4, <3>1, <3>2 DEF ResyncReadDb
  <2>5. CASE ResyncCheck
    <3>1. CASE ~ResyncInLoop
      BY <1>2, <2>5, <3>1 DEF ResyncCheck
    <3>2. CASE ResyncInLoop /\ resync.cur \in sent
      <4>1. resync.phase = "check" /\ resync.cur + 1 \in Counts
        BY <1>1, <2>5, <3>2 DEF ResyncCheck, ResyncInLoop
      <4>2. resync' = [resync EXCEPT !.cur = resync.cur + 1]
        BY <2>5, <3>2 DEF ResyncCheck
      <4> QED
        BY <1>1, <4>1, <4>2 DEF ResyncStates, TypeInv, TypeOK
    <3>3. CASE ResyncInLoop /\ resync.cur \notin sent
      BY <1>1, <2>5, <3>3 DEF ResyncCheck, ResyncInLoop, ResyncStates, TypeInv, TypeOK
    <3> QED
      BY <3>1, <3>2, <3>3
  <2>6. CASE ResyncRecycle
    <3>1. resync.cur + 1 \in Counts
      BY <1>1, <2>6 DEF ResyncRecycle
    <3>2. resync' = [resync EXCEPT !.phase = "check", !.cur = resync.cur + 1]
      BY <2>6 DEF ResyncRecycle
    <3> QED
      BY <1>1, <3>1, <3>2 DEF ResyncStates, TypeInv, TypeOK
  <2>7. CASE ResyncAborts
    BY <1>2, <2>7 DEF ResyncAborts
  <2> QED
    BY <2>1, <2>3, <2>4, <2>5, <2>6, <2>7 DEF ResyncStep
<1>4. recycled' \in SUBSET Nonces
  <2>1. CASE ResyncRecycle
    <3>1. resync.cur \in Nonces
      BY <1>1, <2>1 DEF ResyncRecycle
    <3> QED
      BY <2>1, <3>1 DEF ResyncRecycle, TypeInv, TypeOK
  <2>2. CASE UNCHANGED recycled
    BY <2>2 DEF TypeInv, TypeOK
  <2> QED
    BY <2>1, <2>2 DEF ResyncStep, ResyncStart, ResyncReadCount, ResyncReadDb,
                      ResyncCheck, ResyncAborts, redisVars
<1>5. faults' \in 0..MaxFaults
  BY DEF ResyncStep, ResyncStart, ResyncReadCount, ResyncReadDb, ResyncCheck,
         ResyncRecycle, ResyncAborts, Fault, TypeInv, TypeOK
<1>6. UNCHANGED <<lastUsed, sent, jobVars, batch, reset, chainVars>>
  BY DEF ResyncStep, ResyncStart, ResyncReadCount, ResyncReadDb, ResyncCheck,
         ResyncRecycle, ResyncAborts, redisVars
<1> QED
  BY <1>3, <1>4, <1>5, <1>6 DEF TypeInv, TypeOK, Wellformed, jobVars, chainVars

\* The reset-nonces route keeps the types.
LEMMA ResetType ==
  ASSUME TypeInv, ResetStep
  PROVE  TypeInv'
<1> USE ConstantsAssumption DEF Nonces, Counts
<1>1. /\ reset.phase \in {"idle", "keys", "delete", "fetch", "set"}
      /\ reset.count \in Counts /\ count \in Counts
      /\ reset.used \in SUBSET Keys /\ reset.listed \in SUBSET Keys
      /\ KeysPresent \in SUBSET Keys
  BY DEF TypeInv, TypeOK, ResetStates, KeysPresent
<1>2. reset' \in ResetStates
  <2>1. CASE ResetStart
    <3>1. KeysPresent \cap {"nonce"} \in SUBSET Keys
      BY <1>1
    <3>2. reset' = [phase |-> "keys", count |-> 0,
                    used |-> KeysPresent \cap {"nonce"}, listed |-> {}]
      BY <2>1 DEF ResetStart, NoReset
    <3> QED
      BY <3>1, <3>2 DEF ResetStates
  <2>2. CASE DeleteListKeys
    BY <1>1, <2>2 DEF DeleteListKeys, ResetStates, TypeInv, TypeOK
  <2>3. CASE DeleteAllNonces
    BY <1>1, <2>3 DEF DeleteAllNonces, ResetStates, NoReset
  <2>4. CASE ResetFetch
    <3>1. CASE reset' = [reset EXCEPT !.phase = "set", !.count = count]
      BY <1>1, <3>1 DEF ResetStates, TypeInv, TypeOK
    <3>2. CASE reset' = NoReset
      BY <3>2 DEF ResetStates, NoReset
    <3> QED
      BY <2>4, <3>1, <3>2 DEF ResetFetch
  <2>5. CASE ResetSet
    BY <2>5 DEF ResetSet, ResetStates, NoReset
  <2> QED
    BY <2>1, <2>2, <2>3, <2>4, <2>5 DEF ResetStep
<1>3. lastUsed' \in {Unset} \cup (-1..MaxNonce) /\ recycled' \in SUBSET Nonces
  <2>1. CASE DeleteAllNonces
    BY <2>1 DEF DeleteAllNonces, TypeInv, TypeOK
  <2>2. CASE ResetSet
    BY <1>1, <2>2 DEF ResetSet, TypeInv, TypeOK
  <2>3. CASE UNCHANGED redisVars
    BY <2>3 DEF redisVars, TypeInv, TypeOK
  <2> QED
    BY <2>1, <2>2, <2>3 DEF ResetStep, ResetStart, DeleteListKeys, ResetFetch
<1>4. faults' \in 0..MaxFaults
  BY DEF ResetStep, ResetStart, DeleteListKeys, DeleteAllNonces, ResetFetch,
         ResetSet, Fault, TypeInv, TypeOK
<1>5. UNCHANGED <<sent, jobVars, batch, resync, chainVars>>
  BY DEF ResetStep, ResetStart, DeleteListKeys, DeleteAllNonces, ResetFetch,
         ResetSet, redisVars
<1> QED
  BY <1>2, <1>3, <1>4, <1>5 DEF TypeInv, TypeOK, Wellformed, jobVars, chainVars

\* The chain keeps the types.
LEMMA ChainType ==
  ASSUME TypeInv, Mine \/ Drop \/ External
  PROVE  TypeInv'
<1> USE ConstantsAssumption
        DEF TypeInv, TypeOK, Wellformed, Nonces, Counts, jobVars, redisVars,
            chainVars, cronVars, Unset, ResyncStates, ResetStates, NoResync, NoReset
<1>1. CASE Mine
  BY <1>1 DEF Mine, Users
<1>2. CASE Drop
  BY <1>2 DEF Drop, Users, Fault
<1>3. CASE External
  BY <1>3 DEF External, Users, Fault
<1> QED
  BY <1>1, <1>2, <1>3

\* Every step of every actor keeps the types.
LEMMA NextType ==
  ASSUME TypeInv, [Next]_vars
  PROVE  TypeInv'
<1>1. ASSUME NEW t \in Txs, SendStep(t) \/ SendFault(t) \/ MineStep(t)
      PROVE  TypeInv'
  BY <1>1, AcquireType, SubmitType, MineJobType DEF SendStep, SendFault, MineStep
<1>2. CASE CancelStep
  BY <1>2, CancelType DEF CancelStep
<1>3. CASE ResyncStep
  BY <1>3, ResyncType DEF ResyncStep
<1>4. CASE ResetStep
  BY <1>4, ResetType DEF ResetStep
<1>5. CASE ChainStep
  BY <1>5, ChainType DEF ChainStep
<1>6. CASE UNCHANGED vars
  BY <1>6 DEF TypeInv, TypeOK, Wellformed, vars, redisVars, jobVars, cronVars, chainVars
<1> QED
  BY <1>1, <1>2, <1>3, <1>4, <1>5, <1>6 DEF Next

\* Every variable keeps its type whatever actors and faults take part: no
\* interleaving makes the resync loop or an error path write a value that is
\* not a nonce into a Redis key.
THEOREM TypeCorrect == Spec => []TypeOK
<1>1. Init => TypeInv
  BY InitType
<1>2. TypeInv /\ [Next]_vars => TypeInv'
  BY NextType
<1>3. TypeInv => TypeOK
  BY DEF TypeInv
<1> QED
  BY <1>1, <1>2, <1>3, PTL DEF Spec

----------------------------------------------------------------------------
(* Exclusivity                                                             *)

\* The wallet has been used from the engine before: its key is past the value
\* that acquireNonce takes for "not set".
Established == InitLastUsed >= 1

\* Nobody writes recycled or lastUsed behind the owners' backs: neither the
\* resync cron nor the reset route runs.  Every other fault may happen.
NoRewrites == "resync" \notin Features /\ "reset" \notin Features

\* The inductive strengthening of NonceExclusive.  INCR hands out a fresh nonce
\* only because every nonce in circulation is at most lastUsed, and because
\* lastUsed never falls: no job is inside syncLatestNonceFromOnchain.
InCirculation ==
  /\ lastUsed >= 1
  /\ \A t \in Txs : pc[t] \notin {"fetch", "setSync", "incrAgain"}
  /\ \A t \in Txs : Owns(t) => nonceMap[t] <= lastUsed
  /\ \A n \in recycled \cup batch : n <= lastUsed
  /\ resync.phase = "idle" /\ reset.phase = "idle"

ExclusiveInv == TypeInv /\ InCirculation /\ NonceExclusive

\* An established wallet starts with no nonce in circulation.
LEMMA InitExclusive ==
  ASSUME Established, Init
  PROVE  ExclusiveInv
BY InitType DEF Established, Init, ExclusiveInv, InCirculation, NonceExclusive,
                Owns, Owning, NoResync, NoReset

\* acquireNonce gives a nonce nobody else has.
LEMMA AcquireExclusive ==
  ASSUME ExclusiveInv, NEW t \in Txs,
         AcquireRecycled(t) \/ NoneRecycled(t) \/ AcquireIncr(t) \/ AcquireIncrOne(t) \/ SyncFetch(t) \/ SyncSet(t) \/ AcquireIncrAgain(t) \/ PopulateError(t)
  PROVE  (InCirculation /\ NonceExclusive)'
<1> USE ConstantsAssumption
        DEF ExclusiveInv, InCirculation, NonceExclusive, TypeInv, TypeOK, Wellformed,
            Nonces, Counts, Owns, Owning, Acquired, Goto, redisVars, jobVars,
            cronVars, chainVars, Unset
<1>1. CASE AcquireRecycled(t)
  BY <1>1, LowestMember DEF AcquireRecycled
<1>2. CASE NoneRecycled(t)
  BY <1>2 DEF NoneRecycled
<1>3. CASE AcquireIncr(t)
  BY <1>3 DEF AcquireIncr, Incremented
<1>4. CASE AcquireIncrOne(t)
  BY <1>4 DEF AcquireIncrOne, Incremented
<1>5. CASE SyncFetch(t)
  BY <1>5 DEF SyncFetch
<1>6. CASE SyncSet(t)
  BY <1>6 DEF SyncSet
<1>7. CASE AcquireIncrAgain(t)
  BY <1>7 DEF AcquireIncrAgain, Incremented
<1>8. CASE PopulateError(t)
  BY <1>8 DEF PopulateError
<1> QED
  BY <1>1, <1>2, <1>3, <1>4, <1>5, <1>6, <1>7, <1>8

\* A submission gives its nonce up, or recycles it once.
LEMMA SubmitExclusive ==
  ASSUME ExclusiveInv, NEW t \in Txs,
         SubmitAccepted(t) \/ SubmitNonceUsed(t) \/ SubmitFails(t) \/ SubmitLostReply(t) \/ RecycleAfterError(t) \/ FetchHigher(t) \/ SetHigher(t) \/ AddSentNonce(t) \/ StampSent(t) \/ StampThrows(t)
  PROVE  (InCirculation /\ NonceExclusive)'
<1> USE ConstantsAssumption
        DEF ExclusiveInv, InCirculation, NonceExclusive, TypeInv, TypeOK, Wellformed,
            Nonces, Counts, Owns, Owning, Acquired, Goto, redisVars, jobVars,
            cronVars, chainVars, Unset
<1>1. CASE SubmitAccepted(t)
  BY <1>1 DEF SubmitAccepted
<1>2. CASE SubmitNonceUsed(t)
  BY <1>2 DEF SubmitNonceUsed
<1>3. CASE SubmitFails(t)
  BY <1>3 DEF SubmitFails
<1>4. CASE SubmitLostReply(t)
  BY <1>4 DEF SubmitLostReply
<1>5. CASE RecycleAfterError(t)
  BY <1>5 DEF RecycleAfterError, Throw
<1>6. CASE FetchHigher(t)
  BY <1>6 DEF FetchHigher
<1>7. CASE SetHigher(t)
  BY <1>7 DEF SetHigher, Throw, HigherOf
<1>8. CASE AddSentNonce(t)
  BY <1>8 DEF AddSentNonce
<1>9. CASE StampSent(t)
  BY <1>9 DEF StampSent
<1>10. CASE StampThrows(t)
  BY <1>10 DEF StampThrows, Throw
<1> QED
  BY <1>1, <1>2, <1>3, <1>4, <1>5, <1>6, <1>7, <1>8, <1>9, <1>10

\* The mine job releases a nonce once.
LEMMA MineJobExclusive ==
  ASSUME ExclusiveInv, NEW t \in Txs,
         ResendRead(t) \/ ResendAccepted(t) \/ ResendRejected(t) \/ MineFound(t) \/ MineTimeout(t) \/ TimeoutRecycle(t) \/ TimeoutRemoveSent(t) \/ ReadFails(t) \/ Crash(t)
  PROVE  (InCirculation /\ NonceExclusive)'
<1> USE ConstantsAssumption
        DEF ExclusiveInv, InCirculation, NonceExclusive, TypeInv, TypeOK, Wellformed,
            Nonces, Counts, Owns, Owning, Acquired, Goto, redisVars, jobVars,
            cronVars, chainVars, Unset
<1>1. CASE ResendRead(t)
  BY <1>1 DEF ResendRead
<1>2. CASE ResendAccepted(t)
  BY <1>2 DEF ResendAccepted
<1>3. CASE ResendRejected(t)
  BY <1>3 DEF ResendRejected
<1>4. CASE MineFound(t)
  BY <1>4 DEF MineFound
<1>5. CASE MineTimeout(t)
  BY <1>5 DEF MineTimeout
<1>6. CASE TimeoutRecycle(t)
  BY <1>6 DEF TimeoutRecycle
<1>7. CASE TimeoutRemoveSent(t)
  BY <1>7 DEF TimeoutRemoveSent
<1>8. CASE ReadFails(t)
  BY <1>8 DEF ReadFails, Throw
<1>9. CASE Crash(t)
  <2>1. CASE Goto(t, "queued")
    BY <1>9, <2>1 DEF Crash
  <2>2. CASE Goto(t, "errored")
    BY <1>9, <2>2 DEF Crash
  <2> QED
    BY <1>9, <2>1, <2>2 DEF Crash
<1> QED
  BY <1>1, <1>2, <1>3, <1>4, <1>5, <1>6, <1>7, <1>8, <1>9

\* The cancel cron takes nonces out of circulation before it uses them.
LEMMA CancelExclusive ==
  ASSUME ExclusiveInv, 
         CancelTake \/ CancelAccepted \/ CancelIgnored \/ CancelFails \/ CancelCrash
  PROVE  (InCirculation /\ NonceExclusive)'
<1> USE ConstantsAssumption
        DEF ExclusiveInv, InCirculation, NonceExclusive, TypeInv, TypeOK, Wellformed,
            Nonces, Counts, Owns, Owning, Acquired, Goto, redisVars, jobVars,
            cronVars, chainVars, Unset
<1>1. CASE CancelTake
  BY <1>1 DEF CancelTake
<1>2. CASE CancelAccepted
  BY <1>2, LowestMember DEF CancelAccepted
<1>3. CASE CancelIgnored
  BY <1>3, LowestMember DEF CancelIgnored
<1>4. CASE CancelFails
  BY <1>4, LowestMember DEF CancelFails
<1>5. CASE CancelCrash
  BY <1>5 DEF CancelCrash
<1> QED
  BY <1>1, <1>2, <1>3, <1>4, <1>5

\* Every step keeps the strengthened exclusivity, if nobody rewrites the keys.
LEMMA NextExclusive ==
  ASSUME NoRewrites, ExclusiveInv, [Next]_vars
  PROVE  ExclusiveInv'
<1>1. TypeInv'
  BY NextType DEF ExclusiveInv
<1>2. (InCirculation /\ NonceExclusive)'
  <2>1. ASSUME NEW t \in Txs, SendStep(t) \/ SendFault(t) \/ MineStep(t)
        PROVE  (InCirculation /\ NonceExclusive)'
    BY <2>1, AcquireExclusive, SubmitExclusive, MineJobExclusive
       DEF SendStep, SendFault, MineStep
  <2>2. CASE CancelStep
    BY <2>2, CancelExclusive DEF CancelStep
  <2>3. ~ResyncStep
    BY DEF NoRewrites, ExclusiveInv, InCirculation, ResyncStep, ResyncStart,
           ResyncReadCount, ResyncReadDb, ResyncCheck, ResyncRecycle, ResyncAborts
  <2>4. ~ResetStep
    BY DEF NoRewrites, ExclusiveInv, InCirculation, ResetStep, ResetStart, Fault,
           DeleteListKeys, DeleteAllNonces, ResetFetch, ResetSet
  <2>5. CASE ChainStep
    BY <2>5 DEF ChainStep, Mine, Drop, External, ExclusiveInv, InCirculation,
                NonceExclusive, Owns, redisVars, jobVars, cronVars
  <2>6. CASE UNCHANGED vars
    BY <2>6 DEF ExclusiveInv, InCirculation, NonceExclusive, Owns, vars, redisVars,
                jobVars, cronVars
  <2> QED
    BY <2>1, <2>2, <2>3, <2>4, <2>5, <2>6 DEF Next
<1> QED
  BY <1>1, <1>2 DEF ExclusiveInv

\* For any number of concurrent send jobs, crashes, lost answers, timeouts and
\* cancellations, acquireNonce never gives a nonce to two live transactions and
\* never gives one that waits in the recycled set or in a cancellation batch,
\* provided the wallet was used before and neither resync nor reset runs.
THEOREM Exclusivity ==
  ASSUME Established, NoRewrites
  PROVE  Spec => []NonceExclusive
<1>1. Init => ExclusiveInv
  BY InitExclusive
<1>2. ExclusiveInv /\ [Next]_vars => ExclusiveInv'
  BY NextExclusive
<1>3. ExclusiveInv => NonceExclusive
  BY DEF ExclusiveInv
<1> QED
  BY <1>1, <1>2, <1>3, PTL DEF Spec

=============================================================================
