----------------------- MODULE WalletNonceChainProofs -----------------------
(***************************************************************************)
(* What the wallet's nonce discipline guarantees at the node: theorems     *)
(* about the mempool, the mined transactions and the sent set.             *)
(***************************************************************************)
EXTENDS WalletNonceProofs

\* No mine job runs out of attempts.
NoTimeouts == "mineTimeout" \notin Features

\* Nothing can fail between the node taking a transaction and the database
\* knowing it: no crash, no lost answer, no exception after the submission.
NoLateFailures ==
  "crash" \notin Features /\ "lostReply" \notin Features /\ "lateThrow" \notin Features

\* Facts about the chain and about resends that hold without timeouts: only
\* nonces below the count are mined, a mined transaction's nonce is one of
\* them, and only sent transactions are resent.
ChainInv ==
  /\ \A n \in Nonces : mined[n] # Free => n < count
  /\ \A t \in Txs : pc[t] = "mined" => nonceMap[t] < count
  /\ \A t \in Txs : pc[t] \notin {"release", "unsend"}
  /\ resending \subseteq {t \in Txs : pc[t] \in {"sent", "mined"}}

\* Nothing is pending, mined by the engine or resent at the start.
LEMMA InitChain ==
  ASSUME Init
  PROVE  ChainInv
BY UsersAssumption DEF Init, ChainInv, Nonces

\* Send jobs keep ChainInv.
LEMMA SendChain ==
  ASSUME TypeInv, ChainInv, NEW t \in Txs,
         AcquireRecycled(t) \/ NoneRecycled(t) \/ AcquireIncr(t) \/ AcquireIncrOne(t) \/ SyncFetch(t) \/ SyncSet(t) \/ AcquireIncrAgain(t) \/ PopulateError(t) \/ SubmitAccepted(t) \/ SubmitNonceUsed(t) \/ SubmitFails(t) \/ SubmitLostReply(t) \/ RecycleAfterError(t) \/ FetchHigher(t) \/ SetHigher(t) \/ AddSentNonce(t) \/ StampSent(t) \/ StampThrows(t) \/ ReadFails(t) \/ Crash(t)
  PROVE  ChainInv'
<1> USE ConstantsAssumption, UsersAssumption
        DEF ChainInv, TypeInv, TypeOK, Wellformed, Nonces, Counts, Users, Acquired,
            Owning, InAttempt, Goto, Throw, NodeAccepts, redisVars, jobVars, cronVars,
            chainVars
<1>1. CASE AcquireRecycled(t)
  BY <1>1 DEF AcquireRecycled
<1>2. CASE NoneRecycled(t)
  BY <1>2 DEF NoneRecycled
<1>3. CASE AcquireIncr(t)
  BY <1>3 DEF AcquireIncr
<1>4. CASE AcquireIncrOne(t)
  BY <1>4 DEF AcquireIncrOne
<1>5. CASE SyncFetch(t)
  BY <1>5 DEF SyncFetch
<1>6. CASE SyncSet(t)
  BY <1>6 DEF SyncSet
<1>7. CASE AcquireIncrAgain(t)
  BY <1>7 DEF AcquireIncrAgain
<1>8. CASE PopulateError(t)
  BY <1>8 DEF PopulateError
<1>9. CASE SubmitAccepted(t)
  BY <1>9 DEF SubmitAccepted
<1>10. CASE SubmitNonceUsed(t)
  BY <1>10 DEF SubmitNonceUsed
<1>11. CASE SubmitFails(t)
  BY <1>11 DEF SubmitFails
<1>12. CASE SubmitLostReply(t)
  BY <1>12 DEF SubmitLostReply
<1>13. CASE RecycleAfterError(t)
  BY <1>13 DEF RecycleAfterError
<1>14. CASE FetchHigher(t)
  BY <1>14 DEF FetchHigher
<1>15. CASE SetHigher(t)
  BY <1>15 DEF SetHigher
<1>16. CASE AddSentNonce(t)
  BY <1>16 DEF AddSentNonce
<1>17. CASE StampSent(t)
  BY <1>17 DEF StampSent
<1>18. CASE StampThrows(t)
  BY <1>18 DEF StampThrows
<1>19. CASE ReadFails(t)
  BY <1>19 DEF ReadFails
<1>20. CASE Crash(t)
  BY <1>20 DEF Crash
<1> QED
  BY <1>1, <1>2, <1>3, <1>4, <1>5, <1>6, <1>7, <1>8, <1>9, <1>10, <1>11, <1>12, <1>13, <1>14, <1>15, <1>16, <1>17, <1>18, <1>19, <1>20

\* Mine jobs and resends keep ChainInv.
LEMMA MineChain ==
  ASSUME NoTimeouts, TypeInv, ChainInv, NEW t \in Txs,
         ResendRead(t) \/ ResendAccepted(t) \/ ResendRejected(t) \/ MineFound(t) \/ MineTimeout(t) \/ TimeoutRecycle(t) \/ TimeoutRemoveSent(t)
  PROVE  ChainInv'
<1> USE ConstantsAssumption, UsersAssumption
        DEF ChainInv, TypeInv, TypeOK, Wellformed, Nonces, Counts, Users, Acquired,
            Owning, InAttempt, Goto, Throw, NodeAccepts, redisVars, jobVars, cronVars,
            chainVars
<1>1. CASE ResendRead(t)
  BY <1>1 DEF ResendRead
<1>2. CASE ResendAccepted(t)
  BY <1>2 DEF ResendAccepted
<1>3. CASE ResendRejected(t)
  BY <1>3 DEF ResendRejected
<1>4. CASE MineFound(t)
  BY <1>4 DEF MineFound
<1>5. CASE MineTimeout(t)
  BY <1>5 DEF MineTimeout, NoTimeouts, Fault
<1>6. CASE TimeoutRecycle(t)
  BY <1>6 DEF TimeoutRecycle
<1>7. CASE TimeoutRemoveSent(t)
  BY <1>7 DEF TimeoutRemoveSent
<1> QED
  BY <1>1, <1>2, <1>3, <1>4, <1>5, <1>6, <1>7

\* The crons, the reset route and the chain keep ChainInv.
LEMMA OthersChain ==
  ASSUME TypeInv, ChainInv,
         CancelStep \/ ResyncStep \/ ResetStep \/ Mine \/ Drop \/ External
  PROVE  ChainInv'
<1> USE ConstantsAssumption, UsersAssumption
        DEF ChainInv, TypeInv, TypeOK, Wellformed, Nonces, Counts, Users, Acquired,
            Owning, InAttempt, Goto, Throw, NodeAccepts, redisVars, jobVars, cronVars,
            chainVars
<1>1. CASE CancelStep
  BY <1>1 DEF CancelStep, CancelTake, CancelAccepted, CancelIgnored, CancelFails, CancelCrash
<1>2. CASE ResyncStep
  BY <1>2 DEF ResyncStep, ResyncStart, ResyncReadCount, ResyncReadDb, ResyncCheck, ResyncRecycle,
            ResyncAborts
<1>3. CASE ResetStep
  BY <1>3 DEF ResetStep, ResetStart, DeleteListKeys, DeleteAllNonces, ResetFetch, ResetSet
<1>4. CASE Mine
  BY <1>4 DEF Mine
<1>5. CASE Drop
  BY <1>5 DEF Drop
<1>6. CASE External
  BY <1>6 DEF External
<1> QED
  BY <1>1, <1>2, <1>3, <1>4, <1>5, <1>6

\* Every step of every actor keeps ChainInv.
LEMMA NextChain ==
  ASSUME NoTimeouts, TypeInv, ChainInv, [Next]_vars
  PROVE  ChainInv'
<1>1. ASSUME NEW t \in Txs, SendStep(t) \/ SendFault(t) \/ MineStep(t)
      PROVE  ChainInv'
  BY <1>1, SendChain, MineChain DEF SendStep, SendFault, MineStep
<1>2. CASE UNCHANGED vars
  BY <1>2 DEF ChainInv, vars, jobVars, chainVars
<1> QED
  BY <1>1, <1>2, OthersChain DEF Next, ChainStep

----------------------------------------------------------------------------
(* The mempool                                                             *)

\* Holds of every step from a state where nonces are exclusive.
Displaces ==
  \E n \in Nonces : \E t \in Txs :
    /\ mempool[n] = t /\ Owns(t) /\ nonceMap[t] = n
    /\ mempool'[n] \notin {t, Free}

\* A node accepts a transaction only from the owner of its nonce or for a nonce
\* of the cancel batch: no step replaces a live transaction of another queueId.
LEMMA StepDisplacesNone ==
  ASSUME ExclusiveInv, ChainInv, Next
  PROVE  ~Displaces
<1> SUFFICES ASSUME NEW n \in Nonces, NEW t \in Txs,
                    mempool[n] = t, Owns(t), nonceMap[t] = n
             PROVE  mempool'[n] \in {t, Free}
  BY DEF Displaces
<1> USE DEF ExclusiveInv, NonceExclusive, TypeInv, TypeOK, Nonces
<1>1. ASSUME NEW u \in Txs, SendStep(u) \/ SendFault(u) \/ MineStep(u)
      PROVE  mempool'[n] \in {t, Free}
  <2>1. CASE pc[u] = "submit" /\ mempool' = [mempool EXCEPT ![nonceMap[u]] = u]
    <3>1. nonceMap[u] = n => u = t
      BY <2>1 DEF Owns, Owning
    <3> QED
      BY <2>1, <3>1
  <2>2. CASE ResendAccepted(u)
    <3>1. pc[u] \in {"sent", "mined"} /\ nonceMap[u] >= count
      BY <2>2 DEF ResendAccepted, ResendNonce, NodeAccepts, ChainInv
    <3>2. pc[u] = "sent"
      BY <3>1, ConstantsAssumption DEF ChainInv, Counts, Wellformed, Acquired
    <3>3. nonceMap[u] = n => u = t
      BY <3>2 DEF Owns, Owning
    <3> QED
      BY <2>2, <3>3 DEF ResendAccepted, ResendNonce, NodeAccepts
  <2>3. CASE UNCHANGED mempool
    BY <2>3
  <2> QED
    BY <1>1, <2>1, <2>2, <2>3
       DEF SendStep, SendFault, MineStep, NodeAccepts, chainVars,
           AcquireRecycled, NoneRecycled, AcquireIncr, AcquireIncrOne, SyncFetch,
           SyncSet, AcquireIncrAgain, PopulateError, SubmitAccepted, SubmitNonceUsed,
           SubmitFails, SubmitLostReply, RecycleAfterError, FetchHigher, SetHigher,
           AddSentNonce, StampSent, StampThrows, ReadFails, Crash, ResendRead,
           ResendRejected, MineFound, MineTimeout, TimeoutRecycle, TimeoutRemoveSent
<1>2. CASE CancelStep
  <2>1. CASE CancelAccepted
    BY <2>1, LowestMember DEF CancelAccepted, NodeAccepts
  <2> QED
    BY <1>2, <2>1 DEF CancelStep, CancelTake, CancelIgnored, CancelFails, CancelCrash,
                      chainVars
<1>3. CASE ResyncStep \/ ResetStep
  BY <1>3 DEF ResyncStep, ResyncStart, ResyncReadCount, ResyncReadDb, ResyncCheck,
              ResyncRecycle, ResyncAborts, ResetStep, ResetStart, DeleteListKeys,
              DeleteAllNonces, ResetFetch, ResetSet, chainVars
<1>4. CASE ChainStep
  BY <1>4, UsersAssumption DEF ChainStep, Mine, Drop, External
<1> QED
  BY <1>1, <1>2, <1>3, <1>4 DEF Next

\* While a transaction is live, nothing the engine sends (a first submission, a
\* resend or a cancellation) replaces it in the mempool, although none of these
\* checks what is pending: it follows from Exclusivity.
THEOREM NotDisplaced ==
  ASSUME Established, NoRewrites, NoTimeouts
  PROVE  Spec => NeverDisplaced
<1>1. Init => ExclusiveInv /\ ChainInv
  BY InitExclusive, InitChain
<1>2. ExclusiveInv /\ ChainInv /\ [Next]_vars => (ExclusiveInv /\ ChainInv)'
  BY NextExclusive, NextChain DEF ExclusiveInv
<1>3. ExclusiveInv /\ ChainInv /\ [Next]_vars =>
        [\A n \in Nonces : \A t \in Txs :
           mempool[n] = t /\ Owns(t) /\ nonceMap[t] = n =>
             mempool'[n] \in {t, Free}]_vars
  BY StepDisplacesNone DEF Displaces
<1> QED
  BY <1>1, <1>2, <1>3, PTL DEF Spec, NeverDisplaced

----------------------------------------------------------------------------
(* The sent set                                                            *)

\* From addSentNonce on, and until the receipt is found, the nonce is in the set.
TrackedInv == \A t \in Txs : pc[t] \in {"stamp", "sent"} => nonceMap[t] \in sent

\* Jobs keep TrackedInv: a job removes only its own nonce, and nobody shares it.
LEMMA TxTracked ==
  ASSUME NoTimeouts, ExclusiveInv, ChainInv, TrackedInv, NEW t \in Txs,
         AcquireRecycled(t) \/ NoneRecycled(t) \/ AcquireIncr(t) \/ AcquireIncrOne(t) \/ SyncFetch(t) \/ SyncSet(t) \/ AcquireIncrAgain(t) \/ PopulateError(t) \/ SubmitAccepted(t) \/ SubmitNonceUsed(t) \/ SubmitFails(t) \/ SubmitLostReply(t) \/ RecycleAfterError(t) \/ FetchHigher(t) \/ SetHigher(t) \/ AddSentNonce(t) \/ StampSent(t) \/ StampThrows(t) \/ ReadFails(t) \/ Crash(t) \/ ResendRead(t) \/ ResendAccepted(t) \/ ResendRejected(t) \/ MineFound(t) \/ MineTimeout(t) \/ TimeoutRecycle(t) \/ TimeoutRemoveSent(t)
  PROVE  TrackedInv'
<1> USE ConstantsAssumption, UsersAssumption
        DEF TrackedInv, NoTimeouts, ExclusiveInv, NonceExclusive, ChainInv, TypeInv, TypeOK, Wellformed, Nonces, Counts, Users,
            Acquired, Owns, Owning, InAttempt, Goto, Throw, Fault, NodeAccepts,
            redisVars, jobVars, cronVars, chainVars
<1>1. CASE AcquireRecycled(t)
  BY <1>1 DEF AcquireRecycled
<1>2. CASE NoneRecycled(t)
  BY <1>2 DEF NoneRecycled
<1>3. CASE AcquireIncr(t)
  BY <1>3 DEF AcquireIncr
<1>4. CASE AcquireIncrOne(t)
  BY <1>4 DEF AcquireIncrOne
<1>5. CASE SyncFetch(t)
  BY <1>5 DEF SyncFetch
<1>6. CASE SyncSet(t)
  BY <1>6 DEF SyncSet
<1>7. CASE AcquireIncrAgain(t)
  BY <1>7 DEF AcquireIncrAgain
<1>8. CASE PopulateError(t)
  BY <1>8 DEF PopulateError
<1>9. CASE SubmitAccepted(t)
  BY <1>9 DEF SubmitAccepted
<1>10. CASE SubmitNonceUsed(t)
  BY <1>10 DEF SubmitNonceUsed
<1>11. CASE SubmitFails(t)
  BY <1>11 DEF SubmitFails
<1>12. CASE SubmitLostReply(t)
  BY <1>12 DEF SubmitLostReply
<1>13. CASE RecycleAfterError(t)
  BY <1>13 DEF RecycleAfterError
<1>14. CASE FetchHigher(t)
  BY <1>14 DEF FetchHigher
<1>15. CASE SetHigher(t)
  BY <1>15 DEF SetHigher
<1>16. CASE AddSentNonce(t)
  BY <1>16 DEF AddSentNonce
<1>17. CASE StampSent(t)
  BY <1>17 DEF StampSent
<1>18. CASE StampThrows(t)
  BY <1>18 DEF StampThrows
<1>19. CASE ReadFails(t)
  BY <1>19 DEF ReadFails
<1>20. CASE Crash(t)
  BY <1>20 DEF Crash
<1>21. CASE ResendRead(t)
  BY <1>21 DEF ResendRead
<1>22. CASE ResendAccepted(t)
  BY <1>22 DEF ResendAccepted
<1>23. CASE ResendRejected(t)
  BY <1>23 DEF ResendRejected
<1>24. CASE MineFound(t)
  BY <1>24 DEF MineFound
<1>25. CASE MineTimeout(t)
  BY <1>25 DEF MineTimeout
<1>26. CASE TimeoutRecycle(t)
  BY <1>26 DEF TimeoutRecycle
<1>27. CASE TimeoutRemoveSent(t)
  BY <1>27 DEF TimeoutRemoveSent
<1> QED
  BY <1>1, <1>2, <1>3, <1>4, <1>5, <1>6, <1>7, <1>8, <1>9, <1>10, <1>11, <1>12, <1>13, <1>14, <1>15, <1>16, <1>17, <1>18, <1>19, <1>20, <1>21, <1>22, <1>23, <1>24, <1>25, <1>26, <1>27

\* The crons, the reset route and the chain leave the sent set alone.
LEMMA OthersTracked ==
  ASSUME TrackedInv,
         CancelStep \/ ResyncStep \/ ResetStep \/ Mine \/ Drop \/ External
  PROVE  TrackedInv'
<1> USE DEF TrackedInv, redisVars, jobVars, cronVars, chainVars
<1>1. CASE CancelStep
  BY <1>1 DEF CancelStep, CancelTake, CancelAccepted, CancelIgnored, CancelFails, CancelCrash
<1>2. CASE ResyncStep
  BY <1>2 DEF ResyncStep, ResyncStart, ResyncReadCount, ResyncReadDb, ResyncCheck, ResyncRecycle,
            ResyncAborts
<1>3. CASE ResetStep
  BY <1>3 DEF ResetStep, ResetStart, DeleteListKeys, DeleteAllNonces, ResetFetch, ResetSet
<1>4. CASE Mine
  BY <1>4 DEF Mine
<1>5. CASE Drop
  BY <1>5 DEF Drop
<1>6. CASE External
  BY <1>6 DEF External
<1> QED
  BY <1>1, <1>2, <1>3, <1>4, <1>5, <1>6

\* The nonce of every transaction that waits to be mined is in nonce-sent, so
\* the resync cron never takes it for a skipped one.  It needs Exclusivity: the
\* mine job of one transaction removes a nonce by value.
THEOREM SentSetComplete ==
  ASSUME Established, NoRewrites, NoTimeouts
  PROVE  Spec => []SentTracked
<1> DEFINE Inv == ExclusiveInv /\ ChainInv /\ TrackedInv
<1>1. Init => Inv
  BY InitExclusive, InitChain DEF Init, TrackedInv
<1>2. Inv /\ [Next]_vars => Inv'
  <2> SUFFICES ASSUME Inv, [Next]_vars PROVE Inv'
    OBVIOUS
  <2>1. ExclusiveInv' /\ ChainInv'
    BY NextExclusive, NextChain DEF ExclusiveInv
  <2>2. CASE Next
    BY <2>1, <2>2, TxTracked, OthersTracked
       DEF Next, SendStep, SendFault, MineStep, ChainStep
  <2>3. CASE UNCHANGED vars
    BY <2>1, <2>3 DEF TrackedInv, vars, redisVars, jobVars
  <2> QED
    BY <2>2, <2>3
<1>3. Inv => SentTracked
  BY DEF TrackedInv, SentTracked
<1> QED
  BY <1>1, <1>2, <1>3, PTL DEF Spec

----------------------------------------------------------------------------
(* At most once                                                            *)

\* A transaction is at the node at the nonce of its only successful submission,
\* and only after that submission.
OneHome ==
  \A t \in Txs : \A n \in Nonces :
    mempool[n] = t \/ mined[n] = t =>
      nonceMap[t] = n /\ pc[t] \in {"addSent", "stamp", "sent", "mined"}

\* Jobs keep OneHome: a resend keeps its nonce, and no attempt follows a submission.
LEMMA TxOneHome ==
  ASSUME NoTimeouts, NoLateFailures, TypeInv, ChainInv, OneHome, NEW t \in Txs,
         AcquireRecycled(t) \/ NoneRecycled(t) \/ AcquireIncr(t) \/ AcquireIncrOne(t) \/ SyncFetch(t) \/ SyncSet(t) \/ AcquireIncrAgain(t) \/ PopulateError(t) \/ SubmitAccepted(t) \/ SubmitNonceUsed(t) \/ SubmitFails(t) \/ SubmitLostReply(t) \/ RecycleAfterError(t) \/ FetchHigher(t) \/ SetHigher(t) \/ AddSentNonce(t) \/ StampSent(t) \/ StampThrows(t) \/ ReadFails(t) \/ Crash(t) \/ ResendRead(t) \/ ResendAccepted(t) \/ ResendRejected(t) \/ MineFound(t) \/ MineTimeout(t) \/ TimeoutRecycle(t) \/ TimeoutRemoveSent(t)
  PROVE  OneHome'
<1> USE ConstantsAssumption, UsersAssumption
        DEF OneHome, NoTimeouts, NoLateFailures, ResendNonce, ChainInv, TypeInv, TypeOK, Wellformed, Nonces, Counts, Users,
            Acquired, Owns, Owning, InAttempt, Goto, Throw, Fault, NodeAccepts,
            redisVars, jobVars, cronVars, chainVars
<1>1. CASE AcquireRecycled(t)
  BY <1>1 DEF AcquireRecycled
<1>2. CASE NoneRecycled(t)
  BY <1>2 DEF NoneRecycled
<1>3. CASE AcquireIncr(t)
  BY <1>3 DEF AcquireIncr
<1>4. CASE AcquireIncrOne(t)
  BY <1>4 DEF AcquireIncrOne
<1>5. CASE SyncFetch(t)
  BY <1>5 DEF SyncFetch
<1>6. CASE SyncSet(t)
  BY <1>6 DEF SyncSet
<1>7. CASE AcquireIncrAgain(t)
  BY <1>7 DEF AcquireIncrAgain
<1>8. CASE PopulateError(t)
  BY <1>8 DEF PopulateError
<1>9. CASE SubmitAccepted(t)
  BY <1>9 DEF SubmitAccepted
<1>10. CASE SubmitNonceUsed(t)
  BY <1>10 DEF SubmitNonceUsed
<1>11. CASE SubmitFails(t)
  BY <1>11 DEF SubmitFails
<1>12. CASE SubmitLostReply(t)
  BY <1>12 DEF SubmitLostReply
<1>13. CASE RecycleAfterError(t)
  BY <1>13 DEF RecycleAfterError
<1>14. CASE FetchHigher(t)
  BY <1>14 DEF FetchHigher
<1>15. CASE SetHigher(t)
  BY <1>15 DEF SetHigher
<1>16. CASE AddSentNonce(t)
  BY <1>16 DEF AddSentNonce
<1>17. CASE StampSent(t)
  BY <1>17 DEF StampSent
<1>18. CASE StampThrows(t)
  BY <1>18 DEF StampThrows
<1>19. CASE ReadFails(t)
  BY <1>19 DEF ReadFails
<1>20. CASE Crash(t)
  BY <1>20 DEF Crash
<1>21. CASE ResendRead(t)
  BY <1>21 DEF ResendRead
<1>22. CASE ResendAccepted(t)
  BY <1>22 DEF ResendAccepted
<1>23. CASE ResendRejected(t)
  BY <1>23 DEF ResendRejected
<1>24. CASE MineFound(t)
  BY <1>24 DEF MineFound
<1>25. CASE MineTimeout(t)
  BY <1>25 DEF MineTimeout
<1>26. CASE TimeoutRecycle(t)
  BY <1>26 DEF TimeoutRecycle
<1>27. CASE TimeoutRemoveSent(t)
  BY <1>27 DEF TimeoutRemoveSent
<1> QED
  BY <1>1, <1>2, <1>3, <1>4, <1>5, <1>6, <1>7, <1>8, <1>9, <1>10, <1>11, <1>12, <1>13, <1>14, <1>15, <1>16, <1>17, <1>18, <1>19, <1>20, <1>21, <1>22, <1>23, <1>24, <1>25, <1>26, <1>27

\* The crons, the reset route and the chain keep OneHome.
LEMMA OthersOneHome ==
  ASSUME TypeInv, OneHome,
         CancelStep \/ ResyncStep \/ ResetStep \/ Mine \/ Drop \/ External
  PROVE  OneHome'
<1> USE ConstantsAssumption, UsersAssumption
        DEF OneHome, ChainInv, TypeInv, TypeOK, Wellformed, Nonces, Counts, Users,
            Acquired, Owns, Owning, InAttempt, Goto, Throw, Fault, NodeAccepts,
            redisVars, jobVars, cronVars, chainVars
<1>1. CASE CancelStep
  BY <1>1 DEF CancelStep, CancelTake, CancelAccepted, CancelIgnored, CancelFails, CancelCrash
<1>2. CASE ResyncStep
  BY <1>2 DEF ResyncStep, ResyncStart, ResyncReadCount, ResyncReadDb, ResyncCheck, ResyncRecycle,
            ResyncAborts
<1>3. CASE ResetStep
  BY <1>3 DEF ResetStep, ResetStart, DeleteListKeys, DeleteAllNonces, ResetFetch, ResetSet
<1>4. CASE Mine
  BY <1>4 DEF Mine
<1>5. CASE Drop
  BY <1>5 DEF Drop
<1>6. CASE External
  BY <1>6 DEF External
<1> QED
  BY <1>1, <1>2, <1>3, <1>4, <1>5, <1>6

\* Every step of every actor keeps OneHome.
LEMMA NextOneHome ==
  ASSUME NoTimeouts, NoLateFailures, TypeInv, ChainInv, OneHome, [Next]_vars
  PROVE  OneHome'
<1>1. CASE Next
  BY <1>1, TxOneHome, OthersOneHome DEF Next, SendStep, SendFault, MineStep, ChainStep
<1>2. CASE UNCHANGED vars
  BY <1>2 DEF OneHome, vars, jobVars, chainVars
<1> QED
  BY <1>1, <1>2

\* OneHome holds before anything is sent.
LEMMA InitOneHome ==
  ASSUME Init
  PROVE  OneHome
BY UsersAssumption DEF Init, OneHome, Nonces

\* A transaction is executed at most once, for any number of failed attempts and
\* resends, even on a new wallet and with the resync cron and the reset route
\* running, provided nothing fails after a successful submission.
THEOREM ExecutedOnce ==
  ASSUME NoTimeouts, NoLateFailures
  PROVE  Spec => []AtMostOnce
<1> DEFINE Inv == TypeInv /\ ChainInv /\ OneHome
<1>1. Init => Inv
  BY InitType, InitChain, InitOneHome
<1>2. Inv /\ [Next]_vars => Inv'
  BY NextType, NextChain, NextOneHome
<1>3. Inv => AtMostOnce
  BY DEF OneHome, AtMostOnce
<1> QED
  BY <1>1, <1>2, <1>3, PTL DEF Spec

\* Under the same conditions a job that is waiting for another attempt, or that
\* was given up, has nothing in the mempool and nothing mined.
THEOREM RetriesAreSafe ==
  ASSUME NoTimeouts, NoLateFailures
  PROVE  Spec => []RetryIsSafe
<1> DEFINE Inv == TypeInv /\ ChainInv /\ OneHome
<1>1. Init => Inv
  BY InitType, InitChain, InitOneHome
<1>2. Inv /\ [Next]_vars => Inv'
  BY NextType, NextChain, NextOneHome
<1>3. Inv => RetryIsSafe
  BY DEF OneHome, RetryIsSafe
<1> QED
  BY <1>1, <1>2, <1>3, PTL DEF Spec

----------------------------------------------------------------------------
(* Conservation                                                            *)

\* No job stops half-way and the mempool forgets nothing.
NothingForgotten == "crash" \notin Features /\ "drop" \notin Features

\* At the start no nonce is in flight.
Quiescent == InitLastUsed < InitCount

\* What NoNonceLost needs: counts read from the chain are not ahead of it, and a
\* submitted transaction is in the mempool or mined.
ConservedInv ==
  /\ \A t \in Txs : cnt[t] <= count
  /\ \A n \in Nonces : mined[n] # Free => n < count
  /\ \A t \in Txs : pc[t] \in {"addSent", "stamp"} =>
       nonceMap[t] < count \/ mempool[nonceMap[t]] # Free
  /\ NoNonceLost

\* Jobs lose no nonce: each path keeps it, recycles it, or leaves it at the node.
LEMMA TxConserved ==
  ASSUME NothingForgotten, ExclusiveInv, ConservedInv, NEW t \in Txs,
         AcquireRecycled(t) \/ NoneRecycled(t) \/ AcquireIncr(t) \/ AcquireIncrOne(t) \/ SyncFetch(t) \/ SyncSet(t) \/ AcquireIncrAgain(t) \/ PopulateError(t) \/ SubmitAccepted(t) \/ SubmitNonceUsed(t) \/ SubmitFails(t) \/ SubmitLostReply(t) \/ RecycleAfterError(t) \/ FetchHigher(t) \/ SetHigher(t) \/ AddSentNonce(t) \/ StampSent(t) \/ StampThrows(t) \/ ReadFails(t) \/ Crash(t) \/ ResendRead(t) \/ ResendAccepted(t) \/ ResendRejected(t) \/ MineFound(t) \/ MineTimeout(t) \/ TimeoutRecycle(t) \/ TimeoutRemoveSent(t)
  PROVE  ConservedInv'
<1> USE ConstantsAssumption, UsersAssumption
        DEF ConservedInv, NoNonceLost, ExclusiveInv, InCirculation, NothingForgotten, TypeInv, TypeOK, Wellformed, Nonces, Counts, Users,
            Acquired, Owns, Owning, InAttempt, Goto, Throw, Fault, NodeAccepts,
            redisVars, jobVars, cronVars, chainVars
<1>1. CASE AcquireRecycled(t)
  BY <1>1 DEF AcquireRecycled
<1>2. CASE NoneRecycled(t)
  BY <1>2 DEF NoneRecycled
<1>3. CASE AcquireIncr(t)
  BY <1>3 DEF AcquireIncr, Incremented, Unset
<1>4. CASE AcquireIncrOne(t)
  BY <1>4 DEF AcquireIncrOne, Incremented, Unset
<1>5. CASE SyncFetch(t)
  BY <1>5 DEF SyncFetch
<1>6. CASE SyncSet(t)
  BY <1>6 DEF SyncSet
<1>7. CASE AcquireIncrAgain(t)
  BY <1>7 DEF AcquireIncrAgain, Incremented, Unset
<1>8. CASE PopulateError(t)
  BY <1>8 DEF PopulateError
<1>9. CASE SubmitAccepted(t)
  BY <1>9 DEF SubmitAccepted
<1>10. CASE SubmitNonceUsed(t)
  BY <1>10 DEF SubmitNonceUsed, NonceTooLow, Underpriced
<1>11. CASE SubmitFails(t)
  BY <1>11 DEF SubmitFails
<1>12. CASE SubmitLostReply(t)
  BY <1>12 DEF SubmitLostReply
<1>13. CASE RecycleAfterError(t)
  BY <1>13 DEF RecycleAfterError
<1>14. CASE FetchHigher(t)
  <2>1. \A u \in Txs : cnt'[u] <= count'
    BY <1>14 DEF FetchHigher
  <2>2. \A u \in Txs : Owns(u) => pc'[u] = pc[u]
    BY <1>14 DEF FetchHigher
  <2>3. NoNonceLost'
    BY <1>14, <2>2 DEF FetchHigher
  <2>4. \A u \in Txs : pc'[u] \in {"addSent", "stamp"} => pc[u] = pc'[u]
    BY <1>14 DEF FetchHigher
  <2> QED
    BY <1>14, <2>1, <2>3, <2>4 DEF FetchHigher
<1>15. CASE SetHigher(t)
  <2>1. lastUsed' \in Int /\ (lastUsed' = lastUsed \/ lastUsed' < count)
    BY <1>15 DEF SetHigher, HigherOf, Unset
  <2>2. \A u \in Txs : Owns(u) => pc'[u] = pc[u]
    BY <1>15 DEF SetHigher
  <2>3. NoNonceLost'
    BY <1>15, <2>1, <2>2 DEF SetHigher
  <2>4. \A u \in Txs : pc'[u] \in {"addSent", "stamp"} => pc[u] = pc'[u]
    BY <1>15 DEF SetHigher
  <2>5. \A u \in Txs : cnt'[u] <= count'
    BY <1>15 DEF SetHigher
  <2> QED
    BY <1>15, <2>3, <2>4, <2>5 DEF SetHigher
<1>16. CASE AddSentNonce(t)
  BY <1>16 DEF AddSentNonce
<1>17. CASE StampSent(t)
  BY <1>17 DEF StampSent
<1>18. CASE StampThrows(t)
  BY <1>18 DEF StampThrows
<1>19. CASE ReadFails(t)
  BY <1>19 DEF ReadFails
<1>20. CASE Crash(t)
  BY <1>20 DEF Crash
<1>21. CASE ResendRead(t)
  BY <1>21 DEF ResendRead
<1>22. CASE ResendAccepted(t)
  BY <1>22 DEF ResendAccepted
<1>23. CASE ResendRejected(t)
  BY <1>23 DEF ResendRejected
<1>24. CASE MineFound(t)
  BY <1>24 DEF MineFound
<1>25. CASE MineTimeout(t)
  BY <1>25 DEF MineTimeout
<1>26. CASE TimeoutRecycle(t)
  BY <1>26 DEF TimeoutRecycle
<1>27. CASE TimeoutRemoveSent(t)
  BY <1>27 DEF TimeoutRemoveSent
<1> QED
  BY <1>1, <1>2, <1>3, <1>4, <1>5, <1>6, <1>7, <1>8, <1>9, <1>10, <1>11, <1>12, <1>13, <1>14, <1>15, <1>16, <1>17, <1>18, <1>19, <1>20, <1>21, <1>22, <1>23, <1>24, <1>25, <1>26, <1>27

\* The cancel cron and the chain lose no nonce.
LEMMA OthersConserved ==
  ASSUME NothingForgotten, ExclusiveInv, ConservedInv,
         CancelTake \/ CancelAccepted \/ CancelIgnored \/ CancelFails \/ CancelCrash \/ Mine \/ Drop \/ External
  PROVE  ConservedInv'
<1> USE ConstantsAssumption, UsersAssumption
        DEF ConservedInv, NoNonceLost, ExclusiveInv, InCirculation, NothingForgotten, TypeInv, TypeOK, Wellformed, Nonces, Counts, Users,
            Acquired, Owns, Owning, InAttempt, Goto, Throw, Fault, NodeAccepts,
            redisVars, jobVars, cronVars, chainVars
<1>1. CASE CancelTake
  BY <1>1 DEF CancelTake
<1>2. CASE CancelAccepted
  BY <1>2, LowestMember DEF CancelAccepted
<1>3. CASE CancelIgnored
  BY <1>3, LowestMember DEF CancelIgnored, NonceTooLow
<1>4. CASE CancelFails
  BY <1>4, LowestMember DEF CancelFails
<1>5. CASE CancelCrash
  BY <1>5 DEF CancelCrash
<1>6. CASE Mine
  BY <1>6 DEF Mine
<1>7. CASE Drop
  BY <1>7 DEF Drop
<1>8. CASE External
  BY <1>8 DEF External
<1> QED
  BY <1>1, <1>2, <1>3, <1>4, <1>5, <1>6, <1>7, <1>8

\* No nonce is ever skipped for good: between the chain's count and the last
\* nonce handed out, each one is pending, owned by a live transaction, or
\* waiting to be reused or cancelled, whatever errors, timeouts, lost answers
\* and external transactions happen.  Only a crash or a dropped transaction can
\* leave a gap, which is what the resync cron is for.
THEOREM Conservation ==
  ASSUME Established, NoRewrites, NothingForgotten, Quiescent
  PROVE  Spec => []NoNonceLost
<1> DEFINE Inv == ExclusiveInv /\ ConservedInv
<1>1. Init => Inv
  BY InitExclusive, UsersAssumption, ConstantsAssumption
     DEF Init, Quiescent, ConservedInv, NoNonceLost, Nonces, Counts, Unset
<1>2. Inv /\ [Next]_vars => Inv'
  <2> SUFFICES ASSUME Inv, [Next]_vars PROVE Inv'
    OBVIOUS
  <2>1. ExclusiveInv'
    BY NextExclusive
  <2>2. CASE Next
    <3>1. ~ResyncStep
      BY DEF NoRewrites, ExclusiveInv, InCirculation, ResyncStep, ResyncStart,
             ResyncReadCount, ResyncReadDb, ResyncCheck, ResyncRecycle, ResyncAborts
    <3>2. ~ResetStep
      BY DEF NoRewrites, ExclusiveInv, InCirculation, ResetStep, ResetStart, Fault,
             DeleteListKeys, DeleteAllNonces, ResetFetch, ResetSet
    <3> QED
      BY <2>1, <2>2, <3>1, <3>2, TxConserved, OthersConserved
         DEF Next, SendStep, SendFault, MineStep, CancelStep, ChainStep
  <2>3. CASE UNCHANGED vars
    BY <2>1, <2>3 DEF ConservedInv, NoNonceLost, Owns, vars, redisVars, jobVars,
                      cronVars, chainVars
  <2> QED
    BY <2>2, <2>3
<1>3. Inv => NoNonceLost
  BY DEF ConservedInv
<1> QED
  BY <1>1, <1>2, <1>3, PTL DEF Spec

=============================================================================
