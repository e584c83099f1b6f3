-------------------------- MODULE TxLifecycleProofs --------------------------
(***************************************************************************)
(* TxLifecycle, for every set of requests and every number of attempts,    *)
(* resends, nonces, hashes and faults: types, "mined" is true, and         *)
(* outcomes are announced.  Its lemmas on the effect of each action are    *)
(* also the ground of TxOutcomeProofs.                                     *)
(***************************************************************************)
EXTENDS TxLifecycle, FiniteSetTheorems, TLAPS

----------------------------------------------------------------------------
(* Actors                                                                  *)

\* The actors are all different, and each of them has one name.
LEMMA ActorNames ==
  /\ \A r \in Resends : Send(r) \in SendJobs /\ Send(r) \in Jobs /\ Send(r) \in Actors
                        /\ SendFailed(r) \in Actors /\ SendFailed(r) \notin Jobs
                        /\ Send(r) \notin AllRequests /\ SendFailed(r) \notin AllRequests
                        /\ Send(r) # Mine /\ SendFailed(r) # MineFailed
                        /\ Send(r)[1] = "send" /\ SendFailed(r)[1] = "sendFailed"
  /\ \A r, q \in Resends : (Send(r) = Send(q) => r = q) /\ Send(r) # SendFailed(q)
  /\ \A r \in Resends : Send(r) # MineFailed /\ SendFailed(r) # Mine
  /\ Mine \in Jobs /\ Mine \in Actors /\ MineFailed \in Actors /\ Mine # MineFailed
  /\ Mine \notin SendJobs /\ MineFailed \notin Jobs
  /\ Mine \notin AllRequests /\ MineFailed \notin AllRequests
  /\ Mine[1] = "mine" /\ MineFailed[1] = "mineFailed"
  /\ \A a \in AllRequests : a \in Actors /\ a \notin Jobs
  BY DEF Send, SendFailed, Mine, MineFailed, SendJobs, Jobs, Actors, AllRequests

\* The requests by their names.
LEMMA RequestNames ==
  /\ {Cancel, RetryFailed, SyncRetry, Retry} \subseteq AllRequests
  /\ Cancel[1] = "cancel" /\ RetryFailed[1] = "retryFailed"
  /\ SyncRetry[1] = "syncRetry" /\ Retry[1] = "retry"
  /\ \A a \in AllRequests :
       /\ a[1] \in {"insert", "cancel", "retryFailed", "syncRetry", "retry"}
       /\ a[1] = "cancel" => a = Cancel
       /\ a[1] = "retryFailed" => a = RetryFailed
       /\ a[1] = "syncRetry" => a = SyncRetry
       /\ a[1] = "retry" => a = Retry
  BY DEF Cancel, RetryFailed, SyncRetry, Retry, AllRequests

\* Every actor is a job, a handler or a request.
LEMMA ActorCases ==
  /\ \A a \in Actors : \/ \E r \in Resends : a = Send(r) \/ a = SendFailed(r)
                       \/ a = Mine \/ a = MineFailed \/ a \in AllRequests
  /\ \A j \in Jobs : j = Mine \/ \E r \in Resends : j = Send(r)
  /\ \A j \in Jobs : j \in Actors
  /\ \A j \in SendJobs : j \in Jobs /\ j # Mine
  BY ActorNames DEF Actors, Jobs, SendJobs

\* Resend counts, with the first one.
LEMMA ResendZero == 0 \in Resends /\ Resends \subseteq Nat
  BY LifecycleAssumption DEF Resends

----------------------------------------------------------------------------
(* Effects of the helpers                                                  *)

Locs == [pc : PCs, rec : Records]

\* Actor a moves to l with record r, the others stay.
Moves(a, l, r) ==
  /\ loc' \in [Actors -> Locs]
  /\ loc'[a].pc = l /\ loc'[a].rec = r
  /\ \A b \in Actors : b # a => loc'[b] = loc[b]

\* Where an actor is when it has finished.
Over(a) == IF a \in AllRequests THEN "done" ELSE "idle"

\* What records and jobs are made of.
LEMMA RecordTypes ==
  /\ NoRecord \in Records /\ NoRecord.status = "none" /\ NoRecord.slot = 0
  /\ NoJob \in JobStates /\ FreshJob \in JobStates
  /\ NoJob.state = "absent" /\ FreshJob.state = "waiting" /\ FreshJob.tries = 0
  /\ \A rec \in Records :
       /\ rec.status \in Statuses /\ rec.isUserOp \in BOOLEAN /\ rec.slot \in 0..MaxSlots
       /\ rec.hashes \subseteq Hashes /\ rec.resendCount \in Resends
  BY LifecycleAssumption DEF NoRecord, Records, Statuses, NoJob, FreshJob, JobStates, Resends

\* Goto and Finish are moves.
LEMMA GotoMoves ==
  \A a \in Actors, l \in PCs, r \in Records :
    TypeOK /\ Goto(a, l, r) => Moves(a, l, r)
<1> SUFFICES ASSUME TypeOK, NEW a \in Actors, NEW l \in PCs, NEW r \in Records, Goto(a, l, r)
             PROVE  Moves(a, l, r)
  OBVIOUS
<1> QED BY DEF Goto, TypeOK, Locs, Moves

\* An actor that finishes holds no record.
LEMMA FinishMoves == \A a \in Actors : TypeOK /\ Finish(a) => Moves(a, Over(a), NoRecord)
  BY GotoMoves, RecordTypes DEF Finish, Over, PCs

\* A job that throws goes back to the queue, or fails and starts its handler.
ThrowMoves(js, j, k, limit) ==
  /\ job' \in [Jobs -> JobStates] /\ loc' \in [Actors -> Locs]
  /\ \A i \in Jobs : i # j => job'[i] = js[i]
  /\ loc'[j].pc = "idle" /\ loc'[j].rec = NoRecord
  /\ \A b \in Actors : b # j /\ b # k => loc'[b] = loc[b]
  /\ \/ /\ job'[j].state = "waiting" /\ job'[j].tries < limit /\ loc'[k] = loc[k]
     \/ /\ job'[j].state = "failed" /\ loc[k].pc = "idle"
        /\ loc'[k].pc = "read" /\ loc'[k].rec = NoRecord

\* Throws is such a step if the job has an attempt left.
LEMMA ThrowsMoves ==
  ASSUME TypeOK, NEW js \in [Jobs -> JobStates], NEW j \in Jobs, NEW k \in Actors, k # j,
         NEW limit \in Nat, js[j].tries < limit, limit <= SendAttempts + MineAttempts,
         Throws(js, j, k, limit)
  PROVE  ThrowMoves(js, j, k, limit)
<1> DEFINE n == js[j].tries + 1
<1>1. Idle \in Locs /\ [pc |-> "read", rec |-> NoRecord] \in Locs /\ Idle.pc = "idle"
      /\ Idle.rec = NoRecord
  BY RecordTypes DEF Idle, Locs, PCs
<1>2. j \in Actors
  BY ActorCases
<1>3. n \in 0..(SendAttempts + MineAttempts) /\ n <= limit
  BY LifecycleAssumption DEF JobStates
<1>4. CASE n = limit
  <2>1. /\ job' = [js EXCEPT ![j] = [state |-> "failed", tries |-> n]]
        /\ loc' = [loc EXCEPT ![j] = Idle, ![k] = [pc |-> "read", rec |-> NoRecord]]
        /\ loc[k].pc = "idle"
    BY <1>4 DEF Throws, At
  <2> QED BY <2>1, <1>1, <1>2, <1>3 DEF JobStates, TypeOK, Locs, ThrowMoves
<1>5. CASE n # limit
  <2>1. /\ job' = [js EXCEPT ![j] = [state |-> "waiting", tries |-> n]]
        /\ loc' = [loc EXCEPT ![j] = Idle, ![k] = @]
    BY <1>5 DEF Throws
  <2>2. n < limit
    BY <1>3, <1>5
  <2> QED BY <2>1, <2>2, <1>1, <1>2, <1>3 DEF JobStates, TypeOK, Locs, ThrowMoves
<1> QED BY <1>4, <1>5

\* Adding, removing and completing jobs.
LEMMA JobEffects ==
  ASSUME NEW js \in [Jobs -> JobStates], NEW j \in Jobs, NEW S
  PROVE  /\ Added(js, j) \in [Jobs -> JobStates] /\ Removed(js, S) \in [Jobs -> JobStates]
         /\ \A i \in Jobs : i # j => Added(js, j)[i] = js[i]
         /\ Added(js, j)[j] = IF js[j].state = "absent" THEN FreshJob ELSE js[j]
         /\ \A i \in Jobs : Removed(js, S)[i] = IF i \in S
            /\ js[i].state # "active" THEN NoJob ELSE js[i]
  BY RecordTypes DEF Added, Removed

\* Completing a job.
LEMMA CompleteEffect ==
  ASSUME TypeOK, NEW j \in Jobs
  PROVE  /\ Complete(j) \in [Jobs -> JobStates]
         /\ Complete(j)[j].state = "completed"
         /\ \A i \in Jobs : i # j => Complete(j)[i] = job[i]
  BY DEF Complete, TypeOK, JobStates

\* The records that actors make of the one they hold: another status ...
LEMMA StatusEdit ==
  ASSUME NEW rec \in Records, NEW st \in Statuses
  PROVE  LET e == [rec EXCEPT !.status = st]
         IN  e \in Records /\ e.status = st /\ e.slot = rec.slot /\ e.hashes = rec.hashes
             /\ e.isUserOp = rec.isUserOp
  BY DEF Records

\* ... another nonce ...
LEMMA SlotEdit ==
  ASSUME NEW rec \in Records, NEW s \in 0..MaxSlots
  PROVE  LET e == [rec EXCEPT !.slot = s]
         IN  e \in Records /\ e.status = rec.status /\ e.slot = s /\ e.hashes = rec.hashes
  BY DEF Records

\* ... other hashes ...
LEMMA HashesEdit ==
  ASSUME NEW rec \in Records, NEW hs \in SUBSET Hashes
  PROVE  LET e == [rec EXCEPT !.hashes = hs]
         IN  e \in Records /\ e.status = rec.status /\ e.slot = rec.slot /\ e.hashes = hs
  BY DEF Records

\* ... another count ...
LEMMA CountEdit ==
  ASSUME NEW rec \in Records, NEW r \in Resends
  PROVE  LET e == [rec EXCEPT !.resendCount = r]
         IN  e \in Records /\ e.status = rec.status /\ e.slot = rec.slot /\ e.hashes = rec.hashes
  BY DEF Records, Resends

\* ... queued again, without its nonce ...
LEMMA QueuedEdit ==
  ASSUME NEW rec \in Records
  PROVE  LET e == [rec EXCEPT !.status = "queued", !.slot = 0]
         IN  e \in Records /\ e.status = "queued" /\ e.slot = 0
<1> DEFINE e1 == [rec EXCEPT !.status = "queued"]
           e2 == [e1 EXCEPT !.slot = 0]
<1>1. e1 \in Records /\ e1.status = "queued"
  BY StatusEdit DEF Statuses
<1>2. 0 \in 0..MaxSlots
  BY LifecycleAssumption
<1> HIDE DEF e1
<1>3. e2 \in Records /\ e2.status = "queued" /\ e2.slot = 0
  BY <1>1, <1>2, SlotEdit
<1> QED BY <1>3, Zenon DEF e1

\* ... sent for the first time ...
Sent(rec, s, h) == [rec EXCEPT !.status = "sent", !.slot = s, !.hashes = {h}, !.resendCount = 0]

\* (which keeps the record well-formed)
LEMMA SentEdit ==
  ASSUME NEW rec \in Records, NEW s \in Slots, NEW h \in Hashes
  PROVE  /\ Sent(rec, s, h) \in Records /\ Sent(rec, s, h).status = "sent"
         /\ Sent(rec, s, h).slot = s /\ Sent(rec, s, h).hashes = {h}
<1> DEFINE e1 == [rec EXCEPT !.status = "sent"]
           e2 == [e1 EXCEPT !.slot = s]
           e3 == [e2 EXCEPT !.hashes = {h}]
           e4 == [e3 EXCEPT !.resendCount = 0]
<1>1. e1 \in Records /\ e1.status = "sent"
  BY StatusEdit DEF Statuses
<1>2. s \in 0..MaxSlots
  BY LifecycleAssumption DEF Slots
<1> HIDE DEF e1
<1>3. e2 \in Records /\ e2.status = "sent" /\ e2.slot = s
  BY <1>1, <1>2, SlotEdit
<1> HIDE DEF e2
<1>4. e3 \in Records /\ e3.status = "sent" /\ e3.slot = s /\ e3.hashes = {h}
  BY <1>3, HashesEdit
<1> HIDE DEF e3
<1>5. e4 \in Records /\ e4.status = "sent" /\ e4.slot = s /\ e4.hashes = {h}
  BY <1>4, CountEdit, ResendZero
<1> QED BY <1>5, Zenon DEF e1, e2, e3, Sent

\* ... sent again ...
LEMMA ResentEdit ==
  ASSUME NEW rec \in Records, NEW r \in Resends, NEW h \in Hashes
  PROVE  /\ Resent(rec, r, h) \in Records /\ Resent(rec, r, h).status = rec.status
         /\ Resent(rec, r, h).slot = rec.slot /\ Resent(rec, r, h).hashes = rec.hashes \cup {h}
  BY LifecycleAssumption DEF Records, Resends, Resent

\* ... cancelled while queued ...
LEMMA CancelledEdit ==
  ASSUME NEW rec \in Records
  PROVE  LET e == [rec EXCEPT !.status = "cancelled", !.slot = 0, !.hashes = {}]
         IN  e \in Records /\ e.status = "cancelled"
<1> DEFINE e1 == [rec EXCEPT !.status = "cancelled"]
           e2 == [e1 EXCEPT !.slot = 0]
           e3 == [e2 EXCEPT !.hashes = {}]
<1>1. e1 \in Records /\ e1.status = "cancelled"
  BY StatusEdit DEF Statuses
<1>2. 0 \in 0..MaxSlots
  BY LifecycleAssumption
<1> HIDE DEF e1
<1>3. e2 \in Records /\ e2.status = "cancelled"
  BY <1>1, <1>2, SlotEdit
<1> HIDE DEF e2
<1>4. e3 \in Records /\ e3.status = "cancelled"
  BY <1>3, HashesEdit
<1> QED BY <1>4, Zenon DEF e1, e2

\* ... cancelled by a transaction ...
LEMMA CancelSentEdit ==
  ASSUME NEW rec \in Records, NEW h \in Hashes
  PROVE  LET e == [rec EXCEPT !.status = "cancelled", !.hashes = {h}]
         IN  e \in Records /\ e.status = "cancelled"
  BY LifecycleAssumption DEF Records, Statuses

\* ... or inserted.
LEMMA InsertEdit ==
  ASSUME NEW u \in Kinds
  PROVE  LET e == [NoRecord EXCEPT !.status = "queued", !.isUserOp = u]
         IN  e \in Records /\ e.status = "queued"
<1> DEFINE e1 == [NoRecord EXCEPT !.status = "queued"]
           e2 == [e1 EXCEPT !.isUserOp = u]
<1>1. e1 \in Records /\ e1.status = "queued"
  BY StatusEdit, RecordTypes DEF Statuses
<1> HIDE DEF e1
<1>2. e2 \in Records /\ e2.status = "queued"
  BY <1>1, LifecycleAssumption DEF Records
<1> QED BY <1>2, Zenon DEF e1

\* The node takes a transaction.
LEMMA SubmitEffect ==
  ASSUME TypeOK, NEW s, NEW h, Submit(s, h)
  PROVE  /\ s \in Slots /\ h \in Hashes /\ mined[s] = 0 /\ mined' = mined /\ released' = released
         /\ slotOf' \in [Hashes -> 0..MaxSlots] /\ slotOf'[h] = s
         /\ \A i \in Hashes : i # h => slotOf'[i] = slotOf[i]
<1>1. s \in Slots /\ h \in Hashes /\ slotOf \in [Hashes -> 0..MaxSlots] /\ s \in 0..MaxSlots
  BY LifecycleAssumption DEF Submit, TypeOK, Slots
<1> QED BY <1>1 DEF Submit

----------------------------------------------------------------------------
(* Effects of the actions                                                  *)

StoreSame == UNCHANGED <<db, lists, hooks>>
ChainSame == UNCHANGED <<slotOf, cancels, mined, released>>

\* A worker takes a job.
LEMMA StartJobEffect ==
  ASSUME TypeOK, NEW j \in Jobs, StartJob(j)
  PROVE  /\ StoreSame /\ ChainSame /\ faults' = faults
         /\ Moves(j, "read", NoRecord)
         /\ job[j].state = "waiting" /\ job' \in [Jobs -> JobStates]
         /\ job'[j].state = "active" /\ job'[j].tries = job[j].tries
         /\ \A i \in Jobs : i # j => job'[i] = job[i]
<1>1. Moves(j, "read", NoRecord)
  BY GotoMoves, ActorCases, RecordTypes DEF StartJob, PCs
<1> QED BY <1>1 DEF StartJob, TypeOK, JobStates, StoreSame, ChainSame, chainVars

\* The send worker reads the record.
LEMMA SendReadEffect ==
  ASSUME TypeOK, NEW r \in Resends, SendRead(r)
  PROVE  /\ StoreSame /\ ChainSame /\ faults' = faults
         /\ loc[Send(r)].pc = "read"
         /\ \/ /\ Moves(Send(r), "idle", NoRecord) /\ job' = Complete(Send(r))
               /\ db.status \notin {"queued", "sent"}
            \/ \E e \in Records :
                 /\ Moves(Send(r), "act", e) /\ job' = job
                 /\ \/ e = db /\ db.status \in {"queued", "sent"}
                    \/ e.status = "queued" /\ db.status = "errored" /\ r = 0
<1>0. db \in Records /\ Send(r) \in Actors /\ "act" \in PCs
  BY ActorNames DEF TypeOK, PCs
<1>1. CASE AsRead(r).status \in {"queued", "sent"}
  <2>1. AsRead(r) \in Records
    BY <1>0, QueuedEdit DEF AsRead
  <2>2. Moves(Send(r), "act", AsRead(r)) /\ job' = job
    BY <1>0, <1>1, <2>1, GotoMoves DEF SendRead
  <2>3. \/ AsRead(r) = db /\ db.status \in {"queued", "sent"}
        \/ AsRead(r).status = "queued" /\ db.status = "errored" /\ r = 0
    BY <1>0, <1>1, QueuedEdit DEF AsRead
  <2> QED BY <2>1, <2>2, <2>3 DEF SendRead, At, StoreSame, ChainSame, chainVars
<1>2. CASE AsRead(r).status \notin {"queued", "sent"}
  <2>1. Moves(Send(r), "idle", NoRecord) /\ job' = Complete(Send(r))
    BY <1>0, <1>2, FinishMoves, ActorNames DEF SendRead, End, Over
  <2>2. db.status \notin {"queued", "sent"}
    BY <1>0, <1>2, QueuedEdit DEF AsRead
  <2> QED BY <2>1, <2>2 DEF SendRead, At, StoreSame, ChainSame, chainVars
<1> QED BY <1>1, <1>2

\* Its "failed" handler reads the record.
LEMMA SendFailedReadEffect ==
  ASSUME TypeOK, NEW r \in Resends, SendFailedRead(r)
  PROVE  /\ StoreSame /\ ChainSame /\ faults' = faults /\ job' = job
         /\ loc[SendFailed(r)].pc = "read"
         /\ \/ db.status = "none" /\ Moves(SendFailed(r), "idle", NoRecord)
            \/ \E e \in Records :
                 Moves(SendFailed(r), "store", e) /\ e.status = "errored" /\ db.status # "none"
<1>0. db \in Records /\ SendFailed(r) \in Actors /\ "store" \in PCs /\ "errored" \in Statuses
  BY ActorNames DEF TypeOK, PCs, Statuses
<1>1. CASE db.status = "none"
  BY <1>1, <1>0, FinishMoves, ActorNames
  DEF SendFailedRead, At, StoreSame, ChainSame, chainVars, Over
<1>2. CASE db.status # "none"
  BY <1>2, <1>0, GotoMoves, StatusEdit DEF SendFailedRead, At, StoreSame, ChainSame, chainVars
<1> QED BY <1>1, <1>2

\* The mine worker reads the record.
LEMMA MineReadEffect ==
  ASSUME TypeOK, MineRead
  PROVE  /\ StoreSame /\ ChainSame /\ faults' = faults
         /\ loc[Mine].pc = "read"
         /\ \/ /\ Moves(Mine, "idle", NoRecord) /\ job' = Complete(Mine) /\ db.status # "sent"
            \/ /\ Moves(Mine, "act", db) /\ job' = job /\ db.status = "sent"
<1>0. db \in Records /\ Mine \in Actors /\ "act" \in PCs
  BY ActorNames DEF TypeOK, PCs
<1>1. CASE db.status = "sent"
  BY <1>1, <1>0, GotoMoves DEF MineRead, At, StoreSame, ChainSame, chainVars
<1>2. CASE db.status # "sent"
  BY <1>2, <1>0, FinishMoves, ActorNames
  DEF MineRead, End, At, StoreSame, ChainSame, chainVars, Over
<1> QED BY <1>1, <1>2

\* It finds a receipt.
LEMMA MineFoundEffect ==
  ASSUME TypeOK, MineFound
  PROVE  /\ StoreSame /\ ChainSame /\ faults' = faults /\ job' = job
         /\ loc[Mine].pc = "act" /\ HasReceipt(loc[Mine].rec.hashes)
         /\ \E e \in Records : Moves(Mine, "store", e) /\ e.status = "mined"
            /\ e.hashes = loc[Mine].rec.hashes
<1> DEFINE e == [loc[Mine].rec EXCEPT !.status = "mined"]
<1>0. Mine \in Actors /\ loc[Mine].rec \in Records /\ "store" \in PCs /\ "mined" \in Statuses
  BY ActorNames DEF TypeOK, PCs, Statuses
<1>1. e \in Records /\ e.status = "mined" /\ e.hashes = loc[Mine].rec.hashes
  BY <1>0, StatusEdit
<1>2. Goto(Mine, "store", e)
  BY DEF MineFound
<1> HIDE DEF e
<1>3. Moves(Mine, "store", e)
  BY <1>0, <1>1, <1>2, GotoMoves
<1> QED BY <1>1, <1>3 DEF MineFound, At, StoreSame, ChainSame, chainVars

\* Its "failed" handler reads the record.
LEMMA MineFailedReadEffect ==
  ASSUME TypeOK, MineFailedRead
  PROVE  /\ StoreSame /\ ChainSame /\ faults' = faults /\ job' = job
         /\ loc[MineFailed].pc = "read"
         /\ \/ db.status # "sent" /\ Moves(MineFailed, "idle", NoRecord)
            \/ \E e \in Records : /\ Moves(MineFailed, "store", e) /\ db.status = "sent"
                                  /\ e.status = "errored" /\ e.slot = db.slot
<1>0. db \in Records /\ MineFailed \in Actors /\ "store" \in PCs /\ "errored" \in Statuses
  BY ActorNames DEF TypeOK, PCs, Statuses
<1>1. CASE db.status = "sent"
  BY <1>1, <1>0, GotoMoves, StatusEdit DEF MineFailedRead, At, StoreSame, ChainSame, chainVars
<1>2. CASE db.status # "sent"
  BY <1>2, <1>0, FinishMoves, ActorNames
  DEF MineFailedRead, At, StoreSame, ChainSame, chainVars, Over
<1> QED BY <1>1, <1>2

\* It gives the nonce back.
LEMMA MineFailedReleaseEffect ==
  ASSUME TypeOK, MineFailedRelease
  PROVE  /\ StoreSame /\ UNCHANGED <<slotOf, cancels, mined>> /\ faults' = faults /\ job' = job
         /\ loc[MineFailed].pc = "release" /\ released' = released \cup {loc[MineFailed].rec.slot}
         /\ Moves(MineFailed, "idle", NoRecord)
  BY FinishMoves, ActorNames DEF MineFailedRelease, At, StoreSame, chainVars, Over

\* An insert request checks its key.
LEMMA InsertReadEffect ==
  ASSUME TypeOK, NEW a \in AllRequests, InsertRead(a)
  PROVE  /\ StoreSame /\ ChainSame /\ faults' = faults /\ job' = job
         /\ loc[a].pc = "read" /\ a[1] = "insert"
         /\ \/ db.status # "none" /\ Moves(a, "done", NoRecord)
            \/ \E e \in Records : Moves(a, "store", e) /\ e.status = "queued" /\ db.status = "none"
<1>0. a \in Actors /\ "store" \in PCs
  BY ActorNames DEF PCs
<1>1. CASE db.status # "none"
  BY <1>1, <1>0, FinishMoves DEF InsertRead, At, StoreSame, ChainSame, chainVars, Over
<1>2. CASE db.status = "none"
  BY <1>2, <1>0, GotoMoves, InsertEdit DEF InsertRead, At, StoreSame, ChainSame, chainVars
<1> QED BY <1>1, <1>2

\* Cancel.
LEMMA CancelReadEffect ==
  ASSUME TypeOK, CancelRead
  PROVE  /\ StoreSame /\ ChainSame /\ faults' = faults /\ job' = job
         /\ loc[Cancel].pc = "read"
         /\ \/ Moves(Cancel, "done", NoRecord)
            \/ Moves(Cancel, "remove", db) /\ db.status = "queued"
            \/ Moves(Cancel, "act", db) /\ db.status = "sent"
<1>0. db \in Records /\ Cancel \in Actors /\ Cancel \in AllRequests /\ "act" \in PCs
      /\ "remove" \in PCs
  BY ActorNames, RequestNames DEF TypeOK, PCs
<1>1. CASE db.status = "queued" /\ ~db.isUserOp
  BY <1>1, <1>0, GotoMoves DEF CancelRead, At, StoreSame, ChainSame, chainVars
<1>2. CASE db.status = "sent" /\ ~db.isUserOp
  BY <1>2, <1>0, GotoMoves DEF CancelRead, At, StoreSame, ChainSame, chainVars
<1>3. CASE ~(db.status = "queued" /\ ~db.isUserOp) /\ ~(db.status = "sent" /\ ~db.isUserOp)
  BY <1>3, <1>0, FinishMoves DEF CancelRead, At, StoreSame, ChainSame, chainVars, Over
<1> QED BY <1>1, <1>2, <1>3

\* Cancel of a queued transaction removes its jobs.
LEMMA CancelRemoveEffect ==
  ASSUME TypeOK, CancelRemove
  PROVE  /\ StoreSame /\ ChainSame /\ loc[Cancel].pc = "remove" /\ job' = Removed(job, SendJobs)
         /\ \/ faults' = faults /\ \E e \in Records : Moves(Cancel, "store", e)
               /\ e.status = "cancelled"
            \/ Moves(Cancel, "done", NoRecord) /\ faults < MaxFaults /\ faults' = faults + 1
<1>0. Cancel \in Actors /\ Cancel \in AllRequests /\ loc[Cancel].rec \in Records /\ "store" \in PCs
  BY ActorNames, RequestNames DEF TypeOK, PCs
<1>1. CASE Finish(Cancel) /\ faults < MaxFaults /\ faults' = faults + 1
  BY <1>1, <1>0, FinishMoves DEF CancelRemove, At, StoreSame, ChainSame, chainVars, Over
<1>2. CASE Goto(Cancel, "store", [loc[Cancel].rec EXCEPT !.status = "cancelled", !.slot = 0, !.hashes = {}])
           /\ UNCHANGED faults
  <2> DEFINE e == [loc[Cancel].rec EXCEPT !.status = "cancelled", !.slot = 0, !.hashes = {}]
  <2>1. e \in Records /\ e.status = "cancelled"
    BY <1>0, CancelledEdit, Zenon
  <2>2. Goto(Cancel, "store", e)
    BY <1>2, Zenon
  <2> HIDE DEF e
  <2>3. Moves(Cancel, "store", e)
    BY <1>0, <2>1, <2>2, GotoMoves
  <2>4. /\ StoreSame /\ ChainSame /\ loc[Cancel].pc = "remove" /\ job' = Removed(job, SendJobs)
        /\ faults' = faults
    BY <1>2, Zenon DEF CancelRemove, At, StoreSame, ChainSame, chainVars
  <2> QED BY <2>1, <2>3, <2>4
<1> QED BY <1>1, <1>2, Zenon DEF CancelRemove

\* Cancel of a sent transaction replaces it.
LEMMA CancelSendEffect ==
  ASSUME TypeOK, CancelSend
  PROVE  /\ StoreSame /\ faults' = faults /\ job' = job /\ loc[Cancel].pc = "act"
         /\ \/ ChainSame /\ Moves(Cancel, "done", NoRecord)
            \/ /\ Submit(loc[Cancel].rec.slot, NextHash) /\ cancels' = cancels \cup {NextHash}
               /\ \E e \in Records : Moves(Cancel, "store", e) /\ e.status = "cancelled"
<1>0. Cancel \in Actors /\ Cancel \in AllRequests /\ loc[Cancel].rec \in Records /\ "store" \in PCs
  BY ActorNames, RequestNames DEF TypeOK, PCs
<1>1. CASE Finish(Cancel) /\ UNCHANGED <<chainVars, released>>
  BY <1>1, <1>0, FinishMoves DEF CancelSend, At, StoreSame, ChainSame, chainVars, Over
<1>2. CASE /\ Submit(loc[Cancel].rec.slot, NextHash) /\ cancels' = cancels \cup {NextHash}
           /\ Goto(Cancel, "store", [loc[Cancel].rec EXCEPT !.status = "cancelled", !.hashes = {NextHash}])
  <2> DEFINE e == [loc[Cancel].rec EXCEPT !.status = "cancelled", !.hashes = {NextHash}]
  <2>0. NextHash \in Hashes
    BY <1>2 DEF Submit
  <2>1. e \in Records /\ e.status = "cancelled"
    BY <1>0, <2>0, CancelSentEdit, Zenon
  <2>2. Goto(Cancel, "store", e)
    BY <1>2, Zenon
  <2> HIDE DEF e
  <2>3. Moves(Cancel, "store", e)
    BY <1>0, <2>1, <2>2, GotoMoves
  <2>4. StoreSame /\ faults' = faults /\ job' = job /\ loc[Cancel].pc = "act"
    BY <1>2, Zenon DEF CancelSend, At, StoreSame
  <2> QED BY <1>2, <2>1, <2>3, <2>4
<1> QED BY <1>1, <1>2, Zenon DEF CancelSend

\* retry-failed reads the record.
LEMMA RetryFailedReadEffect ==
  ASSUME TypeOK, RetryFailedRead
  PROVE  /\ StoreSame /\ ChainSame /\ loc[RetryFailed].pc = "read" /\ job' = job /\ faults' = faults
         /\ \/ Moves(RetryFailed, "done", NoRecord)
            \/ Moves(RetryFailed, "act", db) /\ db.status = "errored"
<1>0. RetryFailed \in Actors /\ RetryFailed \in AllRequests /\ db \in Records /\ "act" \in PCs
  BY ActorNames, RequestNames DEF TypeOK, PCs
<1> QED BY <1>0, GotoMoves, FinishMoves
    DEF RetryFailedRead, At, StoreSame, ChainSame, chainVars, Over

\* It looks for receipts.
LEMMA RetryFailedCheckEffect ==
  ASSUME TypeOK, RetryFailedCheck
  PROVE  /\ StoreSame /\ ChainSame /\ loc[RetryFailed].pc = "act" /\ job' = job
         /\ faults' = faults \/ (faults < MaxFaults /\ faults' = faults + 1)
         /\ \/ Moves(RetryFailed, "done", NoRecord)
            \/ Moves(RetryFailed, "remove", loc[RetryFailed].rec)
<1>0. RetryFailed \in Actors /\ RetryFailed \in AllRequests
      /\ loc[RetryFailed].rec \in Records /\ "remove" \in PCs
  BY ActorNames, RequestNames DEF TypeOK, PCs
<1> QED BY <1>0, GotoMoves, FinishMoves
        DEF RetryFailedCheck, NoReceiptSeen, At, StoreSame, ChainSame, chainVars, Over

\* It removes the jobs that have finished.
LEMMA RetryFailedRemoveEffect ==
  ASSUME TypeOK, RetryFailedRemove
  PROVE  /\ StoreSame /\ ChainSame /\ loc[RetryFailed].pc = "remove" /\ faults' = faults
         /\ \/ /\ Moves(RetryFailed, "done", NoRecord)
               /\ job[Send(0)].state = "active" \/ job[Mine].state = "active"
               /\ \/ job' = job
                  \/ job' = Removed(job, {Send(0)}) /\ job[Send(0)].state # "active"
            \/ /\ Moves(RetryFailed, "addSend", loc[RetryFailed].rec)
               /\ job[Send(0)].state # "active" /\ job[Mine].state # "active"
               /\ job' = Removed(job, {Send(0), Mine})
<1>0. RetryFailed \in Actors /\ RetryFailed \in AllRequests
      /\ loc[RetryFailed].rec \in Records /\ "addSend" \in PCs
  BY ActorNames, RequestNames DEF TypeOK, PCs
<1>1. {Send(0)} \cup {Mine} = {Send(0), Mine} /\ {Send(0)} \cup {} = {Send(0)}
  OBVIOUS
<1>2. CASE job[Send(0)].state = "active" \/ job[Mine].state = "active"
  BY <1>0, <1>1, <1>2, FinishMoves
  DEF RetryFailedRemove, At, StoreSame, ChainSame, chainVars, Over
<1>3. CASE ~(job[Send(0)].state = "active" \/ job[Mine].state = "active")
  BY <1>0, <1>1, <1>3, GotoMoves DEF RetryFailedRemove, At, StoreSame, ChainSame, chainVars
<1> QED BY <1>2, <1>3

\* sync-retry reads the record.
LEMMA SyncRetryReadEffect ==
  ASSUME TypeOK, SyncRetryRead
  PROVE  /\ StoreSame /\ ChainSame /\ faults' = faults /\ job' = job
         /\ loc[SyncRetry].pc = "read"
         /\ \/ Moves(SyncRetry, "done", NoRecord)
            \/ Moves(SyncRetry, "act", db) /\ db.status = "sent"
<1>0. SyncRetry \in Actors /\ SyncRetry \in AllRequests /\ db \in Records /\ "act" \in PCs
  BY ActorNames, RequestNames DEF TypeOK, PCs
<1> QED BY <1>0, GotoMoves, FinishMoves
    DEF SyncRetryRead, At, StoreSame, ChainSame, chainVars, Over

\* It resends the transaction.
LEMMA SyncRetrySendEffect ==
  ASSUME TypeOK, SyncRetrySend
  PROVE  /\ StoreSame /\ faults' = faults /\ job' = job /\ cancels' = cancels
            /\ loc[SyncRetry].pc = "act"
         /\ \/ ChainSame /\ Moves(SyncRetry, "done", NoRecord)
            \/ /\ Submit(loc[SyncRetry].rec.slot, NextHash)
               /\ \E e \in Records :
                    /\ Moves(SyncRetry, "store", e) /\ e.status = loc[SyncRetry].rec.status
                    /\ e.slot = loc[SyncRetry].rec.slot
                       /\ e.hashes = loc[SyncRetry].rec.hashes \cup {NextHash}
<1> DEFINE rec == loc[SyncRetry].rec
<1>0. SyncRetry \in Actors /\ SyncRetry \in AllRequests /\ rec \in Records /\ "store" \in PCs
  BY ActorNames, RequestNames DEF TypeOK, PCs
<1>1. CASE Finish(SyncRetry) /\ UNCHANGED <<slotOf, mined, released>>
  BY <1>1, <1>0, FinishMoves DEF SyncRetrySend, At, StoreSame, ChainSame, Over
<1>2. CASE /\ rec.resendCount + 1 \in Resends /\ Submit(rec.slot, NextHash)
           /\ Goto(SyncRetry, "store", Resent(rec, rec.resendCount + 1, NextHash))
  <2>1. NextHash \in Hashes
    BY <1>2 DEF Submit
  <2> QED BY <1>2, <1>0, <2>1, GotoMoves, ResentEdit DEF SyncRetrySend, At, StoreSame
<1> QED BY <1>1, <1>2 DEF SyncRetrySend

\* retry reads the record.
LEMMA RetryReadEffect ==
  ASSUME TypeOK, RetryRead
  PROVE  /\ StoreSame /\ ChainSame /\ faults' = faults /\ job' = job
         /\ loc[Retry].pc = "read"
         /\ \/ Moves(Retry, "done", NoRecord)
            \/ Moves(Retry, "store", db) /\ db.status = "sent"
<1>0. Retry \in Actors /\ Retry \in AllRequests /\ db \in Records /\ "store" \in PCs
  BY ActorNames, RequestNames DEF TypeOK, PCs
<1> QED BY <1>0, GotoMoves, FinishMoves DEF RetryRead, At, StoreSame, ChainSame, chainVars, Over

----------------------------------------------------------------------------
(* Types                                                                   *)

\* Where each actor can be; a request that is not made stays where it is.
Pcs ==
  /\ \A r \in Resends :
       /\ loc[Send(r)].pc \in {"idle", "read", "act", "store", "hook", "addMine"}
       /\ loc[SendFailed(r)].pc \in {"idle", "read", "store", "hook"}
  /\ loc[Mine].pc \in {"idle", "read", "act", "store", "hook"}
  /\ loc[MineFailed].pc \in {"idle", "read", "store", "hook", "release"}
  /\ \A a \in AllRequests : a[1] = "insert"
     => loc[a].pc \in {"idle", "read", "store", "addSend", "done"}
  /\ loc[Cancel].pc \in {"idle", "read", "remove", "act", "store", "hook", "done"}
  /\ loc[RetryFailed].pc \in {"idle", "read", "act", "remove", "addSend", "done"}
  /\ loc[SyncRetry].pc \in {"idle", "read", "act", "store", "addMine", "hook", "done"}
  /\ loc[Retry].pc \in {"idle", "read", "store", "addSend", "done"}
  /\ \A a \in AllRequests \ Requests : loc[a].pc = "idle"

Limit(j) == IF j = Mine THEN MineAttempts ELSE SendAttempts

\* A job that is somewhere is active, and one that can run has an attempt left.
JobsRun ==
  \A j \in Jobs :
    /\ loc[j].pc # "idle" => job[j].state = "active"
    /\ job[j].state \in {"waiting", "active"} => job[j].tries < Limit(j)

\* A sent record, and the one the mine worker's handler writes, has a nonce.
Slotted ==
  /\ db.status = "sent" => db.slot # 0
  /\ \A a \in Actors : loc[a].rec.status = "sent" => loc[a].rec.slot # 0
  /\ loc[MineFailed].pc \in {"store", "hook", "release"} => loc[MineFailed].rec.slot # 0

TypeInv == TypeOK /\ Pcs /\ JobsRun /\ Slotted


\* The send worker sends the transaction for the first time.
LEMMA SendFirstEffect ==
  ASSUME TypeOK, JobsRun, NEW r \in Resends, SendFirst(r)
  PROVE  /\ StoreSame /\ cancels' = cancels /\ faults' = faults
         /\ loc[Send(r)].pc = "act" /\ loc[Send(r)].rec.status = "queued"
         /\ \/ /\ Submit(NextSlot, NextHash) /\ job' = job
               /\ \E e \in Records : /\ Moves(Send(r), "store", e) /\ e.status = "sent"
                                      /\ e.slot = NextSlot /\ e.hashes = {NextHash}
            \/ /\ ChainSame /\ job' = job
               /\ \E e \in Records : Moves(Send(r), "store", e) /\ e.status = "errored"
            \/ /\ ChainSame /\ ThrowMoves(job, Send(r), SendFailed(r), SendAttempts)
<1> DEFINE rec == loc[Send(r)].rec
<1>0. /\ Send(r) \in Actors /\ Send(r) \in Jobs /\ rec \in Records /\ "store" \in PCs
      /\ "errored" \in Statuses /\ SendFailed(r) \in Actors /\ SendFailed(r) # Send(r)
         /\ Send(r) # Mine
  BY ActorNames DEF TypeOK, PCs, Statuses
<1>1. StoreSame /\ cancels' = cancels /\ faults' = faults /\ loc[Send(r)].pc = "act"
      /\ rec.status = "queued"
  BY Zenon DEF SendFirst, At, StoreSame
<1>2. CASE /\ Submit(NextSlot, NextHash) /\ UNCHANGED job
           /\ Goto(Send(r), "store", [rec EXCEPT !.status = "sent", !.slot = NextSlot,
                                                  !.hashes = {NextHash}, !.resendCount = 0])
  <2> DEFINE e == Sent(rec, NextSlot, NextHash)
  <2>1. NextHash \in Hashes /\ NextSlot \in Slots
    BY <1>2, Zenon DEF Submit
  <2>2. e \in Records /\ e.status = "sent" /\ e.slot = NextSlot /\ e.hashes = {NextHash}
    BY <1>0, <2>1, SentEdit
  <2>3. Goto(Send(r), "store", e)
    BY <1>2, Zenon DEF Sent
  <2>4. Submit(NextSlot, NextHash) /\ job' = job
    BY <1>2, Zenon
  <2> HIDE DEF e
  <2>5. Moves(Send(r), "store", e)
    BY <1>0, <2>2, <2>3, GotoMoves
  <2> QED BY <1>1, <2>2, <2>4, <2>5
<1>3. CASE /\ Goto(Send(r), "store", [rec EXCEPT !.status = "errored"])
           /\ UNCHANGED <<job, slotOf, mined, released>>
  <2> DEFINE e == [rec EXCEPT !.status = "errored"]
  <2>1. e \in Records /\ e.status = "errored"
    BY <1>0, StatusEdit
  <2>2. Goto(Send(r), "store", e)
    BY <1>3
  <2> HIDE DEF e
  <2>3. Moves(Send(r), "store", e)
    BY <1>0, <2>1, <2>2, GotoMoves
  <2> QED BY <1>1, <1>3, <2>1, <2>3 DEF ChainSame
<1>4. CASE SendThrows(r) /\ UNCHANGED <<slotOf, mined, released>>
  <2>1. job[Send(r)].tries < SendAttempts
    BY <1>0, <1>1 DEF JobsRun, Limit
  <2>2. ThrowMoves(job, Send(r), SendFailed(r), SendAttempts)
    BY <1>0, <1>4, <2>1, ThrowsMoves, LifecycleAssumption DEF SendThrows, TypeOK
  <2> QED BY <1>1, <1>4, <2>2 DEF ChainSame
<1> QED BY <1>2, <1>3, <1>4, Zenon DEF SendFirst

\* The send worker sends it again, at the nonce it read.
LEMMA SendAgainEffect ==
  ASSUME TypeOK, JobsRun, NEW r \in Resends, SendAgain(r)
  PROVE  /\ StoreSame /\ cancels' = cancels /\ faults' = faults
         /\ loc[Send(r)].pc = "act" /\ loc[Send(r)].rec.status = "sent"
         /\ \/ /\ Submit(loc[Send(r)].rec.slot, NextHash) /\ job' = job
               /\ \E e \in Records : /\ Moves(Send(r), "store", e) /\ e.status = "sent"
                                      /\ e.slot = loc[Send(r)].rec.slot
                                      /\ e.hashes = loc[Send(r)].rec.hashes \cup {NextHash}
            \/ /\ ChainSame /\ job' = Complete(Send(r)) /\ Moves(Send(r), "idle", NoRecord)
            \/ /\ ChainSame /\ ThrowMoves(job, Send(r), SendFailed(r), SendAttempts)
<1> DEFINE rec == loc[Send(r)].rec
<1>0. /\ Send(r) \in Actors /\ Send(r) \in Jobs /\ rec \in Records /\ "store" \in PCs
      /\ SendFailed(r) \in Actors /\ SendFailed(r) # Send(r) /\ Send(r) # Mine
         /\ Over(Send(r)) = "idle"
  BY ActorNames DEF TypeOK, PCs, Over
<1>1. StoreSame /\ cancels' = cancels /\ faults' = faults /\ loc[Send(r)].pc = "act"
      /\ rec.status = "sent"
  BY DEF SendAgain, At, StoreSame
<1>2. CASE Submit(rec.slot, NextHash) /\ Goto(Send(r), "store", Resent(rec, r, NextHash))
           /\ UNCHANGED job
  <2>1. NextHash \in Hashes
    BY <1>2 DEF Submit
  <2>2. /\ Resent(rec, r, NextHash) \in Records /\ Resent(rec, r, NextHash).status = "sent"
        /\ Resent(rec, r, NextHash).slot = rec.slot
        /\ Resent(rec, r, NextHash).hashes = rec.hashes \cup {NextHash}
    BY <1>0, <1>1, <2>1, ResentEdit
  <2>3. Moves(Send(r), "store", Resent(rec, r, NextHash))
    BY <1>0, <1>2, <2>2, GotoMoves
  <2> QED BY <1>1, <1>2, <2>2, <2>3
<1>3. CASE End(Send(r)) /\ UNCHANGED <<slotOf, mined, released>>
  BY <1>0, <1>1, <1>3, FinishMoves DEF End, ChainSame
<1>4. CASE SendThrows(r) /\ UNCHANGED <<slotOf, mined, released>>
  <2>1. job[Send(r)].tries < SendAttempts
    BY <1>0, <1>1 DEF JobsRun, Limit
  <2>2. ThrowMoves(job, Send(r), SendFailed(r), SendAttempts)
    BY <1>0, <1>4, <2>1, ThrowsMoves, LifecycleAssumption DEF SendThrows, TypeOK
  <2> QED BY <1>1, <1>4, <2>2 DEF ChainSame
<1> QED BY <1>2, <1>3, <1>4 DEF SendAgain

\* The send worker throws after the node took its transaction.
LEMMA SendLateEffect ==
  ASSUME TypeOK, JobsRun, NEW r \in Resends, SendLate(r)
  PROVE  /\ StoreSame /\ cancels' = cancels /\ faults < MaxFaults /\ faults' = faults + 1
         /\ loc[Send(r)].pc = "act"
         /\ \/ loc[Send(r)].rec.status = "queued" /\ Submit(NextSlot, NextHash)
            \/ loc[Send(r)].rec.status = "sent" /\ Submit(loc[Send(r)].rec.slot, NextHash)
         /\ ThrowMoves(job, Send(r), SendFailed(r), SendAttempts)
         /\ job[Send(r)].tries + 1 = SendAttempts => job'[Send(r)].state = "failed"
<1>0. /\ Send(r) \in Actors /\ Send(r) \in Jobs /\ Send(r) # Mine
      /\ SendFailed(r) \in Actors /\ SendFailed(r) # Send(r)
  BY ActorNames
<1>1. /\ StoreSame /\ cancels' = cancels /\ faults < MaxFaults /\ faults' = faults + 1
      /\ loc[Send(r)].pc = "act"
      /\ \/ loc[Send(r)].rec.status = "queued" /\ Submit(NextSlot, NextHash)
         \/ loc[Send(r)].rec.status = "sent" /\ Submit(loc[Send(r)].rec.slot, NextHash)
  BY Zenon DEF SendLate, At, StoreSame
<1>2. Throws(job, Send(r), SendFailed(r), SendAttempts)
  BY DEF SendLate, SendThrows
<1>3. job[Send(r)].tries < SendAttempts
  BY <1>0, <1>1 DEF JobsRun, Limit
<1>4. ThrowMoves(job, Send(r), SendFailed(r), SendAttempts)
  BY <1>0, <1>2, <1>3, ThrowsMoves, LifecycleAssumption DEF TypeOK
<1>5. job[Send(r)].tries + 1 = SendAttempts => job'[Send(r)].state = "failed"
  BY <1>0, <1>2 DEF Throws, TypeOK
<1> QED BY <1>1, <1>4, <1>5

\* The mine worker finds no receipt, and may queue a resend.
LEMMA MineNotYetEffect ==
  ASSUME TypeOK, JobsRun, MineNotYet
  PROVE  /\ StoreSame /\ ChainSame /\ loc[Mine].pc = "act"
         /\ faults' = faults \/ (faults < MaxFaults /\ faults' = faults + 1)
         /\ \/ ThrowMoves(job, Mine, MineFailed, MineAttempts)
            \/ \E r \in Resends : /\ r = loc[Mine].rec.resendCount + 1
                                   /\ ThrowMoves(Added(job, Send(r)), Mine, MineFailed, MineAttempts)
<1>0. /\ Mine \in Actors /\ Mine \in Jobs /\ MineFailed \in Actors /\ MineFailed # Mine
      /\ job \in [Jobs -> JobStates] /\ \A r \in Resends : Send(r) \in Jobs /\ Send(r) # Mine
  BY ActorNames DEF TypeOK
<1>1. /\ StoreSame /\ ChainSame /\ loc[Mine].pc = "act"
      /\ faults' = faults \/ (faults < MaxFaults /\ faults' = faults + 1)
  BY DEF MineNotYet, NoReceiptSeen, At, StoreSame, ChainSame, chainVars
<1>2. job[Mine].tries < MineAttempts
  BY <1>0, <1>1 DEF JobsRun, Limit
<1>3. CASE Throws(job, Mine, MineFailed, MineAttempts)
  BY <1>0, <1>1, <1>2, <1>3, ThrowsMoves, LifecycleAssumption
<1>4. ASSUME NEW r \in Resends, r = loc[Mine].rec.resendCount + 1,
             Throws(Added(job, Send(r)), Mine, MineFailed, MineAttempts)
      PROVE  ThrowMoves(Added(job, Send(r)), Mine, MineFailed, MineAttempts)
  <2>1. Added(job, Send(r)) \in [Jobs -> JobStates] /\ Added(job, Send(r))[Mine] = job[Mine]
    BY <1>0, JobEffects
  <2> QED BY <1>0, <1>2, <1>4, <2>1, ThrowsMoves, LifecycleAssumption
<1> QED BY <1>1, <1>3, <1>4 DEF MineNotYet

\* An actor writes its record and goes on to its job or its webhook.
LEMMA StoreEffect ==
  ASSUME TypeOK, NEW a \in Actors, Store(a)
  PROVE  /\ ChainSame /\ faults' = faults /\ job' = job /\ hooks' = hooks
         /\ loc[a].pc = "store" /\ db' = loc[a].rec /\ lists' \subseteq Statuses
         /\ Moves(a, AfterStore(a), loc[a].rec)
         /\ \/ a[1] \in {"insert", "retry"} /\ AfterStore(a) = "addSend"
            \/ a[1] = "syncRetry" /\ AfterStore(a) = "addMine"
            \/ a[1] \notin {"insert", "retry", "syncRetry"} /\ AfterStore(a) = "hook"
<1>0. loc[a].rec \in Records /\ loc[a].rec.status \in Statuses
  BY RecordTypes DEF TypeOK
<1>1. \/ a[1] \in {"insert", "retry"} /\ AfterStore(a) = "addSend"
      \/ a[1] = "syncRetry" /\ AfterStore(a) = "addMine"
      \/ a[1] \notin {"insert", "retry", "syncRetry"} /\ AfterStore(a) = "hook"
  BY DEF AfterStore
<1>2. AfterStore(a) \in PCs
  BY <1>1 DEF PCs
<1>3. Moves(a, AfterStore(a), loc[a].rec)
  BY <1>0, <1>2, GotoMoves DEF Store
<1> QED BY <1>0, <1>1, <1>3 DEF Store, StoreRecord, At, ChainSame, chainVars, TypeOK

\* An actor enqueues its webhook.
LEMMA HookEffect ==
  ASSUME TypeOK, NEW a \in Actors, Hook(a)
  PROVE  /\ ChainSame /\ faults' = faults /\ db' = db /\ lists' = lists
         /\ loc[a].pc = "hook" /\ hooks' = hooks \cup {loc[a].rec.status}
         /\ \/ /\ a \in SendJobs /\ loc[a].rec.status = "sent"
               /\ Moves(a, "addMine", loc[a].rec) /\ job' = job
            \/ /\ a = MineFailed /\ Moves(a, "release", loc[a].rec) /\ job' = job
            \/ /\ ~(a \in SendJobs /\ loc[a].rec.status = "sent")
               /\ Moves(a, Over(a), NoRecord) /\ job' = IF a \in Jobs THEN Complete(a) ELSE job
<1>0. loc[a].rec \in Records /\ "addMine" \in PCs /\ "release" \in PCs
  BY DEF TypeOK, PCs
<1> QED BY <1>0, GotoMoves, FinishMoves DEF Hook, EnqueueWebhook, End, At, ChainSame, chainVars

\* An actor adds a mine job.
LEMMA AddMineEffect ==
  ASSUME TypeOK, Pcs, NEW a \in Actors, AddMine(a)
  PROVE  /\ StoreSame /\ ChainSame /\ faults' = faults /\ loc[a].pc = "addMine"
         /\ \/ a = SyncRetry /\ Moves(a, "hook", loc[a].rec) /\ job' = Added(job, Mine)
            \/ /\ \E r \in Resends : a = Send(r)
               /\ Moves(a, "idle", NoRecord) /\ job' = Added(Complete(a), Mine)
<1>0. loc[a].rec \in Records /\ "hook" \in PCs /\ loc[a].pc = "addMine"
  BY DEF TypeOK, PCs, AddMine, At
<1>1. a = SyncRetry \/ \E r \in Resends : a = Send(r)
  BY <1>0, ActorCases, RequestNames DEF Pcs
<1>2. CASE a = SyncRetry
  BY <1>0, <1>2, GotoMoves, RequestNames DEF AddMine, StoreSame, ChainSame, chainVars
<1>3. ASSUME NEW r \in Resends, a = Send(r)
      PROVE  /\ StoreSame /\ ChainSame /\ faults' = faults
             /\ Moves(a, "idle", NoRecord) /\ job' = Added(Complete(a), Mine)
  <2>1. Over(a) = "idle" /\ a[1] # "syncRetry"
    BY <1>3, ActorNames DEF Over
  <2> QED BY <2>1, FinishMoves DEF AddMine, StoreSame, ChainSame, chainVars
<1> QED BY <1>0, <1>1, <1>2, <1>3

\* A request adds a send job.
LEMMA AddSendEffect ==
  ASSUME TypeOK, Pcs, NEW a \in Actors, AddSend(a)
  PROVE  /\ StoreSame /\ ChainSame /\ faults' = faults /\ loc[a].pc = "addSend"
         /\ a \in AllRequests /\ (a = Retry \/ a = RetryFailed \/ a[1] = "insert")
         /\ Moves(a, "done", NoRecord)
         /\ \E r \in Resends : /\ job' = Added(job, Send(r))
                               /\ a = Retry => r = loc[a].rec.resendCount + 1
                               /\ a # Retry => r = 0
<1>0. loc[a].pc = "addSend"
  BY DEF AddSend, At
<1>1. a \in AllRequests /\ (a = Retry \/ a = RetryFailed \/ a[1] = "insert")
  BY <1>0, ActorCases, RequestNames DEF Pcs
<1>2. Moves(a, "done", NoRecord)
  BY <1>1, FinishMoves DEF AddSend, Over
<1>3. a[1] = "retry" <=> a = Retry
  BY <1>1, RequestNames
<1> QED BY <1>0, <1>1, <1>2, <1>3 DEF AddSend, StoreSame, ChainSame, chainVars

\* An actor stops: a job is run again from its start.
LEMMA CrashEffect ==
  ASSUME TypeOK, NEW a \in Actors, Crash(a)
  PROVE  /\ StoreSame /\ ChainSame /\ faults < MaxFaults /\ faults' = faults + 1
         /\ loc[a].pc \notin {"idle", "done"} /\ (a \in AllRequests => loc[a].pc # "read")
         /\ Moves(a, Over(a), NoRecord)
         /\ a \notin Jobs => job' = job
         /\ a \in Jobs => /\ job' \in [Jobs -> JobStates]
                          /\ job'[a].state = "waiting" /\ job'[a].tries = job[a].tries
                          /\ \A i \in Jobs : i # a => job'[i] = job[i]
<1>1. Moves(a, Over(a), NoRecord)
  BY FinishMoves DEF Crash
<1> QED BY <1>1 DEF Crash, TypeOK, JobStates, StoreSame, ChainSame, chainVars

\* Every step keeps the types.
LEMMA TypeStep ==
  ASSUME TypeInv, [Next]_vars
  PROVE  TypeOK'
<1>0. /\ TypeOK /\ Pcs /\ JobsRun /\ Slotted /\ db \in Records /\ job \in [Jobs -> JobStates]
      /\ \A a \in Actors : loc[a].rec \in Records /\ loc[a].pc \in PCs
  BY DEF TypeInv, TypeOK
<1>1. ASSUME NEW j \in Jobs, StartJob(j) PROVE TypeOK'
  <2>1. loc' \in [Actors -> Locs]
    BY <1>1, <1>0, StartJobEffect DEF Moves, ThrowMoves
  <2>2. job' \in [Jobs -> JobStates]
    BY <1>1, <1>0, StartJobEffect DEF ThrowMoves
  <2> QED BY <1>1, <1>0, <2>1, <2>2, StartJobEffect, LifecycleAssumption
      DEF TypeOK, Locs, StoreSame, ChainSame
<1>2. ASSUME NEW r \in Resends, SendRead(r) PROVE TypeOK'
  <2>1. loc' \in [Actors -> Locs]
    BY <1>2, <1>0, SendReadEffect DEF Moves, ThrowMoves
  <2>2. job' \in [Jobs -> JobStates]
    BY <1>2, <1>0, SendReadEffect, CompleteEffect, ActorNames, ResendZero DEF ThrowMoves
  <2> QED BY <1>2, <1>0, <2>1, <2>2, SendReadEffect, LifecycleAssumption
      DEF TypeOK, Locs, StoreSame, ChainSame
<1>3. ASSUME NEW r \in Resends, SendFirst(r) PROVE TypeOK'
  <2>1. loc' \in [Actors -> Locs]
    BY <1>3, <1>0, SendFirstEffect DEF Moves, ThrowMoves
  <2>2. job' \in [Jobs -> JobStates]
    BY <1>3, <1>0, SendFirstEffect DEF ThrowMoves
  <2> QED BY <1>3, <1>0, <2>1, <2>2, SendFirstEffect, LifecycleAssumption, SubmitEffect
      DEF TypeOK, Locs, StoreSame, ChainSame
<1>4. ASSUME NEW r \in Resends, SendAgain(r) PROVE TypeOK'
  <2>1. loc' \in [Actors -> Locs]
    BY <1>4, <1>0, SendAgainEffect DEF Moves, ThrowMoves
  <2>2. job' \in [Jobs -> JobStates]
    BY <1>4, <1>0, SendAgainEffect, CompleteEffect, ActorNames, ResendZero DEF ThrowMoves
  <2> QED BY <1>4, <1>0, <2>1, <2>2, SendAgainEffect, LifecycleAssumption, SubmitEffect
      DEF TypeOK, Locs, StoreSame, ChainSame
<1>5. ASSUME NEW r \in Resends, SendFailedRead(r) PROVE TypeOK'
  <2>1. loc' \in [Actors -> Locs]
    BY <1>5, <1>0, SendFailedReadEffect DEF Moves, ThrowMoves
  <2>2. job' \in [Jobs -> JobStates]
    BY <1>5, <1>0, SendFailedReadEffect DEF ThrowMoves
  <2> QED BY <1>5, <1>0, <2>1, <2>2, SendFailedReadEffect, LifecycleAssumption
      DEF TypeOK, Locs, StoreSame, ChainSame
<1>6. ASSUME MineRead PROVE TypeOK'
  <2>1. loc' \in [Actors -> Locs]
    BY <1>6, <1>0, MineReadEffect DEF Moves, ThrowMoves
  <2>2. job' \in [Jobs -> JobStates]
    BY <1>6, <1>0, MineReadEffect, CompleteEffect, ActorNames, ResendZero DEF ThrowMoves
  <2> QED BY <1>6, <1>0, <2>1, <2>2, MineReadEffect, LifecycleAssumption
      DEF TypeOK, Locs, StoreSame, ChainSame
<1>7. ASSUME MineFound PROVE TypeOK'
  <2>1. loc' \in [Actors -> Locs]
    BY <1>7, <1>0, MineFoundEffect DEF Moves, ThrowMoves
  <2>2. job' \in [Jobs -> JobStates]
    BY <1>7, <1>0, MineFoundEffect DEF ThrowMoves
  <2> QED BY <1>7, <1>0, <2>1, <2>2, MineFoundEffect, LifecycleAssumption
      DEF TypeOK, Locs, StoreSame, ChainSame
<1>8. ASSUME MineNotYet PROVE TypeOK'
  <2>1. loc' \in [Actors -> Locs]
    BY <1>8, <1>0, MineNotYetEffect DEF Moves, ThrowMoves
  <2>2. job' \in [Jobs -> JobStates]
    BY <1>8, <1>0, MineNotYetEffect DEF ThrowMoves
  <2> QED BY <1>8, <1>0, <2>1, <2>2, MineNotYetEffect, LifecycleAssumption
      DEF TypeOK, Locs, StoreSame, ChainSame
<1>9. ASSUME MineFailedRead PROVE TypeOK'
  <2>1. loc' \in [Actors -> Locs]
    BY <1>9, <1>0, MineFailedReadEffect DEF Moves, ThrowMoves
  <2>2. job' \in [Jobs -> JobStates]
    BY <1>9, <1>0, MineFailedReadEffect DEF ThrowMoves
  <2> QED BY <1>9, <1>0, <2>1, <2>2, MineFailedReadEffect, LifecycleAssumption
      DEF TypeOK, Locs, StoreSame, ChainSame
<1>10. ASSUME MineFailedRelease PROVE TypeOK'
  <2>1. loc[MineFailed].rec.slot \in 0..MaxSlots /\ loc[MineFailed].rec.slot # 0
    BY <1>10, <1>0, MineFailedReleaseEffect, RecordTypes, ActorNames DEF Slotted
  <2>2. loc[MineFailed].rec.slot \in Slots
    BY <2>1, LifecycleAssumption DEF Slots
  <2> QED BY <1>10, <1>0, <2>2, MineFailedReleaseEffect DEF TypeOK, Moves, Locs, StoreSame
<1>11. ASSUME NEW a \in AllRequests, InsertRead(a) PROVE TypeOK'
  <2>1. loc' \in [Actors -> Locs]
    BY <1>11, <1>0, InsertReadEffect DEF Moves, ThrowMoves
  <2>2. job' \in [Jobs -> JobStates]
    BY <1>11, <1>0, InsertReadEffect DEF ThrowMoves
  <2> QED BY <1>11, <1>0, <2>1, <2>2, InsertReadEffect, LifecycleAssumption
      DEF TypeOK, Locs, StoreSame, ChainSame
<1>12. ASSUME CancelRead PROVE TypeOK'
  <2>1. loc' \in [Actors -> Locs]
    BY <1>12, <1>0, CancelReadEffect DEF Moves, ThrowMoves
  <2>2. job' \in [Jobs -> JobStates]
    BY <1>12, <1>0, CancelReadEffect DEF ThrowMoves
  <2> QED BY <1>12, <1>0, <2>1, <2>2, CancelReadEffect, LifecycleAssumption
      DEF TypeOK, Locs, StoreSame, ChainSame
<1>13. ASSUME CancelRemove PROVE TypeOK'
  <2>1. loc' \in [Actors -> Locs]
    BY <1>13, <1>0, CancelRemoveEffect DEF Moves, ThrowMoves
  <2>2. job' \in [Jobs -> JobStates]
    BY <1>13, <1>0, CancelRemoveEffect, JobEffects, ActorNames, ResendZero DEF ThrowMoves
  <2> QED BY <1>13, <1>0, <2>1, <2>2, CancelRemoveEffect, LifecycleAssumption
      DEF TypeOK, Locs, StoreSame, ChainSame
<1>14. ASSUME CancelSend PROVE TypeOK'
  <2>1. loc' \in [Actors -> Locs]
    BY <1>14, <1>0, CancelSendEffect DEF Moves, ThrowMoves
  <2>2. job' \in [Jobs -> JobStates]
    BY <1>14, <1>0, CancelSendEffect DEF ThrowMoves
  <2> QED BY <1>14, <1>0, <2>1, <2>2, CancelSendEffect, LifecycleAssumption, SubmitEffect
      DEF TypeOK, Locs, StoreSame, ChainSame
<1>15. ASSUME RetryFailedRead PROVE TypeOK'
  <2>1. loc' \in [Actors -> Locs]
    BY <1>15, <1>0, RetryFailedReadEffect DEF Moves, ThrowMoves
  <2>2. job' \in [Jobs -> JobStates]
    BY <1>15, <1>0, RetryFailedReadEffect DEF ThrowMoves
  <2> QED BY <1>15, <1>0, <2>1, <2>2, RetryFailedReadEffect, LifecycleAssumption
      DEF TypeOK, Locs, StoreSame, ChainSame
<1>16. ASSUME RetryFailedCheck PROVE TypeOK'
  <2>1. loc' \in [Actors -> Locs]
    BY <1>16, <1>0, RetryFailedCheckEffect DEF Moves, ThrowMoves
  <2>2. job' \in [Jobs -> JobStates]
    BY <1>16, <1>0, RetryFailedCheckEffect DEF ThrowMoves
  <2> QED BY <1>16, <1>0, <2>1, <2>2, RetryFailedCheckEffect, LifecycleAssumption
      DEF TypeOK, Locs, StoreSame, ChainSame
<1>17. ASSUME RetryFailedRemove PROVE TypeOK'
  <2>1. loc' \in [Actors -> Locs]
    BY <1>17, <1>0, RetryFailedRemoveEffect DEF Moves, ThrowMoves
  <2>2. job' \in [Jobs -> JobStates]
    BY <1>17, <1>0, RetryFailedRemoveEffect, JobEffects, ActorNames, ResendZero DEF ThrowMoves
  <2> QED BY <1>17, <1>0, <2>1, <2>2, RetryFailedRemoveEffect, LifecycleAssumption
      DEF TypeOK, Locs, StoreSame, ChainSame
<1>18. ASSUME SyncRetryRead PROVE TypeOK'
  <2>1. loc' \in [Actors -> Locs]
    BY <1>18, <1>0, SyncRetryReadEffect DEF Moves, ThrowMoves
  <2>2. job' \in [Jobs -> JobStates]
    BY <1>18, <1>0, SyncRetryReadEffect DEF ThrowMoves
  <2> QED BY <1>18, <1>0, <2>1, <2>2, SyncRetryReadEffect, LifecycleAssumption
      DEF TypeOK, Locs, StoreSame, ChainSame
<1>19. ASSUME SyncRetrySend PROVE TypeOK'
  <2>1. loc' \in [Actors -> Locs]
    BY <1>19, <1>0, SyncRetrySendEffect DEF Moves, ThrowMoves
  <2>2. job' \in [Jobs -> JobStates]
    BY <1>19, <1>0, SyncRetrySendEffect DEF ThrowMoves
  <2> QED BY <1>19, <1>0, <2>1, <2>2, SyncRetrySendEffect, LifecycleAssumption, SubmitEffect
      DEF TypeOK, Locs, StoreSame, ChainSame
<1>20. ASSUME RetryRead PROVE TypeOK'
  <2>1. loc' \in [Actors -> Locs]
    BY <1>20, <1>0, RetryReadEffect DEF Moves, ThrowMoves
  <2>2. job' \in [Jobs -> JobStates]
    BY <1>20, <1>0, RetryReadEffect DEF ThrowMoves
  <2> QED BY <1>20, <1>0, <2>1, <2>2, RetryReadEffect, LifecycleAssumption
      DEF TypeOK, Locs, StoreSame, ChainSame
<1>21. ASSUME NEW a \in Actors, Store(a) PROVE TypeOK'
  <2>1. loc' \in [Actors -> Locs]
    BY <1>21, <1>0, StoreEffect DEF Moves, ThrowMoves
  <2>2. job' \in [Jobs -> JobStates]
    BY <1>21, <1>0, StoreEffect DEF ThrowMoves
  <2> QED BY <1>21, <1>0, <2>1, <2>2, StoreEffect, LifecycleAssumption, RecordTypes, ActorNames
      DEF TypeOK, Locs, StoreSame, ChainSame
<1>22. ASSUME NEW a \in Actors, Hook(a) PROVE TypeOK'
  <2>1. loc' \in [Actors -> Locs]
    BY <1>22, <1>0, HookEffect DEF Moves, ThrowMoves
  <2>2. job' \in [Jobs -> JobStates]
    BY <1>22, <1>0, HookEffect, CompleteEffect, ActorNames, ResendZero DEF ThrowMoves
  <2> QED BY <1>22, <1>0, <2>1, <2>2, HookEffect, LifecycleAssumption, RecordTypes, ActorNames
      DEF TypeOK, Locs, StoreSame, ChainSame
<1>23. ASSUME NEW a \in Actors, AddMine(a) PROVE TypeOK'
  <2>1. loc' \in [Actors -> Locs]
    BY <1>23, <1>0, AddMineEffect DEF Moves
  <2>2. ASSUME job' = Added(job, Mine) PROVE job' \in [Jobs -> JobStates]
    BY <1>0, <2>2, JobEffects, ActorNames
  <2>3. ASSUME NEW r \in Resends, a = Send(r), job' = Added(Complete(a), Mine)
        PROVE  job' \in [Jobs -> JobStates]
    <3>1. Complete(a) \in [Jobs -> JobStates]
      BY <1>0, <2>3, CompleteEffect, ActorNames
    <3> QED BY <2>3, <3>1, JobEffects, ActorNames
  <2>4. job' \in [Jobs -> JobStates]
    BY <1>23, <1>0, <2>2, <2>3, AddMineEffect
  <2> QED BY <1>23, <1>0, <2>1, <2>4, AddMineEffect DEF TypeOK, Locs, StoreSame, ChainSame
<1>24. ASSUME NEW a \in Actors, AddSend(a) PROVE TypeOK'
  <2>1. loc' \in [Actors -> Locs]
    BY <1>24, <1>0, AddSendEffect DEF Moves, ThrowMoves
  <2>2. job' \in [Jobs -> JobStates]
    BY <1>24, <1>0, AddSendEffect, JobEffects, ActorNames, ResendZero DEF ThrowMoves
  <2> QED BY <1>24, <1>0, <2>1, <2>2, AddSendEffect, LifecycleAssumption
      DEF TypeOK, Locs, StoreSame, ChainSame
<1>25. ASSUME NEW a \in Actors, Crash(a) PROVE TypeOK'
  <2>1. loc' \in [Actors -> Locs]
    BY <1>25, <1>0, CrashEffect DEF Moves, ThrowMoves
  <2>2. job' \in [Jobs -> JobStates]
    BY <1>25, <1>0, CrashEffect DEF ThrowMoves
  <2> QED BY <1>25, <1>0, <2>1, <2>2, CrashEffect, LifecycleAssumption
      DEF TypeOK, Locs, StoreSame, ChainSame
<1>26. ASSUME MineBlock PROVE TypeOK'
  BY <1>26, <1>0, LifecycleAssumption DEF MineBlock, TypeOK, Submitted, Slots, Hashes
<1>27. ASSUME OtherTakes PROVE TypeOK'
  BY <1>27, <1>0, LifecycleAssumption DEF OtherTakes, TypeOK, Submitted, Slots, Hashes
<1>28. ASSUME UNCHANGED vars PROVE TypeOK'
  BY <1>28, <1>0 DEF vars, TypeOK
<1>29. ASSUME NEW r \in Resends, SendLate(r) PROVE TypeOK'
  <2>1. loc' \in [Actors -> Locs] /\ job' \in [Jobs -> JobStates]
    BY <1>29, <1>0, SendLateEffect DEF ThrowMoves
  <2>2. slotOf' \in [Hashes -> 0..MaxSlots] /\ mined' = mined /\ released' = released
    BY <1>29, <1>0, SendLateEffect, SubmitEffect
  <2> QED BY <1>29, <1>0, <2>1, <2>2, SendLateEffect, LifecycleAssumption
      DEF TypeOK, Locs, StoreSame
<1> QED BY <1>1, <1>2, <1>3, <1>4, <1>5, <1>6, <1>7, <1>8, <1>9, <1>10, <1>11, <1>12, <1>13,
    <1>14, <1>15, <1>16, <1>17, <1>18, <1>19, <1>20, <1>21, <1>22, <1>23, <1>24, <1>25,
    <1>26, <1>27, <1>28, <1>29
    DEF Next, Undisturbed, WorkerStep, SendStep, MineStep, ApiStep, ActorStep

\* Every step keeps the actors where they can be.
LEMMA PcsStep ==
  ASSUME TypeInv, [Next]_vars
  PROVE  Pcs'
<1>0. TypeOK /\ Pcs /\ JobsRun
  BY DEF TypeInv
<1>1. ASSUME NEW j \in Jobs, StartJob(j) PROVE Pcs'
  BY <1>1, <1>0, StartJobEffect, ActorNames, RequestNames, ActorCases, ResendZero
  DEF Pcs, Moves, ThrowMoves, Over
<1>2. ASSUME NEW r \in Resends, SendRead(r) PROVE Pcs'
  BY <1>2, <1>0, SendReadEffect, ActorNames, RequestNames, ActorCases, ResendZero
  DEF Pcs, Moves, ThrowMoves, Over
<1>3. ASSUME NEW r \in Resends, SendFirst(r) PROVE Pcs'
  BY <1>3, <1>0, SendFirstEffect, ActorNames, RequestNames, ActorCases, ResendZero
  DEF Pcs, Moves, ThrowMoves, Over
<1>4. ASSUME NEW r \in Resends, SendAgain(r) PROVE Pcs'
  BY <1>4, <1>0, SendAgainEffect, ActorNames, RequestNames, ActorCases, ResendZero
  DEF Pcs, Moves, ThrowMoves, Over
<1>5. ASSUME NEW r \in Resends, SendFailedRead(r) PROVE Pcs'
  BY <1>5, <1>0, SendFailedReadEffect, ActorNames, RequestNames, ActorCases, ResendZero
  DEF Pcs, Moves, ThrowMoves, Over
<1>6. ASSUME MineRead PROVE Pcs'
  BY <1>6, <1>0, MineReadEffect, ActorNames, RequestNames, ActorCases, ResendZero
  DEF Pcs, Moves, ThrowMoves, Over
<1>7. ASSUME MineFound PROVE Pcs'
  BY <1>7, <1>0, MineFoundEffect, ActorNames, RequestNames, ActorCases, ResendZero
  DEF Pcs, Moves, ThrowMoves, Over
<1>8. ASSUME MineNotYet PROVE Pcs'
  BY <1>8, <1>0, MineNotYetEffect, ActorNames, RequestNames, ActorCases, ResendZero
  DEF Pcs, Moves, ThrowMoves, Over
<1>9. ASSUME MineFailedRead PROVE Pcs'
  BY <1>9, <1>0, MineFailedReadEffect, ActorNames, RequestNames, ActorCases, ResendZero
  DEF Pcs, Moves, ThrowMoves, Over
<1>10. ASSUME MineFailedRelease PROVE Pcs'
  BY <1>10, <1>0, MineFailedReleaseEffect, ActorNames, RequestNames, ActorCases, ResendZero
  DEF Pcs, Moves, ThrowMoves, Over
<1>11. ASSUME NEW a \in AllRequests, InsertRead(a) PROVE Pcs'
  BY <1>11, <1>0, InsertReadEffect, ActorNames, RequestNames, ActorCases, ResendZero
  DEF Pcs, Moves, ThrowMoves, Over
<1>12. ASSUME CancelRead PROVE Pcs'
  BY <1>12, <1>0, CancelReadEffect, ActorNames, RequestNames, ActorCases, ResendZero
  DEF Pcs, Moves, ThrowMoves, Over
<1>13. ASSUME CancelRemove PROVE Pcs'
  BY <1>13, <1>0, CancelRemoveEffect, ActorNames, RequestNames, ActorCases, ResendZero
  DEF Pcs, Moves, ThrowMoves, Over
<1>14. ASSUME CancelSend PROVE Pcs'
  BY <1>14, <1>0, CancelSendEffect, ActorNames, RequestNames, ActorCases, ResendZero
  DEF Pcs, Moves, ThrowMoves, Over
<1>15. ASSUME RetryFailedRead PROVE Pcs'
  BY <1>15, <1>0, RetryFailedReadEffect, ActorNames, RequestNames, ActorCases, ResendZero
  DEF Pcs, Moves, ThrowMoves, Over
<1>16. ASSUME RetryFailedCheck PROVE Pcs'
  BY <1>16, <1>0, RetryFailedCheckEffect, ActorNames, RequestNames, ActorCases, ResendZero
  DEF Pcs, Moves, ThrowMoves, Over
<1>17. ASSUME RetryFailedRemove PROVE Pcs'
  BY <1>17, <1>0, RetryFailedRemoveEffect, ActorNames, RequestNames, ActorCases, ResendZero
  DEF Pcs, Moves, ThrowMoves, Over
<1>18. ASSUME SyncRetryRead PROVE Pcs'
  BY <1>18, <1>0, SyncRetryReadEffect, ActorNames, RequestNames, ActorCases, ResendZero
  DEF Pcs, Moves, ThrowMoves, Over
<1>19. ASSUME SyncRetrySend PROVE Pcs'
  BY <1>19, <1>0, SyncRetrySendEffect, ActorNames, RequestNames, ActorCases, ResendZero
  DEF Pcs, Moves, ThrowMoves, Over
<1>20. ASSUME RetryRead PROVE Pcs'
  BY <1>20, <1>0, RetryReadEffect, ActorNames, RequestNames, ActorCases, ResendZero
  DEF Pcs, Moves, ThrowMoves, Over
<1>21. ASSUME NEW a \in Actors, Store(a) PROVE Pcs'
  BY <1>21, <1>0, StoreEffect, ActorNames, RequestNames, ActorCases, ResendZero
  DEF Pcs, Moves, ThrowMoves, Over
<1>22. ASSUME NEW a \in Actors, Hook(a) PROVE Pcs'
  BY <1>22, <1>0, HookEffect, ActorNames, RequestNames, ActorCases, ResendZero
  DEF Pcs, Moves, ThrowMoves, Over
<1>23. ASSUME NEW a \in Actors, AddMine(a) PROVE Pcs'
  BY <1>23, <1>0, AddMineEffect, ActorNames, RequestNames, ActorCases, ResendZero
  DEF Pcs, Moves, ThrowMoves, Over
<1>24. ASSUME NEW a \in Actors, AddSend(a) PROVE Pcs'
  BY <1>24, <1>0, AddSendEffect, ActorNames, RequestNames, ActorCases, ResendZero
  DEF Pcs, Moves, ThrowMoves, Over
<1>25. ASSUME NEW a \in Actors, Crash(a) PROVE Pcs'
  BY <1>25, <1>0, CrashEffect, ActorNames, RequestNames, ActorCases, ResendZero
  DEF Pcs, Moves, ThrowMoves, Over
<1>26. ASSUME MineBlock PROVE Pcs'
  BY <1>26, <1>0 DEF MineBlock, Pcs
<1>27. ASSUME OtherTakes PROVE Pcs'
  BY <1>27, <1>0 DEF OtherTakes, Pcs
<1>28. ASSUME UNCHANGED vars PROVE Pcs'
  BY <1>28, <1>0 DEF vars, Pcs
<1>29. ASSUME NEW r \in Resends, SendLate(r) PROVE Pcs'
  BY <1>29, <1>0, SendLateEffect, ActorNames, RequestNames, ActorCases, ResendZero
  DEF Pcs, ThrowMoves
<1> QED BY <1>1, <1>2, <1>3, <1>4, <1>5, <1>6, <1>7, <1>8, <1>9, <1>10, <1>11, <1>12, <1>13,
    <1>14, <1>15, <1>16, <1>17, <1>18, <1>19, <1>20, <1>21, <1>22, <1>23, <1>24, <1>25,
    <1>26, <1>27, <1>28, <1>29
    DEF Next, Undisturbed, WorkerStep, SendStep, MineStep, ApiStep, ActorStep

\* What JobsRun says of job i in state js when its worker is at pc.
Runs(js, i, pc) ==
  (pc # "idle" => js.state = "active")
  /\ (js.state \in {"waiting", "active"} => js.tries < Limit(i))

\* Adding a job keeps it ...
LEMMA AddedRuns ==
  ASSUME NEW js \in [Jobs -> JobStates], NEW j \in Jobs, NEW i \in Jobs, NEW pc, Runs(js[i], i, pc)
  PROVE  Runs(Added(js, j)[i], i, pc)
  BY JobEffects, RecordTypes, LifecycleAssumption DEF Runs, Limit

\* ... and so does removing jobs.
LEMMA RemovedRuns ==
  ASSUME NEW js \in [Jobs -> JobStates], NEW S, NEW i \in Jobs, NEW pc, Runs(js[i], i, pc)
  PROVE  Runs(Removed(js, S)[i], i, pc)
  BY JobEffects, RecordTypes, LifecycleAssumption DEF Runs, Limit

\* Every step keeps running jobs active, with an attempt left.
LEMMA JobsRunStep ==
  ASSUME TypeInv, [Next]_vars
  PROVE  JobsRun'
<1>0. TypeOK /\ Pcs /\ JobsRun /\ job \in [Jobs -> JobStates]
  BY DEF TypeInv, TypeOK
<1>1. ASSUME NEW j \in Jobs, StartJob(j) PROVE JobsRun'
  BY <1>1, <1>0, StartJobEffect, ActorNames, RequestNames, ActorCases, RecordTypes, ResendZero,
     LifecycleAssumption
  DEF JobsRun, Limit, Moves, ThrowMoves, Over
<1>2. ASSUME NEW r \in Resends, SendRead(r) PROVE JobsRun'
  BY <1>2, <1>0, SendReadEffect, ActorNames, RequestNames, ActorCases, RecordTypes, ResendZero,
     LifecycleAssumption, CompleteEffect
  DEF JobsRun, Limit, Moves, ThrowMoves, Over
<1>3. ASSUME NEW r \in Resends, SendFirst(r) PROVE JobsRun'
  BY <1>3, <1>0, SendFirstEffect, ActorNames, RequestNames, ActorCases, RecordTypes, ResendZero,
     LifecycleAssumption
  DEF JobsRun, Limit, Moves, ThrowMoves, Over
<1>4. ASSUME NEW r \in Resends, SendAgain(r) PROVE JobsRun'
  <2>1. Send(r) \in Jobs /\ Send(r) # Mine /\ Send(r) \in Actors /\ SendFailed(r) \notin Jobs
    BY ActorNames
  <2>2. CASE job' = job /\ \E e \in Records : Moves(Send(r), "store", e)
    BY <1>4, <1>0, <2>1, <2>2, SendAgainEffect, ActorCases DEF JobsRun, Moves
  <2>3. CASE job' = Complete(Send(r)) /\ Moves(Send(r), "idle", NoRecord)
    BY <1>0, <2>1, <2>3, CompleteEffect, ActorCases DEF JobsRun, Moves
  <2>4. CASE ThrowMoves(job, Send(r), SendFailed(r), SendAttempts)
    BY <1>0, <2>1, <2>4, ActorCases DEF JobsRun, ThrowMoves, Limit
  <2> QED BY <1>4, <1>0, <2>2, <2>3, <2>4, SendAgainEffect
<1>5. ASSUME NEW r \in Resends, SendFailedRead(r) PROVE JobsRun'
  BY <1>5, <1>0, SendFailedReadEffect, ActorNames, RequestNames, ActorCases, RecordTypes,
     ResendZero, LifecycleAssumption
  DEF JobsRun, Limit, Moves, ThrowMoves, Over
<1>6. ASSUME MineRead PROVE JobsRun'
  BY <1>6, <1>0, MineReadEffect, ActorNames, RequestNames, ActorCases, RecordTypes, ResendZero,
     LifecycleAssumption, CompleteEffect
  DEF JobsRun, Limit, Moves, ThrowMoves, Over
<1>7. ASSUME MineFound PROVE JobsRun'
  BY <1>7, <1>0, MineFoundEffect, ActorNames, RequestNames, ActorCases, RecordTypes, ResendZero,
     LifecycleAssumption
  DEF JobsRun, Limit, Moves, ThrowMoves, Over
<1>8. ASSUME MineNotYet PROVE JobsRun'
  <2>1. Mine \in Jobs /\ Mine \in Actors /\ MineFailed \notin Jobs
    BY ActorNames
  <2>2. CASE ThrowMoves(job, Mine, MineFailed, MineAttempts)
    BY <1>0, <2>1, <2>2, ActorCases DEF JobsRun, ThrowMoves, Limit
  <2>3. ASSUME NEW r \in Resends, ThrowMoves(Added(job, Send(r)), Mine, MineFailed, MineAttempts)
        PROVE  JobsRun'
    <3>1. \A i \in Jobs : Runs(Added(job, Send(r))[i], i, loc[i].pc)
      BY <1>0, ActorNames, AddedRuns DEF JobsRun, Runs
    <3> QED BY <2>1, <2>3, <3>1, ActorCases DEF JobsRun, Runs, ThrowMoves, Limit
  <2> QED BY <1>8, <1>0, <2>2, <2>3, MineNotYetEffect
<1>9. ASSUME MineFailedRead PROVE JobsRun'
  BY <1>9, <1>0, MineFailedReadEffect, ActorNames, RequestNames, ActorCases, RecordTypes,
     ResendZero, LifecycleAssumption
  DEF JobsRun, Limit, Moves, ThrowMoves, Over
<1>10. ASSUME MineFailedRelease PROVE JobsRun'
  BY <1>10, <1>0, MineFailedReleaseEffect, ActorNames, RequestNames, ActorCases, RecordTypes,
     ResendZero, LifecycleAssumption
  DEF JobsRun, Limit, Moves, ThrowMoves, Over
<1>11. ASSUME NEW a \in AllRequests, InsertRead(a) PROVE JobsRun'
  BY <1>11, <1>0, InsertReadEffect, ActorNames, RequestNames, ActorCases, RecordTypes, ResendZero,
     LifecycleAssumption
  DEF JobsRun, Limit, Moves, ThrowMoves, Over
<1>12. ASSUME CancelRead PROVE JobsRun'
  BY <1>12, <1>0, CancelReadEffect, ActorNames, RequestNames, ActorCases, RecordTypes, ResendZero,
     LifecycleAssumption
  DEF JobsRun, Limit, Moves, ThrowMoves, Over
<1>13. ASSUME CancelRemove PROVE JobsRun'
  BY <1>13, <1>0, CancelRemoveEffect, ActorNames, RequestNames, ActorCases, RecordTypes,
     ResendZero, LifecycleAssumption, JobEffects
  DEF JobsRun, Limit, Moves, ThrowMoves, Over
<1>14. ASSUME CancelSend PROVE JobsRun'
  BY <1>14, <1>0, CancelSendEffect, ActorNames, RequestNames, ActorCases, RecordTypes, ResendZero,
     LifecycleAssumption
  DEF JobsRun, Limit, Moves, ThrowMoves, Over
<1>15. ASSUME RetryFailedRead PROVE JobsRun'
  BY <1>15, <1>0, RetryFailedReadEffect, ActorNames, RequestNames, ActorCases, RecordTypes,
     ResendZero, LifecycleAssumption
  DEF JobsRun, Limit, Moves, ThrowMoves, Over
<1>16. ASSUME RetryFailedCheck PROVE JobsRun'
  BY <1>16, <1>0, RetryFailedCheckEffect, ActorNames, RequestNames, ActorCases, RecordTypes,
     ResendZero, LifecycleAssumption
  DEF JobsRun, Limit, Moves, ThrowMoves, Over
<1>17. ASSUME RetryFailedRemove PROVE JobsRun'
  <2>1. RetryFailed \notin Jobs
    BY ActorNames, RequestNames
  <2>2. \A i \in Jobs : loc'[i] = loc[i]
    BY <1>17, <1>0, <2>1, RetryFailedRemoveEffect, ActorCases DEF Moves
  <2>3. job' = job \/ \E S : job' = Removed(job, S)
    BY <1>17, <1>0, RetryFailedRemoveEffect
  <2>4. \A i \in Jobs : Runs(job'[i], i, loc[i].pc)
    <3>1. \A i \in Jobs : Runs(job[i], i, loc[i].pc)
      BY <1>0 DEF JobsRun, Runs
    <3> QED BY <1>0, <2>3, <3>1, RemovedRuns
  <2> QED BY <2>2, <2>4 DEF JobsRun, Runs
<1>18. ASSUME SyncRetryRead PROVE JobsRun'
  BY <1>18, <1>0, SyncRetryReadEffect, ActorNames, RequestNames, ActorCases, RecordTypes,
     ResendZero, LifecycleAssumption
  DEF JobsRun, Limit, Moves, ThrowMoves, Over
<1>19. ASSUME SyncRetrySend PROVE JobsRun'
  BY <1>19, <1>0, SyncRetrySendEffect, ActorNames, RequestNames, ActorCases, RecordTypes,
     ResendZero, LifecycleAssumption
  DEF JobsRun, Limit, Moves, ThrowMoves, Over
<1>20. ASSUME RetryRead PROVE JobsRun'
  BY <1>20, <1>0, RetryReadEffect, ActorNames, RequestNames, ActorCases, RecordTypes, ResendZero,
     LifecycleAssumption
  DEF JobsRun, Limit, Moves, ThrowMoves, Over
<1>21. ASSUME NEW a \in Actors, Store(a) PROVE JobsRun'
  BY <1>21, <1>0, StoreEffect, ActorNames, RequestNames, ActorCases, RecordTypes, ResendZero,
     LifecycleAssumption
  DEF JobsRun, Limit, Moves, ThrowMoves, Over
<1>22. ASSUME NEW a \in Actors, Hook(a) PROVE JobsRun'
  BY <1>22, <1>0, HookEffect, ActorNames, RequestNames, ActorCases, RecordTypes, ResendZero,
     LifecycleAssumption, CompleteEffect
  DEF JobsRun, Limit, Moves, ThrowMoves, Over
<1>23. ASSUME NEW a \in Actors, AddMine(a) PROVE JobsRun'
  <2>0. Mine \in Jobs /\ SyncRetry \notin Jobs
    BY ActorNames, RequestNames
  <2>1. CASE a = SyncRetry /\ Moves(a, "hook", loc[a].rec) /\ job' = Added(job, Mine)
    <3>1. \A i \in Jobs : Runs(job'[i], i, loc[i].pc)
      BY <1>0, <2>0, <2>1, AddedRuns DEF JobsRun, Runs
    <3> QED BY <2>0, <2>1, <3>1, ActorCases DEF JobsRun, Runs, Moves
  <2>2. ASSUME NEW r \in Resends, a = Send(r), Moves(a, "idle", NoRecord),
               job' = Added(Complete(a), Mine)
        PROVE  JobsRun'
    <3>1. a \in Jobs
      BY <2>2, ActorNames
    <3>2. Complete(a) \in [Jobs -> JobStates] /\ \A i \in Jobs : Runs(Complete(a)[i], i, loc'[i].pc)
      BY <1>0, <2>2, <3>1, CompleteEffect, ActorCases DEF JobsRun, Runs, Moves
    <3>3. \A i \in Jobs : Runs(job'[i], i, loc'[i].pc)
      BY <2>0, <2>2, <3>2, AddedRuns
    <3> QED BY <3>3 DEF JobsRun, Runs
  <2> QED BY <1>23, <1>0, <2>1, <2>2, AddMineEffect
<1>24. ASSUME NEW a \in Actors, AddSend(a) PROVE JobsRun'
  <2>1. a \notin Jobs
    BY <1>24, <1>0, AddSendEffect, ActorNames
  <2>2. \A i \in Jobs : loc'[i] = loc[i]
    BY <1>24, <1>0, <2>1, AddSendEffect, ActorCases DEF Moves
  <2>3. PICK r \in Resends : job' = Added(job, Send(r))
    BY <1>24, <1>0, AddSendEffect
  <2>4. \A i \in Jobs : Runs(job'[i], i, loc[i].pc)
    BY <1>0, <2>3, ActorNames, AddedRuns DEF JobsRun, Runs
  <2> QED BY <2>2, <2>4 DEF JobsRun, Runs
<1>25. ASSUME NEW a \in Actors, Crash(a) PROVE JobsRun'
  BY <1>25, <1>0, CrashEffect, ActorNames, RequestNames, ActorCases, RecordTypes, ResendZero,
     LifecycleAssumption
  DEF JobsRun, Limit, Moves, ThrowMoves, Over
<1>26. ASSUME MineBlock PROVE JobsRun'
  BY <1>26, <1>0 DEF MineBlock, JobsRun
<1>27. ASSUME OtherTakes PROVE JobsRun'
  BY <1>27, <1>0 DEF OtherTakes, JobsRun
<1>28. ASSUME UNCHANGED vars PROVE JobsRun'
  BY <1>28, <1>0 DEF vars, JobsRun
<1>29. ASSUME NEW r \in Resends, SendLate(r) PROVE JobsRun'
  BY <1>29, <1>0, SendLateEffect, ActorNames, ActorCases DEF JobsRun, ThrowMoves, Limit
<1> QED BY <1>1, <1>2, <1>3, <1>4, <1>5, <1>6, <1>7, <1>8, <1>9, <1>10, <1>11, <1>12, <1>13,
    <1>14, <1>15, <1>16, <1>17, <1>18, <1>19, <1>20, <1>21, <1>22, <1>23, <1>24, <1>25,
    <1>26, <1>27, <1>28, <1>29
    DEF Next, Undisturbed, WorkerStep, SendStep, MineStep, ApiStep, ActorStep

\* Every step keeps sent records with a nonce.
LEMMA SlottedStep ==
  ASSUME TypeInv, [Next]_vars
  PROVE  Slotted'
<1>0. TypeOK /\ Pcs /\ JobsRun /\ Slotted
  BY DEF TypeInv
<1>1. ASSUME NEW j \in Jobs, StartJob(j) PROVE Slotted'
  BY <1>1, <1>0, StartJobEffect, ActorNames, RequestNames, ActorCases, RecordTypes
  DEF Slotted, Moves, ThrowMoves, Over, StoreSame, Slots
<1>2. ASSUME NEW r \in Resends, SendRead(r) PROVE Slotted'
  BY <1>2, <1>0, SendReadEffect, ActorNames, RequestNames, ActorCases, RecordTypes
  DEF Slotted, Moves, ThrowMoves, Over, StoreSame, Slots
<1>3. ASSUME NEW r \in Resends, SendFirst(r) PROVE Slotted'
  BY <1>3, <1>0, SendFirstEffect, SubmitEffect, ActorNames, RequestNames, ActorCases, RecordTypes
  DEF Slotted, Moves, ThrowMoves, Over, StoreSame, Slots
<1>4. ASSUME NEW r \in Resends, SendAgain(r) PROVE Slotted'
  BY <1>4, <1>0, SendAgainEffect, SubmitEffect, ActorNames, RequestNames, ActorCases, RecordTypes
  DEF Slotted, Moves, ThrowMoves, Over, StoreSame, Slots
<1>5. ASSUME NEW r \in Resends, SendFailedRead(r) PROVE Slotted'
  BY <1>5, <1>0, SendFailedReadEffect, ActorNames, RequestNames, ActorCases, RecordTypes
  DEF Slotted, Moves, ThrowMoves, Over, StoreSame, Slots
<1>6. ASSUME MineRead PROVE Slotted'
  BY <1>6, <1>0, MineReadEffect, ActorNames, RequestNames, ActorCases, RecordTypes
  DEF Slotted, Moves, ThrowMoves, Over, StoreSame, Slots
<1>7. ASSUME MineFound PROVE Slotted'
  BY <1>7, <1>0, MineFoundEffect, ActorNames, RequestNames, ActorCases, RecordTypes
  DEF Slotted, Moves, ThrowMoves, Over, StoreSame, Slots
<1>8. ASSUME MineNotYet PROVE Slotted'
  BY <1>8, <1>0, MineNotYetEffect, ActorNames, RequestNames, ActorCases, RecordTypes
  DEF Slotted, Moves, ThrowMoves, Over, StoreSame, Slots
<1>9. ASSUME MineFailedRead PROVE Slotted'
  BY <1>9, <1>0, MineFailedReadEffect, ActorNames, RequestNames, ActorCases, RecordTypes
  DEF Slotted, Moves, ThrowMoves, Over, StoreSame, Slots
<1>10. ASSUME MineFailedRelease PROVE Slotted'
  BY <1>10, <1>0, MineFailedReleaseEffect, ActorNames, RequestNames, ActorCases, RecordTypes
  DEF Slotted, Moves, ThrowMoves, Over, StoreSame, Slots
<1>11. ASSUME NEW a \in AllRequests, InsertRead(a) PROVE Slotted'
  BY <1>11, <1>0, InsertReadEffect, ActorNames, RequestNames, ActorCases, RecordTypes
  DEF Slotted, Moves, ThrowMoves, Over, StoreSame, Slots
<1>12. ASSUME CancelRead PROVE Slotted'
  BY <1>12, <1>0, CancelReadEffect, ActorNames, RequestNames, ActorCases, RecordTypes
  DEF Slotted, Moves, ThrowMoves, Over, StoreSame, Slots
<1>13. ASSUME CancelRemove PROVE Slotted'
  BY <1>13, <1>0, CancelRemoveEffect, ActorNames, RequestNames, ActorCases, RecordTypes
  DEF Slotted, Moves, ThrowMoves, Over, StoreSame, Slots
<1>14. ASSUME CancelSend PROVE Slotted'
  BY <1>14, <1>0, CancelSendEffect, SubmitEffect, ActorNames, RequestNames, ActorCases,
     RecordTypes
  DEF Slotted, Moves, ThrowMoves, Over, StoreSame, Slots
<1>15. ASSUME RetryFailedRead PROVE Slotted'
  BY <1>15, <1>0, RetryFailedReadEffect, ActorNames, RequestNames, ActorCases, RecordTypes
  DEF Slotted, Moves, ThrowMoves, Over, StoreSame, Slots
<1>16. ASSUME RetryFailedCheck PROVE Slotted'
  BY <1>16, <1>0, RetryFailedCheckEffect, ActorNames, RequestNames, ActorCases, RecordTypes
  DEF Slotted, Moves, ThrowMoves, Over, StoreSame, Slots
<1>17. ASSUME RetryFailedRemove PROVE Slotted'
  BY <1>17, <1>0, RetryFailedRemoveEffect, ActorNames, RequestNames, ActorCases, RecordTypes
  DEF Slotted, Moves, ThrowMoves, Over, StoreSame, Slots
<1>18. ASSUME SyncRetryRead PROVE Slotted'
  BY <1>18, <1>0, SyncRetryReadEffect, ActorNames, RequestNames, ActorCases, RecordTypes
  DEF Slotted, Moves, ThrowMoves, Over, StoreSame, Slots
<1>19. ASSUME SyncRetrySend PROVE Slotted'
  BY <1>19, <1>0, SyncRetrySendEffect, SubmitEffect, ActorNames, RequestNames, ActorCases,
     RecordTypes
  DEF Slotted, Moves, ThrowMoves, Over, StoreSame, Slots
<1>20. ASSUME RetryRead PROVE Slotted'
  BY <1>20, <1>0, RetryReadEffect, ActorNames, RequestNames, ActorCases, RecordTypes
  DEF Slotted, Moves, ThrowMoves, Over, StoreSame, Slots
<1>21. ASSUME NEW a \in Actors, Store(a) PROVE Slotted'
  BY <1>21, <1>0, StoreEffect, ActorNames, RequestNames, ActorCases, RecordTypes
  DEF Slotted, Moves, ThrowMoves, Over, StoreSame, Slots
<1>22. ASSUME NEW a \in Actors, Hook(a) PROVE Slotted'
  BY <1>22, <1>0, HookEffect, ActorNames, RequestNames, ActorCases, RecordTypes
  DEF Slotted, Moves, ThrowMoves, Over, StoreSame, Slots
<1>23. ASSUME NEW a \in Actors, AddMine(a) PROVE Slotted'
  BY <1>23, <1>0, AddMineEffect, ActorNames, RequestNames, ActorCases, RecordTypes
  DEF Slotted, Moves, ThrowMoves, Over, StoreSame, Slots
<1>24. ASSUME NEW a \in Actors, AddSend(a) PROVE Slotted'
  BY <1>24, <1>0, AddSendEffect, ActorNames, RequestNames, ActorCases, RecordTypes
  DEF Slotted, Moves, ThrowMoves, Over, StoreSame, Slots
<1>25. ASSUME NEW a \in Actors, Crash(a) PROVE Slotted'
  BY <1>25, <1>0, CrashEffect, ActorNames, RequestNames, ActorCases, RecordTypes
  DEF Slotted, Moves, ThrowMoves, Over, StoreSame, Slots
<1>26. ASSUME MineBlock PROVE Slotted'
  BY <1>26, <1>0 DEF MineBlock, Slotted
<1>27. ASSUME OtherTakes PROVE Slotted'
  BY <1>27, <1>0 DEF OtherTakes, Slotted
<1>28. ASSUME UNCHANGED vars PROVE Slotted'
  BY <1>28, <1>0 DEF vars, Slotted
<1>29. ASSUME NEW r \in Resends, SendLate(r) PROVE Slotted'
  BY <1>29, <1>0, SendLateEffect, ActorNames, RequestNames, ActorCases, RecordTypes
  DEF Slotted, ThrowMoves, StoreSame
<1> QED BY <1>1, <1>2, <1>3, <1>4, <1>5, <1>6, <1>7, <1>8, <1>9, <1>10, <1>11, <1>12, <1>13,
    <1>14, <1>15, <1>16, <1>17, <1>18, <1>19, <1>20, <1>21, <1>22, <1>23, <1>24, <1>25,
    <1>26, <1>27, <1>28, <1>29
    DEF Next, Undisturbed, WorkerStep, SendStep, MineStep, ApiStep, ActorStep

\* The initial state has its types.
LEMMA TypeInit == Init => TypeInv
<1> SUFFICES ASSUME Init PROVE TypeInv
  OBVIOUS
<1>1. /\ Idle \in Locs /\ Idle.pc = "idle" /\ Idle.rec = NoRecord
      /\ [Idle EXCEPT !.pc = "read"] \in Locs
      /\ [Idle EXCEPT !.pc = "read"].pc = "read" /\ [Idle EXCEPT !.pc = "read"].rec = NoRecord
  BY RecordTypes DEF Idle, Locs, PCs
<1>2. /\ loc \in [Actors -> Locs]
      /\ \A a \in Actors : loc[a].rec = NoRecord /\ loc[a].pc \in {"idle", "read"}
      /\ \A a \in Actors \ Requests : loc[a].pc = "idle"
  BY <1>1 DEF Init
<1>3. TypeOK
  BY <1>2, RecordTypes, LifecycleAssumption DEF Init, TypeOK, Locs, Hashes, Slots
<1>4. Pcs
  BY <1>2, ActorNames, RequestNames, LifecycleAssumption DEF Pcs
<1>5. JobsRun
  <2>1. \A j \in Jobs : loc[j].pc = "idle"
    BY <1>2, ActorNames, ActorCases, LifecycleAssumption
  <2> QED BY <2>1, RecordTypes DEF Init, JobsRun
<1>6. Slotted
  BY <1>2, RecordTypes, ActorNames, LifecycleAssumption DEF Init, Slotted
<1> QED BY <1>3, <1>4, <1>5, <1>6 DEF TypeInv

\* All four together.
LEMMA TypeInvariant == Spec => []TypeInv
<1>1. TypeInv /\ [Next]_vars => TypeInv'
  BY TypeStep, PcsStep, JobsRunStep, SlottedStep DEF TypeInv
<1> QED BY TypeInit, <1>1, PTL DEF Spec

\* Type correctness: records, jobs, actors and the chain keep their types, for
\* every instance; no bound of the model is ever exceeded by a value it stores.
THEOREM TypeCorrect == Spec => []TypeOK
<1>1. TypeInv => TypeOK
  BY DEF TypeInv
<1> QED BY <1>1, TypeInvariant, PTL

----------------------------------------------------------------------------
(* "mined" is true                                                         *)

\* Hashes are numbered in the order they are submitted.
Numbered ==
  /\ \E n \in 0..MaxHashes : Submitted = 1..n
  /\ cancels \subseteq Submitted

\* Nothing that was submitted, or executed, is taken back or becomes a cancellation.
ChainGrows ==
  /\ Numbered' /\ Submitted \ cancels \subseteq Submitted' \ cancels'
     /\ Executed \subseteq Executed'

\* The next hash is new, and its submission is all that changes.
LEMMA SubmitGrows ==
  ASSUME TypeOK, Numbered, NEW s, Submit(s, NextHash),
         cancels' \subseteq cancels \cup {NextHash}, cancels \subseteq cancels'
  PROVE  /\ ChainGrows /\ NextHash \notin Submitted /\ NextHash \notin cancels
         /\ Submitted' = Submitted \cup {NextHash}
<1>1. PICK n \in 0..MaxHashes : Submitted = 1..n
  BY DEF Numbered
<1>2. Cardinality(1..n) = n
  BY FS_Interval, LifecycleAssumption
<1>3. NextHash = n + 1 /\ NextHash \in Hashes /\ s \in Slots /\ mined' = mined
  BY <1>1, <1>2, SubmitEffect DEF NextHash
<1>4. NextHash \notin Submitted /\ NextHash \notin cancels
  BY <1>1, <1>3 DEF Numbered
<1>5. Submitted' = Submitted \cup {NextHash}
  <2>1. /\ slotOf'[NextHash] = s /\ s # 0 /\ NextHash \in Hashes
        /\ \A i \in Hashes : i # NextHash => slotOf'[i] = slotOf[i]
    BY <1>3, SubmitEffect DEF Slots
  <2> QED BY <2>1 DEF Submitted
<1>6. Submitted' = 1..(n + 1) /\ n + 1 \in 0..MaxHashes
  BY <1>1, <1>3, <1>5, LifecycleAssumption DEF Hashes
<1>7. Executed \subseteq Executed'
  BY <1>3, <1>4, <1>5 DEF Executed
<1> QED BY <1>4, <1>5, <1>6, <1>7 DEF ChainGrows, Numbered

\* A step that leaves the chain alone.
LEMMA ChainKept ==
  ASSUME Numbered, UNCHANGED <<slotOf, cancels, mined>>
  PROVE  ChainGrows
<1>1. Submitted' = Submitted
  BY DEF Submitted
<1>2. Executed' = Executed
  BY <1>1 DEF Executed
<1> QED BY <1>1, <1>2 DEF ChainGrows, Numbered

\* The chain only grows.
LEMMA ChainStep ==
  ASSUME TypeInv, Numbered, [Next]_vars
  PROVE  ChainGrows
<1>0. TypeOK /\ Pcs /\ JobsRun /\ Numbered
  BY DEF TypeInv
<1>1. ASSUME NEW j \in Jobs, StartJob(j) PROVE ChainGrows
  BY <1>1, <1>0, StartJobEffect, ChainKept DEF ChainSame
<1>2. ASSUME NEW r \in Resends, SendRead(r) PROVE ChainGrows
  BY <1>2, <1>0, SendReadEffect, ChainKept DEF ChainSame
<1>3. ASSUME NEW r \in Resends, SendFirst(r) PROVE ChainGrows
  <2>1. CASE Submit(NextSlot, NextHash) /\ cancels' = cancels
    BY <1>0, <2>1, SubmitGrows DEF ChainGrows
  <2>2. CASE ChainSame
    BY <1>0, <2>2, ChainKept DEF ChainSame
  <2> QED BY <1>3, <1>0, <2>1, <2>2, SendFirstEffect
<1>4. ASSUME NEW r \in Resends, SendAgain(r) PROVE ChainGrows
  <2>1. CASE Submit(loc[Send(r)].rec.slot, NextHash) /\ cancels' = cancels
    BY <1>0, <2>1, SubmitGrows DEF ChainGrows
  <2>2. CASE ChainSame
    BY <1>0, <2>2, ChainKept DEF ChainSame
  <2> QED BY <1>4, <1>0, <2>1, <2>2, SendAgainEffect
<1>5. ASSUME NEW r \in Resends, SendFailedRead(r) PROVE ChainGrows
  BY <1>5, <1>0, SendFailedReadEffect, ChainKept DEF ChainSame
<1>6. ASSUME MineRead PROVE ChainGrows
  BY <1>6, <1>0, MineReadEffect, ChainKept DEF ChainSame
<1>7. ASSUME MineFound PROVE ChainGrows
  BY <1>7, <1>0, MineFoundEffect, ChainKept DEF ChainSame
<1>8. ASSUME MineNotYet PROVE ChainGrows
  BY <1>8, <1>0, MineNotYetEffect, ChainKept DEF ChainSame
<1>9. ASSUME MineFailedRead PROVE ChainGrows
  BY <1>9, <1>0, MineFailedReadEffect, ChainKept DEF ChainSame
<1>10. ASSUME MineFailedRelease PROVE ChainGrows
  BY <1>10, <1>0, MineFailedReleaseEffect, ChainKept
<1>11. ASSUME NEW a \in AllRequests, InsertRead(a) PROVE ChainGrows
  BY <1>11, <1>0, InsertReadEffect, ChainKept DEF ChainSame
<1>12. ASSUME CancelRead PROVE ChainGrows
  BY <1>12, <1>0, CancelReadEffect, ChainKept DEF ChainSame
<1>13. ASSUME CancelRemove PROVE ChainGrows
  BY <1>13, <1>0, CancelRemoveEffect, ChainKept DEF ChainSame
<1>14. ASSUME CancelSend PROVE ChainGrows
  <2>1. CASE Submit(loc[Cancel].rec.slot, NextHash) /\ cancels' = cancels \cup {NextHash}
    BY <1>0, <2>1, SubmitGrows DEF ChainGrows
  <2>2. CASE ChainSame
    BY <1>0, <2>2, ChainKept DEF ChainSame
  <2> QED BY <1>14, <1>0, <2>1, <2>2, CancelSendEffect
<1>15. ASSUME RetryFailedRead PROVE ChainGrows
  BY <1>15, <1>0, RetryFailedReadEffect, ChainKept DEF ChainSame
<1>16. ASSUME RetryFailedCheck PROVE ChainGrows
  BY <1>16, <1>0, RetryFailedCheckEffect, ChainKept DEF ChainSame
<1>17. ASSUME RetryFailedRemove PROVE ChainGrows
  BY <1>17, <1>0, RetryFailedRemoveEffect, ChainKept DEF ChainSame
<1>18. ASSUME SyncRetryRead PROVE ChainGrows
  BY <1>18, <1>0, SyncRetryReadEffect, ChainKept DEF ChainSame
<1>19. ASSUME SyncRetrySend PROVE ChainGrows
  <2>1. CASE Submit(loc[SyncRetry].rec.slot, NextHash) /\ cancels' = cancels
    BY <1>0, <2>1, SubmitGrows DEF ChainGrows
  <2>2. CASE ChainSame
    BY <1>0, <2>2, ChainKept DEF ChainSame
  <2> QED BY <1>19, <1>0, <2>1, <2>2, SyncRetrySendEffect
<1>20. ASSUME RetryRead PROVE ChainGrows
  BY <1>20, <1>0, RetryReadEffect, ChainKept DEF ChainSame
<1>21. ASSUME NEW a \in Actors, Store(a) PROVE ChainGrows
  BY <1>21, <1>0, StoreEffect, ChainKept DEF ChainSame
<1>22. ASSUME NEW a \in Actors, Hook(a) PROVE ChainGrows
  BY <1>22, <1>0, HookEffect, ChainKept DEF ChainSame
<1>23. ASSUME NEW a \in Actors, AddMine(a) PROVE ChainGrows
  BY <1>23, <1>0, AddMineEffect, ChainKept DEF ChainSame
<1>24. ASSUME NEW a \in Actors, AddSend(a) PROVE ChainGrows
  BY <1>24, <1>0, AddSendEffect, ChainKept DEF ChainSame
<1>25. ASSUME NEW a \in Actors, Crash(a) PROVE ChainGrows
  BY <1>25, <1>0, CrashEffect, ChainKept DEF ChainSame
<1>26. ASSUME MineBlock PROVE ChainGrows
  <2>1. Submitted' = Submitted /\ cancels' = cancels
    BY <1>26 DEF MineBlock, Submitted
  <2>2. PICK s \in Slots, h \in Submitted : mined[s] = 0 /\ mined' = [mined EXCEPT ![s] = h]
    BY <1>26 DEF MineBlock
  <2>3. 0 \notin Submitted
    BY DEF Submitted, Hashes
  <2>4. Executed \subseteq Executed'
    BY <1>0, <2>1, <2>2, <2>3 DEF Executed, TypeOK
  <2> QED BY <1>0, <2>1, <2>4 DEF ChainGrows, Numbered
<1>27. ASSUME OtherTakes PROVE ChainGrows
  <2>1. Submitted' = Submitted /\ cancels' = cancels
    BY <1>27 DEF OtherTakes, Submitted
  <2>2. PICK s \in released : mined[s] = 0 /\ mined' = [mined EXCEPT ![s] = -1]
    BY <1>27 DEF OtherTakes
  <2>3. 0 \notin Submitted /\ s \in Slots
    BY <1>0 DEF Submitted, Hashes, TypeOK
  <2>4. Executed \subseteq Executed'
    BY <1>0, <2>1, <2>2, <2>3 DEF Executed, TypeOK
  <2> QED BY <1>0, <2>1, <2>4 DEF ChainGrows, Numbered
<1>28. ASSUME UNCHANGED vars PROVE ChainGrows
  BY <1>28, <1>0, ChainKept DEF vars
<1>29. ASSUME NEW r \in Resends, SendLate(r) PROVE ChainGrows
  BY <1>29, <1>0, SendLateEffect, SubmitGrows DEF ChainGrows
<1> QED BY <1>1, <1>2, <1>3, <1>4, <1>5, <1>6, <1>7, <1>8, <1>9, <1>10, <1>11, <1>12, <1>13,
    <1>14, <1>15, <1>16, <1>17, <1>18, <1>19, <1>20, <1>21, <1>22, <1>23, <1>24, <1>25,
    <1>26, <1>27, <1>28, <1>29
    DEF Next, Undisturbed, WorkerStep, SendStep, MineStep, ApiStep, ActorStep

\* What may be said of a record: a sent or mined one names only transactions
\* of the user, a mined one only if one of them was executed.
Fine(rec) ==
  /\ rec.status \in {"sent", "mined"} => rec.hashes \subseteq Submitted \ cancels
  /\ rec.status = "mined" => Executed # {}

\* The same of a record in the next state.
FineNext(rec) ==
  /\ rec.status \in {"sent", "mined"} => rec.hashes \subseteq Submitted' \ cancels'
  /\ rec.status = "mined" => Executed' # {}

\* Every record that is stored or held, and every webhook, is fine.
Honest ==
  /\ Fine(db) /\ \A a \in Actors : Fine(loc[a].rec)
  /\ loc[Mine].pc = "act" => loc[Mine].rec.status = "sent"
  /\ "mined" \in hooks => Executed # {}

\* A step keeps Honest if the records it leaves behind are fine.
LEMMA HonestIf ==
  ASSUME Honest, ChainGrows, FineNext(db'),
         \A a \in Actors : loc'[a].rec = loc[a].rec \/ FineNext(loc'[a].rec),
         loc'[Mine].pc = "act" => loc'[Mine].rec.status = "sent",
         "mined" \in hooks' => "mined" \in hooks \/ Executed' # {}
  PROVE  Honest'
<1>1. \A rec : Fine(rec) => FineNext(rec)
  BY DEF ChainGrows, Fine, FineNext
<1>2. FineNext(db') /\ \A a \in Actors : FineNext(loc'[a].rec)
  BY <1>1 DEF Honest
<1>3. "mined" \in hooks' => Executed' # {}
  BY DEF Honest, ChainGrows
<1> QED BY <1>2, <1>3 DEF Honest, Fine, FineNext

\* Every step keeps records and webhooks honest.
LEMMA HonestStep ==
  ASSUME TypeInv, Numbered, Honest, [Next]_vars
  PROVE  Honest'
<1>0. /\ TypeOK /\ Pcs /\ JobsRun /\ Numbered /\ Honest /\ ChainGrows
      /\ FineNext(db) /\ \A a \in Actors : FineNext(loc[a].rec)
  <2>1. ChainGrows
    BY ChainStep
  <2>2. \A rec : Fine(rec) => FineNext(rec)
    BY <2>1 DEF ChainGrows, Fine, FineNext
  <2> QED BY <2>1, <2>2 DEF TypeInv, Honest
<1>1. ASSUME NEW j \in Jobs, StartJob(j) PROVE Honest'
  BY <1>1, <1>0, StartJobEffect, HonestIf, ActorNames, RequestNames, RecordTypes
  DEF Moves, ThrowMoves, StoreSame, Honest, FineNext
<1>2. ASSUME NEW r \in Resends, SendRead(r) PROVE Honest'
  BY <1>2, <1>0, SendReadEffect, HonestIf, ActorNames, RequestNames, RecordTypes
  DEF Moves, ThrowMoves, StoreSame, Honest, FineNext
<1>3. ASSUME NEW r \in Resends, SendFirst(r) PROVE Honest'
  <2>1. ASSUME Submit(NextSlot, NextHash), cancels' = cancels
        PROVE  NextHash \in Submitted' \ cancels'
    BY <1>0, <2>1, SubmitGrows
  <2>2. /\ FineNext(db') /\ hooks' = hooks
        /\ \A b \in Actors : loc'[b].rec = loc[b].rec \/ FineNext(loc'[b].rec)
    BY <1>3, <1>0, <2>1, SendFirstEffect, RecordTypes DEF Moves, ThrowMoves, StoreSame, FineNext
  <2>3. loc'[Mine] = loc[Mine]
    BY <1>3, <1>0, SendFirstEffect, ActorNames DEF Moves, ThrowMoves
  <2> QED BY <1>0, <2>2, <2>3, HonestIf DEF Honest
<1>4. ASSUME NEW r \in Resends, SendAgain(r) PROVE Honest'
  <2>1. ASSUME Submit(loc[Send(r)].rec.slot, NextHash), cancels' = cancels
        PROVE  NextHash \in Submitted' \ cancels'
    BY <1>0, <2>1, SubmitGrows
  <2> QED BY <1>4, <1>0, <2>1, SendAgainEffect, HonestIf, ActorNames, RequestNames, RecordTypes
      DEF Moves, ThrowMoves, StoreSame, Honest, FineNext, Fine
<1>5. ASSUME NEW r \in Resends, SendFailedRead(r) PROVE Honest'
  BY <1>5, <1>0, SendFailedReadEffect, HonestIf, ActorNames, RequestNames, RecordTypes
  DEF Moves, ThrowMoves, StoreSame, Honest, FineNext
<1>6. ASSUME MineRead PROVE Honest'
  BY <1>6, <1>0, MineReadEffect, HonestIf, ActorNames, RequestNames, RecordTypes
  DEF Moves, ThrowMoves, StoreSame, Honest, FineNext
<1>7. ASSUME MineFound PROVE Honest'
  <2>1. loc[Mine].rec.hashes \subseteq Submitted \ cancels /\ Executed # {}
    BY <1>7, <1>0, MineFoundEffect, ActorNames DEF Honest, Fine, HasReceipt, Executed
  <2> QED BY <1>7, <1>0, <2>1, MineFoundEffect, HonestIf, ActorNames, RequestNames, RecordTypes
      DEF Moves, ThrowMoves, StoreSame, Honest, FineNext, ChainGrows
<1>8. ASSUME MineNotYet PROVE Honest'
  BY <1>8, <1>0, MineNotYetEffect, HonestIf, ActorNames, RequestNames, RecordTypes
  DEF Moves, ThrowMoves, StoreSame, Honest, FineNext
<1>9. ASSUME MineFailedRead PROVE Honest'
  BY <1>9, <1>0, MineFailedReadEffect, HonestIf, ActorNames, RequestNames, RecordTypes
  DEF Moves, ThrowMoves, StoreSame, Honest, FineNext
<1>10. ASSUME MineFailedRelease PROVE Honest'
  BY <1>10, <1>0, MineFailedReleaseEffect, HonestIf, ActorNames, RequestNames, RecordTypes
  DEF Moves, ThrowMoves, StoreSame, Honest, FineNext
<1>11. ASSUME NEW a \in AllRequests, InsertRead(a) PROVE Honest'
  BY <1>11, <1>0, InsertReadEffect, HonestIf, ActorNames, RequestNames, RecordTypes
  DEF Moves, ThrowMoves, StoreSame, Honest, FineNext
<1>12. ASSUME CancelRead PROVE Honest'
  BY <1>12, <1>0, CancelReadEffect, HonestIf, ActorNames, RequestNames, RecordTypes
  DEF Moves, ThrowMoves, StoreSame, Honest, FineNext
<1>13. ASSUME CancelRemove PROVE Honest'
  BY <1>13, <1>0, CancelRemoveEffect, HonestIf, ActorNames, RequestNames, RecordTypes
  DEF Moves, ThrowMoves, StoreSame, Honest, FineNext
<1>14. ASSUME CancelSend PROVE Honest'
  BY <1>14, <1>0, CancelSendEffect, HonestIf, ActorNames, RequestNames, RecordTypes
  DEF Moves, ThrowMoves, StoreSame, Honest, FineNext
<1>15. ASSUME RetryFailedRead PROVE Honest'
  BY <1>15, <1>0, RetryFailedReadEffect, HonestIf, ActorNames, RequestNames, RecordTypes
  DEF Moves, ThrowMoves, StoreSame, Honest, FineNext
<1>16. ASSUME RetryFailedCheck PROVE Honest'
  BY <1>16, <1>0, RetryFailedCheckEffect, HonestIf, ActorNames, RequestNames, RecordTypes
  DEF Moves, ThrowMoves, StoreSame, Honest, FineNext
<1>17. ASSUME RetryFailedRemove PROVE Honest'
  BY <1>17, <1>0, RetryFailedRemoveEffect, HonestIf, ActorNames, RequestNames, RecordTypes
  DEF Moves, ThrowMoves, StoreSame, Honest, FineNext
<1>18. ASSUME SyncRetryRead PROVE Honest'
  BY <1>18, <1>0, SyncRetryReadEffect, HonestIf, ActorNames, RequestNames, RecordTypes
  DEF Moves, ThrowMoves, StoreSame, Honest, FineNext
<1>19. ASSUME SyncRetrySend PROVE Honest'
  <2>1. ASSUME Submit(loc[SyncRetry].rec.slot, NextHash), cancels' = cancels
        PROVE  NextHash \in Submitted' \ cancels'
    BY <1>0, <2>1, SubmitGrows
  <2> QED BY <1>19, <1>0, <2>1, SyncRetrySendEffect, HonestIf, ActorNames, RequestNames,
         RecordTypes
      DEF Moves, ThrowMoves, StoreSame, Honest, FineNext, Fine
<1>20. ASSUME RetryRead PROVE Honest'
  BY <1>20, <1>0, RetryReadEffect, HonestIf, ActorNames, RequestNames, RecordTypes
  DEF Moves, ThrowMoves, StoreSame, Honest, FineNext
<1>21. ASSUME NEW a \in Actors, Store(a) PROVE Honest'
  BY <1>21, <1>0, StoreEffect, HonestIf, ActorNames, RequestNames, RecordTypes
  DEF Moves, ThrowMoves, StoreSame, Honest, FineNext
<1>22. ASSUME NEW a \in Actors, Hook(a) PROVE Honest'
  <2>1. loc[a].rec.status = "mined" => Executed' # {}
    BY <1>0 DEF FineNext
  <2>2. "mined" \in hooks' => "mined" \in hooks \/ Executed' # {}
    BY <1>22, <1>0, <2>1, HookEffect
  <2>3. FineNext(db') /\ \A b \in Actors : loc'[b].rec = loc[b].rec \/ FineNext(loc'[b].rec)
    BY <1>22, <1>0, HookEffect, RecordTypes DEF Moves, FineNext
  <2>4. loc'[Mine].pc = "act" => loc'[Mine] = loc[Mine]
    BY <1>22, <1>0, HookEffect, ActorNames DEF Moves, Over
  <2> QED BY <1>0, <2>2, <2>3, <2>4, HonestIf DEF Honest
<1>23. ASSUME NEW a \in Actors, AddMine(a) PROVE Honest'
  BY <1>23, <1>0, AddMineEffect, HonestIf, ActorNames, RequestNames, RecordTypes
  DEF Moves, ThrowMoves, StoreSame, Honest, FineNext
<1>24. ASSUME NEW a \in Actors, AddSend(a) PROVE Honest'
  BY <1>24, <1>0, AddSendEffect, HonestIf, ActorNames, RequestNames, RecordTypes
  DEF Moves, ThrowMoves, StoreSame, Honest, FineNext
<1>25. ASSUME NEW a \in Actors, Crash(a) PROVE Honest'
  BY <1>25, <1>0, CrashEffect, HonestIf, ActorNames, RequestNames, RecordTypes
  DEF Moves, ThrowMoves, StoreSame, Honest, FineNext, Over
<1>26. ASSUME MineBlock PROVE Honest'
  BY <1>26, <1>0, HonestIf DEF MineBlock, Honest
<1>27. ASSUME OtherTakes PROVE Honest'
  BY <1>27, <1>0, HonestIf DEF OtherTakes, Honest
<1>28. ASSUME UNCHANGED vars PROVE Honest'
  BY <1>28, <1>0, HonestIf DEF vars, Honest
<1>29. ASSUME NEW r \in Resends, SendLate(r) PROVE Honest'
  <2>1. /\ FineNext(db') /\ hooks' = hooks
        /\ \A b \in Actors : loc'[b].rec = loc[b].rec \/ FineNext(loc'[b].rec)
    BY <1>29, <1>0, SendLateEffect, RecordTypes DEF ThrowMoves, StoreSame, FineNext
  <2>2. loc'[Mine] = loc[Mine]
    BY <1>29, <1>0, SendLateEffect, ActorNames DEF ThrowMoves
  <2> QED BY <1>0, <2>1, <2>2, HonestIf DEF Honest
<1> QED BY <1>1, <1>2, <1>3, <1>4, <1>5, <1>6, <1>7, <1>8, <1>9, <1>10, <1>11, <1>12, <1>13,
    <1>14, <1>15, <1>16, <1>17, <1>18, <1>19, <1>20, <1>21, <1>22, <1>23, <1>24, <1>25,
    <1>26, <1>27, <1>28, <1>29
    DEF Next, Undisturbed, WorkerStep, SendStep, MineStep, ApiStep, ActorStep

\* "mined" is never wrong: whatever is resent, cancelled or retried, and
\* whatever fails, a record is stored as mined, and its webhook enqueued, only
\* after the user's own transaction was executed.
THEOREM MinedIsTrueAlways == Spec => []MinedIsTrue
<1>1. Init => Numbered /\ Honest
  <2> SUFFICES ASSUME Init PROVE Numbered /\ Honest
    OBVIOUS
  <2>1. Submitted = {} /\ 1..0 = {} /\ 0 \in 0..MaxHashes
    BY LifecycleAssumption DEF Init, Submitted
  <2>2. \A a \in Actors : loc[a].rec = NoRecord /\ loc[a].pc \in {"idle", "read"}
    BY DEF Init, Idle
  <2> QED BY <2>1, <2>2, ActorNames, RecordTypes DEF Init, Numbered, Honest, Fine
<1>2. TypeInv /\ Numbered /\ Honest /\ [Next]_vars => Numbered' /\ Honest'
  BY ChainStep, HonestStep DEF ChainGrows
<1>3. Numbered /\ Honest => MinedIsTrue
  BY DEF Honest, Fine, MinedIsTrue
<1> QED BY <1>1, <1>2, <1>3, TypeInvariant, PTL DEF Spec

----------------------------------------------------------------------------
(* Outcomes are announced                                                  *)

\* An actor at l is about to enqueue the webhook of status st.
AboutTo(a, l, st) == l.rec.status = st /\ (l.pc = "hook" \/ (a = SyncRetry /\ l.pc = "addMine"))

\* The webhook of st was enqueued, or is about to be ...
Announced(st) == st \in hooks \/ \E a \in Actors : AboutTo(a, loc[a], st)

\* ... and the same in the next state.
AnnouncedNext(st) == st \in hooks' \/ \E a \in Actors : AboutTo(a, loc'[a], st)

\* The stored status is announced, and so is the one retry is about to store,
\* which enqueues no webhook itself; an insert stores a queued record.
Announcing ==
  /\ db.status \notin {"none", "queued"} => Announced(db.status)
  /\ loc[Retry].pc = "store" => loc[Retry].rec.status = "sent" /\ Announced("sent")
  /\ \A a \in AllRequests : a[1] = "insert" /\ loc[a].pc = "store" => loc[a].rec.status = "queued"

\* Who is about to enqueue a webhook goes on or has done it.
OnItsWay ==
  \A b \in Actors : \A st : AboutTo(b, loc[b], st) => AboutTo(b, loc'[b], st) \/ st \in hooks'

\* What was announced stays so.
LEMMA AnnouncedKept ==
  ASSUME OnItsWay, hooks \subseteq hooks', NEW st, Announced(st)
  PROVE  AnnouncedNext(st)
  BY DEF OnItsWay, Announced, AnnouncedNext

\* A step that does not write the record keeps Announcing.
LEMMA AnnouncingIf ==
  ASSUME Announcing, OnItsWay, hooks \subseteq hooks', db' = db,
         loc'[Retry].pc = "store" => \/ loc'[Retry] = loc[Retry]
                                     \/ loc'[Retry].rec = db /\ db.status = "sent",
         \A a \in AllRequests : a[1] = "insert" /\ loc'[a].pc = "store" =>
                                  loc'[a] = loc[a] \/ loc'[a].rec.status = "queued"
  PROVE  Announcing'
<1>1. \A st : Announced(st) => AnnouncedNext(st)
  BY AnnouncedKept
<1>2. db'.status \notin {"none", "queued"} => AnnouncedNext(db'.status)
  BY <1>1 DEF Announcing
<1>3. loc'[Retry].pc = "store" => loc'[Retry].rec.status = "sent" /\ AnnouncedNext("sent")
  BY <1>1 DEF Announcing
<1>4. \A a \in AllRequests : a[1] = "insert" /\ loc'[a].pc = "store"
      => loc'[a].rec.status = "queued"
  BY DEF Announcing
<1> QED BY <1>2, <1>3, <1>4 DEF Announcing, Announced, AnnouncedNext

\* Every step keeps Announcing.
LEMMA AnnouncingStep ==
  ASSUME TypeInv, Announcing, HooksFollow, [Next]_vars
  PROVE  Announcing'
<1>0. TypeOK /\ Pcs /\ JobsRun /\ Announcing
  BY DEF TypeInv
<1>1. ASSUME NEW j \in Jobs, StartJob(j) PROVE Announcing'
  <2>1. OnItsWay
    BY <1>1, <1>0, StartJobEffect, ActorNames, RequestNames
    DEF OnItsWay, AboutTo, Moves, ThrowMoves, JobsRun
  <2>2. /\ loc'[Retry].pc = "store" => \/ loc'[Retry] = loc[Retry]
                                       \/ loc'[Retry].rec = db /\ db.status = "sent"
        /\ \A b \in AllRequests : b[1] = "insert" /\ loc'[b].pc = "store" =>
                                   loc'[b] = loc[b] \/ loc'[b].rec.status = "queued"
    BY <1>1, <1>0, StartJobEffect, ActorNames, RequestNames DEF Moves, ThrowMoves
  <2> QED BY <1>1, <1>0, <2>1, <2>2, StartJobEffect, AnnouncingIf DEF StoreSame
<1>2. ASSUME NEW r \in Resends, SendRead(r) PROVE Announcing'
  <2>1. OnItsWay
    BY <1>2, <1>0, SendReadEffect, ActorNames, RequestNames
    DEF OnItsWay, AboutTo, Moves, ThrowMoves
  <2>2. /\ loc'[Retry].pc = "store" => \/ loc'[Retry] = loc[Retry]
                                       \/ loc'[Retry].rec = db /\ db.status = "sent"
        /\ \A b \in AllRequests : b[1] = "insert" /\ loc'[b].pc = "store" =>
                                   loc'[b] = loc[b] \/ loc'[b].rec.status = "queued"
    BY <1>2, <1>0, SendReadEffect, ActorNames, RequestNames DEF Moves, ThrowMoves
  <2> QED BY <1>2, <1>0, <2>1, <2>2, SendReadEffect, AnnouncingIf DEF StoreSame
<1>3. ASSUME NEW r \in Resends, SendFirst(r) PROVE Announcing'
  <2>1. OnItsWay
    BY <1>3, <1>0, SendFirstEffect, ActorNames, RequestNames
    DEF OnItsWay, AboutTo, Moves, ThrowMoves
  <2>2. /\ loc'[Retry].pc = "store" => \/ loc'[Retry] = loc[Retry]
                                       \/ loc'[Retry].rec = db /\ db.status = "sent"
        /\ \A b \in AllRequests : b[1] = "insert" /\ loc'[b].pc = "store" =>
                                   loc'[b] = loc[b] \/ loc'[b].rec.status = "queued"
    BY <1>3, <1>0, SendFirstEffect, ActorNames, RequestNames DEF Moves, ThrowMoves
  <2> QED BY <1>3, <1>0, <2>1, <2>2, SendFirstEffect, AnnouncingIf DEF StoreSame
<1>4. ASSUME NEW r \in Resends, SendAgain(r) PROVE Announcing'
  <2>1. OnItsWay
    BY <1>4, <1>0, SendAgainEffect, ActorNames, RequestNames
    DEF OnItsWay, AboutTo, Moves, ThrowMoves
  <2>2. /\ loc'[Retry].pc = "store" => \/ loc'[Retry] = loc[Retry]
                                       \/ loc'[Retry].rec = db /\ db.status = "sent"
        /\ \A b \in AllRequests : b[1] = "insert" /\ loc'[b].pc = "store" =>
                                   loc'[b] = loc[b] \/ loc'[b].rec.status = "queued"
    BY <1>4, <1>0, SendAgainEffect, ActorNames, RequestNames DEF Moves, ThrowMoves
  <2> QED BY <1>4, <1>0, <2>1, <2>2, SendAgainEffect, AnnouncingIf DEF StoreSame
<1>5. ASSUME NEW r \in Resends, SendFailedRead(r) PROVE Announcing'
  <2>1. OnItsWay
    BY <1>5, <1>0, SendFailedReadEffect, ActorNames, RequestNames
    DEF OnItsWay, AboutTo, Moves, ThrowMoves
  <2>2. /\ loc'[Retry].pc = "store" => \/ loc'[Retry] = loc[Retry]
                                       \/ loc'[Retry].rec = db /\ db.status = "sent"
        /\ \A b \in AllRequests : b[1] = "insert" /\ loc'[b].pc = "store" =>
                                   loc'[b] = loc[b] \/ loc'[b].rec.status = "queued"
    BY <1>5, <1>0, SendFailedReadEffect, ActorNames, RequestNames DEF Moves, ThrowMoves
  <2> QED BY <1>5, <1>0, <2>1, <2>2, SendFailedReadEffect, AnnouncingIf DEF StoreSame
<1>6. ASSUME MineRead PROVE Announcing'
  <2>1. OnItsWay
    BY <1>6, <1>0, MineReadEffect, ActorNames, RequestNames
    DEF OnItsWay, AboutTo, Moves, ThrowMoves
  <2>2. /\ loc'[Retry].pc = "store" => \/ loc'[Retry] = loc[Retry]
                                       \/ loc'[Retry].rec = db /\ db.status = "sent"
        /\ \A b \in AllRequests : b[1] = "insert" /\ loc'[b].pc = "store" =>
                                   loc'[b] = loc[b] \/ loc'[b].rec.status = "queued"
    BY <1>6, <1>0, MineReadEffect, ActorNames, RequestNames DEF Moves, ThrowMoves
  <2> QED BY <1>6, <1>0, <2>1, <2>2, MineReadEffect, AnnouncingIf DEF StoreSame
<1>7. ASSUME MineFound PROVE Announcing'
  <2>1. OnItsWay
    BY <1>7, <1>0, MineFoundEffect, ActorNames, RequestNames
    DEF OnItsWay, AboutTo, Moves, ThrowMoves
  <2>2. /\ loc'[Retry].pc = "store" => \/ loc'[Retry] = loc[Retry]
                                       \/ loc'[Retry].rec = db /\ db.status = "sent"
        /\ \A b \in AllRequests : b[1] = "insert" /\ loc'[b].pc = "store" =>
                                   loc'[b] = loc[b] \/ loc'[b].rec.status = "queued"
    BY <1>7, <1>0, MineFoundEffect, ActorNames, RequestNames DEF Moves, ThrowMoves
  <2> QED BY <1>7, <1>0, <2>1, <2>2, MineFoundEffect, AnnouncingIf DEF StoreSame
<1>8. ASSUME MineNotYet PROVE Announcing'
  <2>1. OnItsWay
    BY <1>8, <1>0, MineNotYetEffect, ActorNames, RequestNames
    DEF OnItsWay, AboutTo, Moves, ThrowMoves
  <2>2. /\ loc'[Retry].pc = "store" => \/ loc'[Retry] = loc[Retry]
                                       \/ loc'[Retry].rec = db /\ db.status = "sent"
        /\ \A b \in AllRequests : b[1] = "insert" /\ loc'[b].pc = "store" =>
                                   loc'[b] = loc[b] \/ loc'[b].rec.status = "queued"
    BY <1>8, <1>0, MineNotYetEffect, ActorNames, RequestNames DEF Moves, ThrowMoves
  <2> QED BY <1>8, <1>0, <2>1, <2>2, MineNotYetEffect, AnnouncingIf DEF StoreSame
<1>9. ASSUME MineFailedRead PROVE Announcing'
  <2>1. OnItsWay
    BY <1>9, <1>0, MineFailedReadEffect, ActorNames, RequestNames
    DEF OnItsWay, AboutTo, Moves, ThrowMoves
  <2>2. /\ loc'[Retry].pc = "store" => \/ loc'[Retry] = loc[Retry]
                                       \/ loc'[Retry].rec = db /\ db.status = "sent"
        /\ \A b \in AllRequests : b[1] = "insert" /\ loc'[b].pc = "store" =>
                                   loc'[b] = loc[b] \/ loc'[b].rec.status = "queued"
    BY <1>9, <1>0, MineFailedReadEffect, ActorNames, RequestNames DEF Moves, ThrowMoves
  <2> QED BY <1>9, <1>0, <2>1, <2>2, MineFailedReadEffect, AnnouncingIf DEF StoreSame
<1>10. ASSUME MineFailedRelease PROVE Announcing'
  <2>1. OnItsWay
    BY <1>10, <1>0, MineFailedReleaseEffect, ActorNames, RequestNames
    DEF OnItsWay, AboutTo, Moves, ThrowMoves
  <2>2. /\ loc'[Retry].pc = "store" => \/ loc'[Retry] = loc[Retry]
                                       \/ loc'[Retry].rec = db /\ db.status = "sent"
        /\ \A b \in AllRequests : b[1] = "insert" /\ loc'[b].pc = "store" =>
                                   loc'[b] = loc[b] \/ loc'[b].rec.status = "queued"
    BY <1>10, <1>0, MineFailedReleaseEffect, ActorNames, RequestNames DEF Moves, ThrowMoves
  <2> QED BY <1>10, <1>0, <2>1, <2>2, MineFailedReleaseEffect, AnnouncingIf DEF StoreSame
<1>11. ASSUME NEW a \in AllRequests, InsertRead(a) PROVE Announcing'
  <2>1. OnItsWay
    BY <1>11, <1>0, InsertReadEffect, ActorNames, RequestNames
    DEF OnItsWay, AboutTo, Moves, ThrowMoves
  <2>2. /\ loc'[Retry].pc = "store" => \/ loc'[Retry] = loc[Retry]
                                       \/ loc'[Retry].rec = db /\ db.status = "sent"
        /\ \A b \in AllRequests : b[1] = "insert" /\ loc'[b].pc = "store" =>
                                   loc'[b] = loc[b] \/ loc'[b].rec.status = "queued"
    BY <1>11, <1>0, InsertReadEffect, ActorNames, RequestNames DEF Moves, ThrowMoves
  <2> QED BY <1>11, <1>0, <2>1, <2>2, InsertReadEffect, AnnouncingIf DEF StoreSame
<1>12. ASSUME CancelRead PROVE Announcing'
  <2>1. OnItsWay
    BY <1>12, <1>0, CancelReadEffect, ActorNames, RequestNames
    DEF OnItsWay, AboutTo, Moves, ThrowMoves
  <2>2. /\ loc'[Retry].pc = "store" => \/ loc'[Retry] = loc[Retry]
                                       \/ loc'[Retry].rec = db /\ db.status = "sent"
        /\ \A b \in AllRequests : b[1] = "insert" /\ loc'[b].pc = "store" =>
                                   loc'[b] = loc[b] \/ loc'[b].rec.status = "queued"
    BY <1>12, <1>0, CancelReadEffect, ActorNames, RequestNames DEF Moves, ThrowMoves
  <2> QED BY <1>12, <1>0, <2>1, <2>2, CancelReadEffect, AnnouncingIf DEF StoreSame
<1>13. ASSUME CancelRemove PROVE Announcing'
  <2>1. OnItsWay
    BY <1>13, <1>0, CancelRemoveEffect, ActorNames, RequestNames
    DEF OnItsWay, AboutTo, Moves, ThrowMoves
  <2>2. /\ loc'[Retry].pc = "store" => \/ loc'[Retry] = loc[Retry]
                                       \/ loc'[Retry].rec = db /\ db.status = "sent"
        /\ \A b \in AllRequests : b[1] = "insert" /\ loc'[b].pc = "store" =>
                                   loc'[b] = loc[b] \/ loc'[b].rec.status = "queued"
    BY <1>13, <1>0, CancelRemoveEffect, ActorNames, RequestNames DEF Moves, ThrowMoves
  <2> QED BY <1>13, <1>0, <2>1, <2>2, CancelRemoveEffect, AnnouncingIf DEF StoreSame
<1>14. ASSUME CancelSend PROVE Announcing'
  <2>1. OnItsWay
    BY <1>14, <1>0, CancelSendEffect, ActorNames, RequestNames
    DEF OnItsWay, AboutTo, Moves, ThrowMoves
  <2>2. /\ loc'[Retry].pc = "store" => \/ loc'[Retry] = loc[Retry]
                                       \/ loc'[Retry].rec = db /\ db.status = "sent"
        /\ \A b \in AllRequests : b[1] = "insert" /\ loc'[b].pc = "store" =>
                                   loc'[b] = loc[b] \/ loc'[b].rec.status = "queued"
    BY <1>14, <1>0, CancelSendEffect, ActorNames, RequestNames DEF Moves, ThrowMoves
  <2> QED BY <1>14, <1>0, <2>1, <2>2, CancelSendEffect, AnnouncingIf DEF StoreSame
<1>15. ASSUME RetryFailedRead PROVE Announcing'
  <2>1. OnItsWay
    BY <1>15, <1>0, RetryFailedReadEffect, ActorNames, RequestNames
    DEF OnItsWay, AboutTo, Moves, ThrowMoves
  <2>2. /\ loc'[Retry].pc = "store" => \/ loc'[Retry] = loc[Retry]
                                       \/ loc'[Retry].rec = db /\ db.status = "sent"
        /\ \A b \in AllRequests : b[1] = "insert" /\ loc'[b].pc = "store" =>
                                   loc'[b] = loc[b] \/ loc'[b].rec.status = "queued"
    BY <1>15, <1>0, RetryFailedReadEffect, ActorNames, RequestNames DEF Moves, ThrowMoves
  <2> QED BY <1>15, <1>0, <2>1, <2>2, RetryFailedReadEffect, AnnouncingIf DEF StoreSame
<1>16. ASSUME RetryFailedCheck PROVE Announcing'
  <2>1. OnItsWay
    BY <1>16, <1>0, RetryFailedCheckEffect, ActorNames, RequestNames
    DEF OnItsWay, AboutTo, Moves, ThrowMoves
  <2>2. /\ loc'[Retry].pc = "store" => \/ loc'[Retry] = loc[Retry]
                                       \/ loc'[Retry].rec = db /\ db.status = "sent"
        /\ \A b \in AllRequests : b[1] = "insert" /\ loc'[b].pc = "store" =>
                                   loc'[b] = loc[b] \/ loc'[b].rec.status = "queued"
    BY <1>16, <1>0, RetryFailedCheckEffect, ActorNames, RequestNames DEF Moves, ThrowMoves
  <2> QED BY <1>16, <1>0, <2>1, <2>2, RetryFailedCheckEffect, AnnouncingIf DEF StoreSame
<1>17. ASSUME RetryFailedRemove PROVE Announcing'
  <2>1. OnItsWay
    BY <1>17, <1>0, RetryFailedRemoveEffect, ActorNames, RequestNames
    DEF OnItsWay, AboutTo, Moves, ThrowMoves
  <2>2. /\ loc'[Retry].pc = "store" => \/ loc'[Retry] = loc[Retry]
                                       \/ loc'[Retry].rec = db /\ db.status = "sent"
        /\ \A b \in AllRequests : b[1] = "insert" /\ loc'[b].pc = "store" =>
                                   loc'[b] = loc[b] \/ loc'[b].rec.status = "queued"
    BY <1>17, <1>0, RetryFailedRemoveEffect, ActorNames, RequestNames DEF Moves, ThrowMoves
  <2> QED BY <1>17, <1>0, <2>1, <2>2, RetryFailedRemoveEffect, AnnouncingIf DEF StoreSame
<1>18. ASSUME SyncRetryRead PROVE Announcing'
  <2>1. OnItsWay
    BY <1>18, <1>0, SyncRetryReadEffect, ActorNames, RequestNames
    DEF OnItsWay, AboutTo, Moves, ThrowMoves
  <2>2. /\ loc'[Retry].pc = "store" => \/ loc'[Retry] = loc[Retry]
                                       \/ loc'[Retry].rec = db /\ db.status = "sent"
        /\ \A b \in AllRequests : b[1] = "insert" /\ loc'[b].pc = "store" =>
                                   loc'[b] = loc[b] \/ loc'[b].rec.status = "queued"
    BY <1>18, <1>0, SyncRetryReadEffect, ActorNames, RequestNames DEF Moves, ThrowMoves
  <2> QED BY <1>18, <1>0, <2>1, <2>2, SyncRetryReadEffect, AnnouncingIf DEF StoreSame
<1>19. ASSUME SyncRetrySend PROVE Announcing'
  <2>1. OnItsWay
    BY <1>19, <1>0, SyncRetrySendEffect, ActorNames, RequestNames
    DEF OnItsWay, AboutTo, Moves, ThrowMoves
  <2>2. /\ loc'[Retry].pc = "store" => \/ loc'[Retry] = loc[Retry]
                                       \/ loc'[Retry].rec = db /\ db.status = "sent"
        /\ \A b \in AllRequests : b[1] = "insert" /\ loc'[b].pc = "store" =>
                                   loc'[b] = loc[b] \/ loc'[b].rec.status = "queued"
    BY <1>19, <1>0, SyncRetrySendEffect, ActorNames, RequestNames DEF Moves, ThrowMoves
  <2> QED BY <1>19, <1>0, <2>1, <2>2, SyncRetrySendEffect, AnnouncingIf DEF StoreSame
<1>20. ASSUME RetryRead PROVE Announcing'
  <2>1. OnItsWay
    BY <1>20, <1>0, RetryReadEffect, ActorNames, RequestNames
    DEF OnItsWay, AboutTo, Moves, ThrowMoves
  <2>2. /\ loc'[Retry].pc = "store" => \/ loc'[Retry] = loc[Retry]
                                       \/ loc'[Retry].rec = db /\ db.status = "sent"
        /\ \A b \in AllRequests : b[1] = "insert" /\ loc'[b].pc = "store" =>
                                   loc'[b] = loc[b] \/ loc'[b].rec.status = "queued"
    BY <1>20, <1>0, RetryReadEffect, ActorNames, RequestNames DEF Moves, ThrowMoves
  <2> QED BY <1>20, <1>0, <2>1, <2>2, RetryReadEffect, AnnouncingIf DEF StoreSame
<1>21. ASSUME NEW a \in Actors, Store(a) PROVE Announcing'
  <2>1. /\ db' = loc[a].rec /\ hooks' = hooks /\ loc[a].pc = "store"
           /\ Moves(a, AfterStore(a), loc[a].rec)
        /\ AfterStore(a) \in {"addSend", "addMine", "hook"}
    BY <1>21, <1>0, StoreEffect
  <2>2. OnItsWay
    BY <2>1 DEF OnItsWay, AboutTo, Moves
  <2>3. \A st : Announced(st) => AnnouncedNext(st)
    BY <2>1, <2>2, AnnouncedKept
  <2>4. db'.status \notin {"none", "queued"} => AnnouncedNext(db'.status)
    <3>1. CASE a[1] = "insert"
      <4>1. a \in AllRequests
        BY <3>1, ActorCases, ActorNames
      <4> QED BY <1>0, <2>1, <3>1, <4>1 DEF Announcing
    <3>2. CASE a[1] = "retry"
      <4>1. a = Retry
        BY <3>2, ActorCases, ActorNames, RequestNames
      <4> QED BY <1>0, <2>1, <2>3, <4>1 DEF Announcing
    <3>3. CASE a[1] = "syncRetry"
      <4>1. a = SyncRetry
        BY <3>3, ActorCases, ActorNames, RequestNames
      <4> QED BY <1>21, <1>0, <2>1, <3>3, <4>1, StoreEffect DEF AnnouncedNext, AboutTo, Moves
    <3>4. CASE a[1] \notin {"insert", "retry", "syncRetry"}
      BY <1>21, <1>0, <2>1, <3>4, StoreEffect DEF AnnouncedNext, AboutTo, Moves
    <3> QED BY <3>1, <3>2, <3>3, <3>4
  <2>5. \A b \in Actors : loc'[b].pc = "store" => loc'[b] = loc[b]
    BY <2>1 DEF Moves
  <2>6. loc'[Retry].pc = "store" => loc'[Retry].rec.status = "sent" /\ AnnouncedNext("sent")
    BY <1>0, <2>3, <2>5, ActorNames, RequestNames DEF Announcing
  <2>7. \A b \in AllRequests : b[1] = "insert" /\ loc'[b].pc = "store"
        => loc'[b].rec.status = "queued"
    BY <1>0, <2>5, ActorNames DEF Announcing
  <2> QED BY <2>4, <2>6, <2>7 DEF Announcing, Announced, AnnouncedNext
<1>22. ASSUME NEW a \in Actors, Hook(a) PROVE Announcing'
  <2>1. OnItsWay
    BY <1>22, <1>0, HookEffect, ActorNames, RequestNames DEF OnItsWay, AboutTo, Moves, ThrowMoves
  <2>2. /\ loc'[Retry].pc = "store" => \/ loc'[Retry] = loc[Retry]
                                       \/ loc'[Retry].rec = db /\ db.status = "sent"
        /\ \A b \in AllRequests : b[1] = "insert" /\ loc'[b].pc = "store" =>
                                   loc'[b] = loc[b] \/ loc'[b].rec.status = "queued"
    BY <1>22, <1>0, HookEffect, ActorNames, RequestNames DEF Moves, ThrowMoves, Over
  <2> QED BY <1>22, <1>0, <2>1, <2>2, HookEffect, AnnouncingIf DEF StoreSame
<1>23. ASSUME NEW a \in Actors, AddMine(a) PROVE Announcing'
  <2>1. OnItsWay
    BY <1>23, <1>0, AddMineEffect, ActorNames, RequestNames
    DEF OnItsWay, AboutTo, Moves, ThrowMoves
  <2>2. /\ loc'[Retry].pc = "store" => \/ loc'[Retry] = loc[Retry]
                                       \/ loc'[Retry].rec = db /\ db.status = "sent"
        /\ \A b \in AllRequests : b[1] = "insert" /\ loc'[b].pc = "store" =>
                                   loc'[b] = loc[b] \/ loc'[b].rec.status = "queued"
    BY <1>23, <1>0, AddMineEffect, ActorNames, RequestNames DEF Moves, ThrowMoves
  <2> QED BY <1>23, <1>0, <2>1, <2>2, AddMineEffect, AnnouncingIf DEF StoreSame
<1>24. ASSUME NEW a \in Actors, AddSend(a) PROVE Announcing'
  <2>1. OnItsWay
    BY <1>24, <1>0, AddSendEffect, ActorNames, RequestNames
    DEF OnItsWay, AboutTo, Moves, ThrowMoves
  <2>2. /\ loc'[Retry].pc = "store" => \/ loc'[Retry] = loc[Retry]
                                       \/ loc'[Retry].rec = db /\ db.status = "sent"
        /\ \A b \in AllRequests : b[1] = "insert" /\ loc'[b].pc = "store" =>
                                   loc'[b] = loc[b] \/ loc'[b].rec.status = "queued"
    BY <1>24, <1>0, AddSendEffect, ActorNames, RequestNames DEF Moves, ThrowMoves
  <2> QED BY <1>24, <1>0, <2>1, <2>2, AddSendEffect, AnnouncingIf DEF StoreSame
<1>25. ASSUME NEW a \in Actors, Crash(a) PROVE Announcing'
  <2>1. OnItsWay
    BY <1>25, <1>0, CrashEffect, ActorNames, RequestNames
    DEF OnItsWay, AboutTo, Moves, ThrowMoves, HooksFollow
  <2>2. /\ loc'[Retry].pc = "store" => \/ loc'[Retry] = loc[Retry]
                                       \/ loc'[Retry].rec = db /\ db.status = "sent"
        /\ \A b \in AllRequests : b[1] = "insert" /\ loc'[b].pc = "store" =>
                                   loc'[b] = loc[b] \/ loc'[b].rec.status = "queued"
    BY <1>25, <1>0, CrashEffect, ActorNames, RequestNames DEF Moves, ThrowMoves, Over
  <2> QED BY <1>25, <1>0, <2>1, <2>2, CrashEffect, AnnouncingIf DEF StoreSame
<1>26. ASSUME MineBlock PROVE Announcing'
  BY <1>26, <1>0, AnnouncingIf DEF MineBlock, OnItsWay
<1>27. ASSUME OtherTakes PROVE Announcing'
  BY <1>27, <1>0, AnnouncingIf DEF OtherTakes, OnItsWay
<1>28. ASSUME UNCHANGED vars PROVE Announcing'
  BY <1>28, <1>0, AnnouncingIf DEF vars, OnItsWay
<1>29. ASSUME NEW r \in Resends, SendLate(r) PROVE Announcing'
  <2>1. OnItsWay
    BY <1>29, <1>0, SendLateEffect, ActorNames, RequestNames DEF OnItsWay, AboutTo, ThrowMoves
  <2>2. loc'[Retry] = loc[Retry] /\ \A b \in AllRequests : loc'[b] = loc[b]
    BY <1>29, <1>0, SendLateEffect, ActorNames, RequestNames DEF ThrowMoves
  <2> QED BY <1>29, <1>0, <2>1, <2>2, SendLateEffect, AnnouncingIf DEF StoreSame
<1> QED BY <1>1, <1>2, <1>3, <1>4, <1>5, <1>6, <1>7, <1>8, <1>9, <1>10, <1>11, <1>12, <1>13,
    <1>14, <1>15, <1>16, <1>17, <1>18, <1>19, <1>20, <1>21, <1>22, <1>23, <1>24, <1>25,
    <1>26, <1>27, <1>28, <1>29
    DEF Next, Undisturbed, WorkerStep, SendStep, MineStep, ApiStep, ActorStep

\* Unless a process stops between writing a record and enqueueing its webhook,
\* the webhook of the status that is stored in the end was enqueued.
THEOREM OutcomesAnnounced == Spec /\ [][HooksFollow]_vars => []OutcomeAnnounced
<1>1. Init => Announcing
  <2> SUFFICES ASSUME Init PROVE Announcing
    OBVIOUS
  <2>1. \A a \in Actors : loc[a].pc \in {"idle", "read"}
    BY DEF Init, Idle
  <2> QED BY <2>1, ActorNames, RequestNames, RecordTypes DEF Init, Announcing
<1>2. TypeInv /\ Announcing /\ [Next]_vars /\ [HooksFollow]_vars => Announcing'
  <2>1. ASSUME Announcing, UNCHANGED vars PROVE Announcing'
    BY <2>1, AnnouncingIf DEF vars, OnItsWay
  <2> QED BY <2>1, AnnouncingStep
<1>3. Announcing => OutcomeAnnounced
  BY DEF Announcing, Announced, AboutTo, OutcomeAnnounced, Quiet
<1> QED BY <1>1, <1>2, <1>3, TypeInvariant, PTL DEF Spec
==============================================================================
