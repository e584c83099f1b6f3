------------------------- MODULE ContractEventsProofs -------------------------
(***************************************************************************)
(* ContractEvents, for every set of subscriptions and items and every      *)
(* number of delays, attempts, ranges and faults: types, the calls a URL   *)
(* accepts, and that the queues are filled as IndexCursor promises.        *)
(***************************************************************************)
EXTENDS ContractEvents, FiniteSetTheorems, SequenceTheorems, TLAPS

----------------------------------------------------------------------------
(* The invariant                                                           *)

\* The chain has blocks up to its bound, and the cursor is on it.
CursorTypes ==
  /\ head \in 0..MaxHead /\ row \in {NoRow} \cup 0..head
  /\ born \in [Subs -> 0..MaxHead] /\ \A s \in Subs : born[s] <= head
  /\ IsFiniteSet(ever)

\* A webhook job that waits has an attempt left; each call the worker did not see accepted
\* was a fault.
HookTypes ==
  /\ \A k \in Keys : hookJob[k].state = "waiting" => hookJob[k].tries < HookAttempts
  /\ \A k \in Keys : unseen[k] <= faults

\* A handler that has inserted rows and not yet enqueued their webhooks: the rows are
\* in the table.
InsertedFirst == \A a \in active : a.new \subseteq stored

\* Every call that was accepted ended its job, or the worker did not learn of it.
CallsAccounted ==
  \A k \in Keys :
    received[k] = unseen[k] + (IF hookJob[k].state = "done" THEN 1 ELSE 0)

TypeInv == TypeOK /\ CursorTypes /\ HookTypes /\ InsertedFirst

Inv == TypeInv /\ CallsAccounted

----------------------------------------------------------------------------
(* Lemmas about the operators                                              *)

\* An order of some of the subscriptions is a sequence of subscriptions.
LEMMA OrdersAreSequences ==
  ASSUME NEW S \in SUBSET Subs, IsFiniteSet(S), NEW filters \in SetToSeqs(S)
  PROVE  filters \in Seq(Subs)
<1>1. Cardinality(S) \in Nat
  BY FS_CardinalityType
<1>2. filters \in [1..Cardinality(S) -> Subs]
  BY DEF SetToSeqs
<1> QED BY <1>1, <1>2, SeqDef

\* The jobs of a range are job data.
LEMMA RangeJobsAreJobs ==
  ASSUME NEW k \in Kinds, NEW f \in 0..MaxHead, NEW t \in 0..MaxHead, NEW filters \in Seq(Subs)
  PROVE  RangeJobs(k, f, t, filters) \subseteq JobData
  BY EventsAssumption DEF RangeJobs, JobData

\* A job that throws and has an attempt left is job data again.
LEMMA ThrownJob ==
  ASSUME NEW j \in JobData, j.left > 1
  PROVE  [j EXCEPT !.left = @ - 1] \in JobData
  BY EventsAssumption DEF JobData

\* Queue.add starts the jobs that are absent and leaves the others alone.
LEMMA EnqueuedJobs ==
  ASSUME TypeOK, HookTypes, NEW K
  PROVE  /\ Enqueued(K) \in [Keys -> [state : {"absent", "waiting", "done", "failed"},
                                      tries : 0..HookAttempts]]
         /\ \A k \in Keys : \/ Enqueued(K)[k] = hookJob[k]
                            \/ /\ hookJob[k].state = "absent"
                               /\ Enqueued(K)[k] = [state |-> "waiting", tries |-> 0]
  BY EventsAssumption DEF Enqueued, TypeOK

\* Only rows that match a filter of the job are inserted, and they are items.
LEMMA MatchingItems == TypeOK => \A j : Matching(j) \subseteq Items
  BY DEF Matching, TypeOK, Items

----------------------------------------------------------------------------
(* Types                                                                   *)

\* Every step keeps what the webhook queue and the counters are made of.
LEMMA HookStep ==
  ASSUME TypeInv, [Next]_vars
  PROVE  /\ hookJob' \in [Keys -> [state : {"absent", "waiting", "done", "failed"},
                                   tries : 0..HookAttempts]]
         /\ received' \in [Keys -> Nat] /\ unseen' \in [Keys -> 0..MaxFaults]
         /\ faults' \in 0..MaxFaults
         /\ HookTypes'
<1> DEFINE HookStates == [state : {"absent", "waiting", "done", "failed"}, tries : 0..HookAttempts]
           Goal == /\ hookJob' \in [Keys -> HookStates]
                   /\ received' \in [Keys -> Nat] /\ unseen' \in [Keys -> 0..MaxFaults]
                   /\ faults' \in 0..MaxFaults
                   /\ HookTypes'
<1>0. /\ hookJob \in [Keys -> HookStates] /\ received \in [Keys -> Nat]
      /\ unseen \in [Keys -> 0..MaxFaults] /\ faults \in 0..MaxFaults
      /\ HookTypes /\ TypeOK /\ MaxFaults \in Nat /\ HookAttempts \in Nat \ {0}
  BY EventsAssumption DEF TypeInv, TypeOK
<1>1. ASSUME UNCHANGED hookVars, UNCHANGED faults PROVE Goal
  BY <1>0, <1>1 DEF hookVars, HookTypes
<1>2. ASSUME UNCHANGED hookVars, Fault PROVE Goal
  BY <1>0, <1>2 DEF hookVars, HookTypes, Fault
<1>3. CASE Produce
  BY <1>1, <1>3 DEF Produce
<1>4. ASSUME NEW s \in Subs, CreateSubscription(s) \/ RemoveSubscription(s) \/ RevokeWebhook(s)
      PROVE  Goal
  BY <1>1, <1>4 DEF CreateSubscription, RemoveSubscription, RevokeWebhook
<1>5. ASSUME NEW k \in Kinds, NEW t \in 0..head, NEW S \in SUBSET ever, EnqueueRange(k, t, S)
      PROVE  Goal
  BY <1>1, <1>5 DEF EnqueueRange
<1>6. ASSUME NEW t \in 0..head, MoveCursor(t) PROVE Goal
  BY <1>1, <1>6 DEF MoveCursor
<1>7. ASSUME NEW j \in jobs, HandlerInsert(j) \/ HandlerPartial(j) PROVE Goal
  BY <1>1, <1>2, <1>7 DEF HandlerInsert, HandlerPartial, Insert
<1>8. ASSUME NEW j \in jobs, HandlerThrow(j) PROVE Goal
  BY <1>1, <1>2, <1>8 DEF HandlerThrow
<1>9. ASSUME NEW K, hookJob' = Enqueued(K), UNCHANGED <<received, unseen>>,
             faults' \in faults..MaxFaults
      PROVE  Goal
  <2>1. hookJob' \in [Keys -> HookStates]
    BY <1>0, <1>9, EnqueuedJobs
  <2>2. ASSUME NEW k \in Keys, hookJob'[k].state = "waiting"
        PROVE  hookJob'[k].tries < HookAttempts
    <3>1. CASE hookJob'[k] = hookJob[k]
      BY <1>0, <2>2, <3>1 DEF HookTypes
    <3>2. CASE hookJob'[k] = [state |-> "waiting", tries |-> 0]
      BY <1>0, <3>2
    <3> QED BY <1>0, <1>9, <3>1, <3>2, EnqueuedJobs
  <2>3. \A k \in Keys : unseen'[k] <= faults'
    BY <1>0, <1>9 DEF HookTypes
  <2> QED BY <1>0, <1>9, <2>1, <2>2, <2>3 DEF HookTypes
<1>10. ASSUME NEW a \in active, HandlerNotify(a) PROVE Goal
  <2>1. faults' \in faults..MaxFaults
    BY <1>0, <1>10 DEF HandlerNotify
  <2> QED BY <1>9, <1>10, <2>1 DEF HandlerNotify
<1>11. ASSUME NEW a \in active, HandlerCrash(a) PROVE Goal
  <2>1. faults' \in faults..MaxFaults
    BY <1>0, <1>11 DEF HandlerCrash, Fault
  <2> QED BY <1>9, <1>11, <2>1 DEF HandlerCrash
<1>12. ASSUME NEW k \in Keys, Deliver(k) PROVE Goal
  <2>1. /\ hookJob' = [hookJob EXCEPT ![k].state = "done"]
        /\ received' = [received EXCEPT ![k] = @ + 1] /\ UNCHANGED <<unseen, faults>>
    BY <1>12 DEF Deliver
  <2> QED BY <1>0, <2>1 DEF HookTypes
<1>13. ASSUME NEW k \in Keys, AcceptedUnseen(k), Fault
       PROVE  /\ received' \in [Keys -> Nat] /\ unseen' \in [Keys -> 0..MaxFaults]
              /\ faults' \in 0..MaxFaults /\ \A i \in Keys : unseen'[i] <= faults'
  <2>1. /\ received' = [received EXCEPT ![k] = @ + 1] /\ unseen' = [unseen EXCEPT ![k] = @ + 1]
        /\ faults < MaxFaults /\ faults' = faults + 1
    BY <1>13 DEF AcceptedUnseen, Fault
  <2>2. \A i \in Keys : unseen'[i] = IF i = k THEN unseen[i] + 1 ELSE unseen[i]
    BY <1>0, <2>1
  <2>3. \A i \in Keys : unseen'[i] <= faults' /\ unseen'[i] \in 0..MaxFaults
    BY <1>0, <2>1, <2>2 DEF HookTypes
  <2> QED BY <1>0, <2>1, <2>3
<1>14. ASSUME NEW k \in Keys, DeliverFails(k) PROVE Goal
  <2> DEFINE n == hookJob[k].tries + 1
             after == [state |-> IF n = HookAttempts THEN "failed" ELSE "waiting", tries |-> n]
  <2>1. hookJob' = [hookJob EXCEPT ![k] = after] /\ Fault
    BY <1>14 DEF DeliverFails
  <2>2. n \in 1..HookAttempts
    BY <1>0, <1>14 DEF DeliverFails, HookTypes
  <2>3. after \in HookStates /\ (after.state = "waiting" => after.tries < HookAttempts)
    BY <1>0, <2>2
  <2>4. hookJob' \in [Keys -> HookStates]
    BY <1>0, <2>1, <2>3
  <2>5. \A i \in Keys : hookJob'[i] = IF i = k THEN after ELSE hookJob[i]
    BY <1>0, <2>1
  <2> HIDE DEF after
  <2>6. \A i \in Keys : hookJob'[i].state = "waiting" => hookJob'[i].tries < HookAttempts
    BY <1>0, <2>3, <2>5 DEF HookTypes
  <2>7. /\ received' \in [Keys -> Nat] /\ unseen' \in [Keys -> 0..MaxFaults]
        /\ faults' \in 0..MaxFaults /\ \A i \in Keys : unseen'[i] <= faults'
    <3>1. CASE AcceptedUnseen(k)
      BY <1>13, <2>1, <3>1
    <3>2. CASE UNCHANGED <<received, unseen>>
      BY <1>0, <2>1, <3>2 DEF HookTypes, Fault
    <3> QED BY <1>14, <3>1, <3>2 DEF DeliverFails
  <2> QED BY <2>4, <2>6, <2>7 DEF HookTypes
<1>15. ASSUME NEW k \in Keys, DeliverStalls(k) PROVE Goal
  BY <1>0, <1>13, <1>15 DEF DeliverStalls, HookTypes
<1>16. CASE UNCHANGED vars
  BY <1>1, <1>16 DEF vars
<1> QED BY <1>3, <1>4, <1>5, <1>6, <1>7, <1>8, <1>10, <1>11, <1>12, <1>14, <1>15, <1>16
    DEF Next

\* Every step keeps the chain, the cursor and the subscriptions in shape.
LEMMA CursorTypeStep ==
  ASSUME TypeInv, [Next]_vars
  PROVE  /\ CursorTypes'
         /\ live' \subseteq ever' /\ ever' \subseteq Subs /\ hookOn' \subseteq ever'
         /\ chain' \in Chains
<1> DEFINE Goal == /\ CursorTypes'
                   /\ live' \subseteq ever' /\ ever' \subseteq Subs /\ hookOn' \subseteq ever'
                   /\ chain' \in Chains
<1>0. /\ CursorTypes /\ live \subseteq ever /\ ever \subseteq Subs /\ hookOn \subseteq ever
      /\ MaxHead \in Nat /\ chain \in Chains
  BY EventsAssumption DEF TypeInv, TypeOK
<1>1. ASSUME UNCHANGED <<head, row, live, born, ever, hookOn, chain>> PROVE Goal
  BY <1>0, <1>1 DEF CursorTypes
<1>2. CASE Produce
  BY <1>0, <1>2 DEF Produce, NewBlock, CursorTypes
<1>3. ASSUME NEW s \in Subs, CreateSubscription(s) PROVE Goal
  <2>1. IsFiniteSet(ever \cup {s})
    BY <1>0, FS_AddElement DEF CursorTypes
  <2> QED BY <1>0, <1>3, <2>1 DEF CreateSubscription, Subscribe, CursorTypes
<1>4. ASSUME NEW s \in Subs, RemoveSubscription(s) PROVE Goal
  BY <1>0, <1>4 DEF RemoveSubscription, Unsubscribe, CursorTypes
<1>5. ASSUME NEW s \in Subs, RevokeWebhook(s) PROVE Goal
  BY <1>0, <1>5 DEF RevokeWebhook, cursorVars, CursorTypes
<1>6. ASSUME NEW k \in Kinds, NEW t \in 0..head, NEW S \in SUBSET ever, EnqueueRange(k, t, S)
      PROVE  Goal
  BY <1>1, <1>6 DEF EnqueueRange, Hand
<1>7. ASSUME NEW t \in 0..head, MoveCursor(t) PROVE Goal
  BY <1>0, <1>7 DEF MoveCursor, Advance, Restart, CursorTypes
<1>8. ASSUME NEW j \in jobs, HandlerInsert(j) \/ HandlerPartial(j) \/ HandlerThrow(j)
      PROVE  Goal
  BY <1>1, <1>8 DEF HandlerInsert, HandlerPartial, HandlerThrow, Insert, cursorVars
<1>9. ASSUME NEW a \in active, HandlerNotify(a) \/ HandlerCrash(a) PROVE Goal
  BY <1>1, <1>9 DEF HandlerNotify, HandlerCrash, cursorVars
<1>10. ASSUME NEW k \in Keys, Deliver(k) \/ DeliverFails(k) \/ DeliverStalls(k) PROVE Goal
  BY <1>1, <1>10 DEF Deliver, DeliverFails, DeliverStalls, cursorVars
<1>11. CASE UNCHANGED vars
  BY <1>1, <1>11 DEF vars, cursorVars
<1> QED BY <1>2, <1>3, <1>4, <1>5, <1>6, <1>7, <1>8, <1>9, <1>10, <1>11 DEF Next

\* Every step keeps the jobs, the running handlers and the tables in shape.
LEMMA WorkStep ==
  ASSUME TypeInv, [Next]_vars
  PROVE  /\ jobs' \subseteq JobData
         /\ \A a \in active' : a.job \in JobData /\ a.new \subseteq Items
         /\ stored' \subseteq Items /\ cut' \subseteq stored'
         /\ InsertedFirst'
<1> DEFINE Goal == /\ jobs' \subseteq JobData
                   /\ \A a \in active' : a.job \in JobData /\ a.new \subseteq Items
                   /\ stored' \subseteq Items /\ cut' \subseteq stored'
                   /\ InsertedFirst'
<1>0. /\ jobs \subseteq JobData /\ \A a \in active : a.job \in JobData /\ a.new \subseteq Items
      /\ stored \subseteq Items /\ cut \subseteq stored /\ InsertedFirst
  BY DEF TypeInv, TypeOK
<1>1. ASSUME UNCHANGED workVars PROVE Goal
  BY <1>0, <1>1 DEF workVars, InsertedFirst
<1>2. CASE Produce
  BY <1>1, <1>2 DEF Produce
<1>3. ASSUME NEW s \in Subs, CreateSubscription(s) \/ RemoveSubscription(s) \/ RevokeWebhook(s)
      PROVE  Goal
  BY <1>1, <1>3 DEF CreateSubscription, RemoveSubscription, RevokeWebhook
<1>4. ASSUME NEW k \in Kinds, NEW t \in 0..head, NEW S \in SUBSET ever, EnqueueRange(k, t, S)
      PROVE  Goal
  <2>1. PICK filters \in SetToSeqs(S) : jobs' = jobs \cup RangeJobs(k, row, t, filters)
    BY <1>4 DEF EnqueueRange
  <2>2. S \in SUBSET Subs /\ IsFiniteSet(S)
    BY FS_Subset DEF TypeInv, TypeOK, CursorTypes
  <2>3. filters \in Seq(Subs)
    BY <2>2, OrdersAreSequences
  <2>4. row \in 0..MaxHead /\ t \in 0..MaxHead
    BY <1>4, EventsAssumption DEF EnqueueRange, TypeInv, CursorTypes
  <2>5. jobs' \subseteq JobData
    BY <1>0, <2>1, <2>3, <2>4, RangeJobsAreJobs
  <2>6. UNCHANGED <<active, stored, cut>>
    BY <1>4 DEF EnqueueRange
  <2> QED BY <1>0, <2>5, <2>6 DEF InsertedFirst
<1>5. ASSUME NEW t \in 0..head, MoveCursor(t) PROVE Goal
  BY <1>1, <1>5 DEF MoveCursor
<1>6. ASSUME NEW j \in jobs, HandlerInsert(j) \/ HandlerPartial(j) PROVE Goal
  <2>1. PICK R \in SUBSET Matching(j) : Insert(j, R)
    BY <1>6 DEF HandlerInsert, HandlerPartial
  <2>2. R \subseteq Items /\ j \in JobData
    BY <1>0, MatchingItems DEF TypeInv
  <2>3. /\ jobs' = jobs \ {j} /\ cut' = cut /\ stored' = stored \cup R
        /\ active' = IF R \subseteq stored THEN active
                     ELSE active \cup {[job |-> j, new |-> R \ stored]}
    BY <2>1 DEF Insert
  <2>4. \A a \in active' : a \in active \/ (a.job = j /\ a.new = R \ stored)
    BY <2>3
  <2> QED BY <1>0, <2>2, <2>3, <2>4 DEF InsertedFirst
<1>7. ASSUME NEW j \in jobs, HandlerThrow(j) PROVE Goal
  <2>1. jobs' \subseteq JobData
    BY <1>0, <1>7, ThrownJob DEF HandlerThrow
  <2> QED BY <1>0, <1>7, <2>1 DEF HandlerThrow, InsertedFirst
<1>8. ASSUME NEW a \in active, HandlerNotify(a) PROVE Goal
  BY <1>0, <1>8 DEF HandlerNotify, InsertedFirst
<1>9. ASSUME NEW a \in active, HandlerCrash(a) PROVE Goal
  BY <1>0, <1>9 DEF HandlerCrash, InsertedFirst
<1>10. ASSUME NEW k \in Keys, Deliver(k) \/ DeliverFails(k) \/ DeliverStalls(k) PROVE Goal
  BY <1>1, <1>10 DEF Deliver, DeliverFails, DeliverStalls
<1>11. CASE UNCHANGED vars
  BY <1>1, <1>11 DEF vars
<1> QED BY <1>2, <1>3, <1>4, <1>5, <1>6, <1>7, <1>8, <1>9, <1>10, <1>11 DEF Next

\* The types are an invariant.
LEMMA TypeInductive == Spec => []TypeInv
<1>1. Init => TypeInv
  <2> SUFFICES ASSUME Init PROVE TypeInv
    OBVIOUS
  <2>1. TypeOK
    BY EventsAssumption DEF Init, CursorInit, TypeOK, NoHookJob
  <2>2. CursorTypes
    BY EventsAssumption, FS_EmptySet DEF Init, CursorInit, CursorTypes
  <2>3. HookTypes /\ InsertedFirst
    BY DEF Init, HookTypes, InsertedFirst, NoHookJob
  <2> QED BY <2>1, <2>2, <2>3 DEF TypeInv
<1>2. TypeInv /\ [Next]_vars => TypeInv'
  <2> SUFFICES ASSUME TypeInv, [Next]_vars PROVE TypeInv'
    OBVIOUS
  <2> QED BY HookStep, CursorTypeStep, WorkStep DEF TypeInv, TypeOK
<1> QED BY <1>1, <1>2, PTL DEF Spec

\* Whatever the delays, attempts, filters and faults, the tables hold items, the queues
\* hold job data, and no webhook job is tried more often than it has attempts.
THEOREM TypeCorrect == Spec => []TypeOK
<1>1. TypeInv => TypeOK
  BY DEF TypeInv
<1> QED BY <1>1, TypeInductive, PTL

----------------------------------------------------------------------------
(* The calls a URL accepts                                                 *)

\* A call is accepted once per job, and once more for each call the worker did not see
\* accepted.
LEMMA AccountedStep ==
  ASSUME TypeInv, CallsAccounted, [Next]_vars
  PROVE  CallsAccounted'
<1>0. /\ received \in [Keys -> Nat] /\ unseen \in [Keys -> 0..MaxFaults] /\ MaxFaults \in Nat
      /\ hookJob \in [Keys -> [state : {"absent", "waiting", "done", "failed"},
                               tries : 0..HookAttempts]]
      /\ TypeOK /\ HookTypes
  BY EventsAssumption DEF TypeInv, TypeOK
<1>1. ASSUME UNCHANGED hookVars PROVE CallsAccounted'
  BY <1>1 DEF hookVars, CallsAccounted
<1>2. CASE Produce
  BY <1>1, <1>2 DEF Produce
<1>3. ASSUME NEW s \in Subs, CreateSubscription(s) \/ RemoveSubscription(s) \/ RevokeWebhook(s)
      PROVE  CallsAccounted'
  BY <1>1, <1>3 DEF CreateSubscription, RemoveSubscription, RevokeWebhook
<1>4. ASSUME NEW k \in Kinds, NEW t \in 0..head, NEW S \in SUBSET ever, EnqueueRange(k, t, S)
      PROVE  CallsAccounted'
  BY <1>1, <1>4 DEF EnqueueRange
<1>5. ASSUME NEW t \in 0..head, MoveCursor(t) PROVE CallsAccounted'
  BY <1>1, <1>5 DEF MoveCursor
<1>6. ASSUME NEW j \in jobs, HandlerInsert(j) \/ HandlerPartial(j) \/ HandlerThrow(j)
      PROVE  CallsAccounted'
  BY <1>1, <1>6 DEF HandlerInsert, HandlerPartial, HandlerThrow, Insert
<1>7. ASSUME NEW K, hookJob' = Enqueued(K), UNCHANGED <<received, unseen>>
      PROVE  CallsAccounted'
  <2>1. \A k \in Keys : hookJob'[k].state = "done" <=> hookJob[k].state = "done"
    BY <1>0, <1>7, EnqueuedJobs
  <2> QED BY <1>7, <2>1 DEF CallsAccounted
<1>8. ASSUME NEW a \in active, HandlerNotify(a) \/ HandlerCrash(a) PROVE CallsAccounted'
  BY <1>7, <1>8 DEF HandlerNotify, HandlerCrash
<1>9. ASSUME NEW k \in Keys, Deliver(k) PROVE CallsAccounted'
  <2>1. /\ hookJob' = [hookJob EXCEPT ![k].state = "done"] /\ hookJob[k].state = "waiting"
        /\ received' = [received EXCEPT ![k] = @ + 1] /\ UNCHANGED unseen
    BY <1>9 DEF Deliver
  <2> QED BY <1>0, <2>1 DEF CallsAccounted
<1>10. ASSUME NEW k \in Keys, DeliverFails(k) \/ DeliverStalls(k) PROVE CallsAccounted'
  <2>1. /\ hookJob[k].state = "waiting"
        /\ \A i \in Keys : i # k => hookJob'[i] = hookJob[i]
        /\ hookJob'[k].state \in {"failed", "waiting"}
    BY <1>0, <1>10 DEF DeliverFails, DeliverStalls
  <2>2. CASE UNCHANGED <<received, unseen>>
    BY <1>0, <2>1, <2>2 DEF CallsAccounted
  <2>3. CASE AcceptedUnseen(k)
    <3>1. /\ received' = [received EXCEPT ![k] = @ + 1]
          /\ unseen' = [unseen EXCEPT ![k] = @ + 1]
      BY <2>3 DEF AcceptedUnseen
    <3> QED BY <1>0, <2>1, <3>1 DEF CallsAccounted
  <2> QED BY <1>10, <2>2, <2>3 DEF DeliverFails, DeliverStalls
<1>11. CASE UNCHANGED vars
  BY <1>1, <1>11 DEF vars
<1> QED BY <1>2, <1>3, <1>4, <1>5, <1>6, <1>8, <1>9, <1>10, <1>11 DEF Next

\* However many block ranges overlap, however often they are queried again and however
\* many subscriptions share a URL, the URL accepts an item again only after a call whose
\* acceptance the worker never learned of: the answer was lost, or the worker stopped.
THEOREM CalledOnce == Spec => []ReceivedOnce
<1>1. Init => CallsAccounted
  BY DEF Init, CallsAccounted, NoHookJob
<1>2. TypeInv /\ CallsAccounted /\ [Next]_vars => CallsAccounted'
  BY AccountedStep
<1>3. TypeInv /\ CallsAccounted => ReceivedOnce
  BY EventsAssumption DEF CallsAccounted, ReceivedOnce, TypeInv, TypeOK
<1> QED BY <1>1, <1>2, <1>3, TypeInductive, PTL DEF Spec

----------------------------------------------------------------------------
(* The cursor                                                              *)

\* The subscriptions, the chain and the block ranges move as IndexCursor promises:
\* nothing that is proved of the cursor is lost when jobs and webhooks are added.
THEOREM FollowsCursor == Spec => CursorSpec
<1>1. Init => CursorInit
  BY DEF Init
<1>2. TypeInv /\ [Next]_vars => [CursorNext]_cursorVars
  <2> SUFFICES ASSUME TypeInv, [Next]_vars PROVE CursorNext \/ UNCHANGED cursorVars
    OBVIOUS
  <2>1. CASE Produce
    BY <2>1 DEF Produce, CursorNext
  <2>2. ASSUME NEW s \in Subs, CreateSubscription(s) \/ RemoveSubscription(s) PROVE CursorNext
    BY <2>2 DEF CreateSubscription, RemoveSubscription, CursorNext
  <2>3. ASSUME NEW k \in Kinds, NEW t \in 0..head, NEW S \in SUBSET ever, EnqueueRange(k, t, S)
        PROVE  CursorNext
    <3>1. row \in 0..head /\ S \in SUBSET Subs /\ Hand(k, row, t, S)
      BY <2>3 DEF EnqueueRange, TypeInv, TypeOK, CursorTypes
    <3> QED BY <3>1 DEF CursorNext
  <2>4. ASSUME NEW t \in 0..head, MoveCursor(t) PROVE CursorNext
    BY <2>4 DEF MoveCursor, CursorNext
  <2>5. ASSUME NEW s \in Subs, RevokeWebhook(s) PROVE UNCHANGED cursorVars
    BY <2>5 DEF RevokeWebhook
  <2>6. ASSUME NEW j \in jobs, HandlerInsert(j) \/ HandlerPartial(j) \/ HandlerThrow(j)
        PROVE  UNCHANGED cursorVars
    BY <2>6 DEF HandlerInsert, HandlerPartial, HandlerThrow, Insert
  <2>7. ASSUME NEW a \in active, HandlerNotify(a) \/ HandlerCrash(a) PROVE UNCHANGED cursorVars
    BY <2>7 DEF HandlerNotify, HandlerCrash
  <2>8. ASSUME NEW k \in Keys, Deliver(k) \/ DeliverFails(k) \/ DeliverStalls(k)
        PROVE  UNCHANGED cursorVars
    BY <2>8 DEF Deliver, DeliverFails, DeliverStalls
  <2>9. CASE UNCHANGED vars
    BY <2>9 DEF vars
  <2> QED BY <2>1, <2>2, <2>3, <2>4, <2>5, <2>6, <2>7, <2>8, <2>9 DEF Next
<1> QED BY <1>1, <1>2, TypeInductive, PTL DEF Spec, CursorSpec

\* The chain, the cursor and the creation of the subscriptions, as IndexCursor has them.
CursorOnChain ==
  /\ head \in Nat /\ row \in {NoRow} \cup 0..head
  /\ live \subseteq Subs /\ born \in [Subs -> Nat]

\* The promise of IndexCursor leaves no gap: a block the cursor has passed was handed
\* over for every live subscription that was created before it.
THEOREM CursorLeavesNoGap == CursorSpec => []NoGap
<1>1. CursorInit => CursorOnChain /\ NoGap
  BY DEF CursorInit, CursorOnChain, NoGap
<1>2. CursorOnChain /\ [CursorNext]_cursorVars => CursorOnChain'
  <2> SUFFICES ASSUME CursorOnChain, [CursorNext]_cursorVars PROVE CursorOnChain'
    OBVIOUS
  <2> USE DEF CursorOnChain
  <2>1. CASE NewBlock
    BY <2>1 DEF NewBlock
  <2>2. ASSUME NEW s \in Subs, Subscribe(s) \/ Unsubscribe(s) PROVE CursorOnChain'
    BY <2>2 DEF Subscribe, Unsubscribe
  <2>3. ASSUME NEW k \in Kinds, NEW f \in 0..head, NEW t \in 0..head, NEW S \in SUBSET Subs,
               Hand(k, f, t, S)
        PROVE  CursorOnChain'
    BY <2>3 DEF Hand
  <2>4. ASSUME NEW t \in 0..head, Advance(t) \/ Restart(t) PROVE CursorOnChain'
    BY <2>4 DEF Advance, Restart
  <2>5. CASE UNCHANGED cursorVars
    BY <2>5 DEF cursorVars
  <2> QED BY <2>1, <2>2, <2>3, <2>4, <2>5 DEF CursorNext
<1>3. CursorOnChain /\ NoGap /\ [CursorNext]_cursorVars => NoGap'
  <2> SUFFICES ASSUME CursorOnChain, NoGap, [CursorNext]_cursorVars PROVE NoGap'
    OBVIOUS
  <2> USE DEF CursorOnChain, NoGap, Covered
  <2>1. CASE NewBlock
    BY <2>1 DEF NewBlock, NoRow
  <2>2. ASSUME NEW s \in Subs, Subscribe(s) \/ Unsubscribe(s) PROVE NoGap'
    BY <2>2 DEF Subscribe, Unsubscribe
  <2>3. ASSUME NEW k \in Kinds, NEW f \in 0..head, NEW t \in 0..head, NEW S \in SUBSET Subs,
               Hand(k, f, t, S)
        PROVE  NoGap'
    BY <2>3 DEF Hand
  <2>4. ASSUME NEW t \in 0..head, Advance(t) PROVE NoGap'
    BY <2>4 DEF Advance
  <2>5. ASSUME NEW t \in 0..head, Restart(t) PROVE NoGap'
    BY <2>5 DEF Restart
  <2>6. CASE UNCHANGED cursorVars
    BY <2>6 DEF cursorVars
  <2> QED BY <2>1, <2>2, <2>3, <2>4, <2>5, <2>6 DEF CursorNext
<1> QED BY <1>1, <1>2, <1>3, PTL DEF CursorSpec
=============================================================================
