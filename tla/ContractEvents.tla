-------------------------- MODULE ContractEvents --------------------------
(***************************************************************************)
(* From a block range in the queue to a webhook call: the jobs the chain   *)
(* indexers add (IndexCursor), the two workers that query the chain and    *)
(* fill contract_event_logs and contract_transaction_receipts, and the     *)
(* webhook queue with its worker.  An item is an event log or a transaction*)
(* receipt of the chain.                                                   *)
(***************************************************************************)
EXTENDS IndexCursor, FiniteSets, SequencesExt

CONSTANTS
  Chains,        \* what the blocks may come to hold: sets of [kind, contract, name, block]
  Contract,      \* Contract[s]: contractAddress of the subscription
  Filter,        \* Filter[s][k]: filterEvents (logs), filterFunctions (receipts), {} = none
  Url,           \* Url[s]: webhookUrl of the subscription
  Abi,           \* names the ABI of the contracts knows
  Requeries,     \* length of contractSubscriptionsRequeryDelaySeconds
  LastAttempts,  \* attempts of the last delayed job (10 in the code)
  HookAttempts,  \* attempts of a webhook job (3 in the code)
  MaxRanges,     \* bound: block ranges handed to the queues
  MaxHead,       \* bound: blocks produced
  MaxFaults      \* bound: failed or incomplete RPC answers, failed calls, crashes

ASSUME EventsAssumption ==
  /\ Requeries \in Nat \ {0} /\ LastAttempts \in Nat \ {0} /\ HookAttempts \in Nat \ {0}
  /\ MaxRanges \in Nat /\ MaxHead \in Nat /\ MaxFaults \in Nat

Items == UNION Chains
Urls == {Url[s] : s \in Subs}
Keys == Urls \X Items   \* idempotency keys `url.transactionHash.logIndex`

VARIABLES
  chain,     \* what its blocks hold, those to come included; it never changes
  ever,      \* subscriptions that were created (history)
  hookOn,    \* subscriptions whose webhook row is not revoked
  jobs,      \* jobs of the two queues, delayed ones included
  active,    \* jobs whose handler has inserted rows and not yet enqueued webhooks
  stored,    \* the two tables
  hookJob,   \* the webhook queue: state and attempts made, by jobId
  received,  \* how often a URL accepted an item (history)
  unseen,    \* how often it did without the worker learning of it (history)
  cut,       \* items inserted by a handler that was stopped (history)
  faults

workVars == <<jobs, active, stored, cut>>
hookVars == <<hookJob, received, unseen>>
vars == <<cursorVars, chain, ever, hookOn, workVars, hookVars, faults>>

NoHookJob == [state |-> "absent", tries |-> 0]

JobData == [kind : Kinds, from : 0..MaxHead, to : 0..MaxHead, filters : Seq(Subs),
            n : 0..Requeries, left : 1..LastAttempts]

TypeOK ==
  /\ chain \in Chains
  /\ live \subseteq ever /\ ever \subseteq Subs /\ hookOn \subseteq ever
  /\ jobs \subseteq JobData
  /\ \A a \in active : a.job \in JobData /\ a.new \subseteq Items
  /\ stored \subseteq Items /\ cut \subseteq stored
  /\ hookJob \in [Keys -> [state : {"absent", "waiting", "done", "failed"}, tries : 0..HookAttempts]]
  /\ received \in [Keys -> Nat] /\ unseen \in [Keys -> 0..MaxFaults]
  /\ faults \in 0..MaxFaults

Init ==
  /\ CursorInit /\ chain \in Chains
  /\ ever = {} /\ hookOn = {} /\ jobs = {} /\ active = {} /\ stored = {} /\ cut = {}
  /\ hookJob = [k \in Keys |-> NoHookJob] /\ received = [k \in Keys |-> 0]
  /\ unseen = [k \in Keys |-> 0]
  /\ faults = 0

Fault == faults < MaxFaults /\ faults' = faults + 1

----------------------------------------------------------------------------
(* The chain, the routes and the indexers                                  *)

Produce ==
  /\ head < MaxHead /\ NewBlock
  /\ UNCHANGED <<ever, hookOn, chain, workVars, hookVars, faults>>

\* The webhook is inserted, then the subscription that points to it.
CreateSubscription(s) ==
  /\ s \notin ever /\ Subscribe(s)
  /\ ever' = ever \cup {s} /\ hookOn' = hookOn \cup {s}
  /\ UNCHANGED <<chain, workVars, hookVars, faults>>

\* The subscription is deleted, then its webhook revoked.
RemoveSubscription(s) ==
  /\ Unsubscribe(s)
  /\ hookOn' = hookOn \ {s}
  /\ UNCHANGED <<ever, chain, workVars, hookVars, faults>>

\* POST /webhooks/revoke of a subscription's webhook.
RevokeWebhook(s) ==
  /\ s \in hookOn
  /\ hookOn' = hookOn \ {s}
  /\ UNCHANGED <<cursorVars, ever, chain, workVars, hookVars, faults>>

\* Mutant: the range is queried once.
RangeJobs_NoRequery(k, f, t, filters) ==
  {[kind |-> k, from |-> f, to |-> t, filters |-> filters, n |-> 0, left |-> 1]}

\* Queue.add: one job at once, and one per requery delay; the last retries.
RangeJobs(k, f, t, filters) ==
  {[kind |-> k, from |-> f, to |-> t, filters |-> filters, n |-> n,
    left |-> IF n = Requeries THEN LastAttempts ELSE 1] : n \in 0..Requeries}

\* An indexer hands the blocks from the cursor on to a queue; the subscriptions come
\* from the table in no particular order.
EnqueueRange(k, t, S) ==
  /\ row # NoRow /\ S # {} /\ S \subseteq ever
  /\ Cardinality(handed) < MaxRanges /\ BlockRange(k, row, t, S) \notin handed
  /\ Hand(k, row, t, S)
  /\ \E filters \in SetToSeqs(S) : jobs' = jobs \cup RangeJobs(k, row, t, filters)
  /\ UNCHANGED <<ever, hookOn, chain, active, stored, cut, hookVars, faults>>

MoveCursor(t) ==
  /\ Advance(t) \/ Restart(t)
  /\ UNCHANGED <<ever, hookOn, chain, workVars, hookVars, faults>>

----------------------------------------------------------------------------
(* processEventLogsWorker and processTransactionReceiptsWorker             *)

InRange(j, i) == i.kind = j.kind /\ j.from <= i.block /\ i.block <= j.to

\* getLogs: one query per filter; a filter whose names the ABI does not know is an
\* empty filter, and that returns every event.
LogMatches(filters, i) ==
  \E n \in DOMAIN filters :
    LET s == filters[n] IN
    /\ Contract[s] = i.contract
    /\ i.name \in Filter[s]["logs"] \/ Filter[s]["logs"] \cap Abi = {}

HasConfig(filters, c) == \E n \in DOMAIN filters : Contract[filters[n]] = c

\* addressConfig: of several filters for one address the last one stays.
FunctionsOf(filters, c) ==
  LET mine == {n \in DOMAIN filters : Contract[filters[n]] = c}
  IN  Filter[filters[CHOOSE n \in mine : \A m \in mine : m <= n]]["receipts"]

\* getFormattedTransactionReceipts: without a function filter no name is looked up.
ReceiptMatches(filters, i) ==
  /\ HasConfig(filters, i.contract)
  /\ FunctionsOf(filters, i.contract) = {} \/ i.name \in FunctionsOf(filters, i.contract)

Matching(j) ==
  {i \in chain : InRange(j, i) /\ IF j.kind = "logs" THEN LogMatches(j.filters, i)
                                                     ELSE ReceiptMatches(j.filters, i)}

\* getFunctionName: decodeFunctionData throws for a call whose selector is not in the ABI,
\* and the Promise.all over the blocks rejects.
Undecodable(j) ==
  /\ j.kind = "receipts"
  /\ \E i \in chain : /\ InRange(j, i) /\ HasConfig(j.filters, i.contract)
                      /\ FunctionsOf(j.filters, i.contract) # {} /\ i.name \notin Abi

\* bulkInsert with skipDuplicates, which returns only the new rows.
Insert(j, R) ==
  /\ stored' = stored \cup R
  /\ active' = IF R \subseteq stored THEN active
               ELSE active \cup {[job |-> j, new |-> R \ stored]}
  /\ jobs' = jobs \ {j}
  /\ UNCHANGED <<cursorVars, ever, hookOn, chain, cut, hookVars>>

\* The query is answered in full and its items inserted.
HandlerInsert(j) ==
  /\ ~Undecodable(j)
  /\ Insert(j, Matching(j))
  /\ UNCHANGED faults

\* A node that is behind answers with part of the items.
HandlerPartial(j) ==
  /\ Fault
  /\ \E R \in SUBSET Matching(j) : Insert(j, R)

\* Mutant: the last attempt is tried again.
HandlerThrow_OffByOne(j) ==
  /\ Fault
  /\ jobs' = (jobs \ {j}) \cup {[j EXCEPT !.left = @ - 1]}
  /\ UNCHANGED <<cursorVars, ever, hookOn, chain, active, stored, cut, hookVars>>

\* A query throws, or a call cannot be decoded: the job fails, or is tried again.
HandlerThrow(j) ==
  /\ (Undecodable(j) /\ UNCHANGED faults) \/ (~Undecodable(j) /\ Fault)
  /\ jobs' = (jobs \ {j}) \cup (IF j.left > 1 THEN {[j EXCEPT !.left = @ - 1]} ELSE {})
  /\ UNCHANGED <<cursorVars, ever, hookOn, chain, active, stored, cut, hookVars>>

\* getWebhooksByContractAddresses: the webhooks of all live subscriptions of the
\* item's contract; revoked ones are skipped by enqueueWebhook.
WebhooksOf(i) == {Url[s] : s \in {u \in live \cap hookOn : Contract[u] = i.contract}}

\* Queue.add with a jobId: nothing happens while a job of that id exists.
Enqueued(K) ==
  [k \in Keys |-> IF k \in K /\ hookJob[k].state = "absent"
                  THEN [state |-> "waiting", tries |-> 0] ELSE hookJob[k]]

HandlerNotify(a) ==
  /\ hookJob' = Enqueued({k \in Keys : k[2] \in a.new /\ k[1] \in WebhooksOf(k[2])})
  /\ active' = active \ {a}
  /\ UNCHANGED <<cursorVars, ever, hookOn, chain, jobs, stored, cut, received, unseen, faults>>

\* The worker stops before the loop over the inserted rows is over; BullMQ gives the
\* stalled job to a worker again.
HandlerCrash(a) ==
  /\ Fault
  /\ \E part \in SUBSET a.new :
       hookJob' = Enqueued({k \in Keys : k[2] \in part /\ k[1] \in WebhooksOf(k[2])})
  /\ active' = active \ {a} /\ jobs' = jobs \cup {a.job}
  /\ cut' = cut \cup a.new
  /\ UNCHANGED <<cursorVars, ever, hookOn, chain, stored, received, unseen>>

----------------------------------------------------------------------------
(* sendWebhookWorker                                                       *)

\* Mutant: an accepted call is tried again.
Deliver_Throws(k) ==
  /\ hookJob[k].state = "waiting" /\ hookJob[k].tries < HookAttempts
  /\ hookJob' = [hookJob EXCEPT ![k].tries = @ + 1]
  /\ received' = [received EXCEPT ![k] = @ + 1]
  /\ UNCHANGED <<cursorVars, ever, hookOn, chain, workVars, unseen, faults>>

\* The URL answers below 500: the job is done.
Deliver(k) ==
  /\ hookJob[k].state = "waiting"
  /\ hookJob' = [hookJob EXCEPT ![k].state = "done"]
  /\ received' = [received EXCEPT ![k] = @ + 1]
  /\ UNCHANGED <<cursorVars, ever, hookOn, chain, workVars, unseen, faults>>

\* Mutant: a failed call is dropped.
DeliverFails_Drops(k) ==
  /\ hookJob[k].state = "waiting" /\ Fault
  /\ hookJob' = [hookJob EXCEPT ![k] = NoHookJob]
  /\ UNCHANGED <<cursorVars, ever, hookOn, chain, workVars, received, unseen>>

\* The URL accepted the item, and the worker does not know.
AcceptedUnseen(k) ==
  /\ received' = [received EXCEPT ![k] = @ + 1]
  /\ unseen' = [unseen EXCEPT ![k] = @ + 1]

\* Thrown, so that the job is tried again while attempts are left: 5xx or no connection;
\* or the answer is lost or cannot be read, for which sendWebhookRequest says 500 too.
DeliverFails(k) ==
  /\ hookJob[k].state = "waiting" /\ Fault
  /\ hookJob' = [hookJob EXCEPT ![k] =
       [state |-> IF @.tries + 1 = HookAttempts THEN "failed" ELSE "waiting", tries |-> @.tries + 1]]
  /\ AcceptedUnseen(k) \/ UNCHANGED <<received, unseen>>
  /\ UNCHANGED <<cursorVars, ever, hookOn, chain, workVars>>

\* The worker stops after the call and before the job is marked done.
DeliverStalls(k) ==
  /\ hookJob[k].state = "waiting" /\ Fault
  /\ AcceptedUnseen(k)
  /\ UNCHANGED <<cursorVars, ever, hookOn, chain, workVars, hookJob>>

----------------------------------------------------------------------------
Next ==
  \/ Produce
  \/ \E s \in Subs : CreateSubscription(s) \/ RemoveSubscription(s) \/ RevokeWebhook(s)
  \/ \E k \in Kinds, t \in 0..head, S \in SUBSET ever : EnqueueRange(k, t, S)
  \/ \E t \in 0..head : MoveCursor(t)
  \/ \E j \in jobs : HandlerInsert(j) \/ HandlerPartial(j) \/ HandlerThrow(j)
  \/ \E a \in active : HandlerNotify(a) \/ HandlerCrash(a)
  \/ \E k \in Keys : Deliver(k) \/ DeliverFails(k) \/ DeliverStalls(k)

Spec == Init /\ [][Next]_vars

\* A worker does what is next in its queue; no failure is owed, except where the job
\* cannot but throw.
WorkerStep ==
  \/ \E j \in jobs : HandlerInsert(j) \/ (Undecodable(j) /\ HandlerThrow(j))
  \/ \E a \in active : HandlerNotify(a)
  \/ \E k \in Keys : Deliver(k)

FairSpec == Spec /\ WF_vars(WorkerStep)

----------------------------------------------------------------------------
\* Item i is what subscription s asked for.
Asked(s, i) ==
  /\ Contract[s] = i.contract /\ i.kind \in Wants[s]
  /\ Filter[s][i.kind] = {} \/ i.name \in Filter[s][i.kind]

\* A range of receipts that can fail item i however often it is queried: another
\* subscription of the contract filters i out (the last filter stays), or a call to a
\* contract with a function filter cannot be decoded.
Spoiled(r, i) ==
  /\ r.kind = "receipts"
  /\ \E s \in r.subs :
       /\ Filter[s]["receipts"] # {}
       /\ \/ Contract[s] = i.contract /\ i.name \notin Filter[s]["receipts"]
          \/ \E x \in chain : /\ x.kind = r.kind /\ x.contract = Contract[s]
                              /\ r.from <= x.block /\ x.block <= r.to /\ x.name \notin Abi

\* Again and again everything a live subscription asked for, in blocks after its creation
\* that the cursor has passed, was handed over and is in its table, though nodes answer too
\* early or fail: the delayed jobs query the range again.  Receipts are lost only where
\* every range that was handed over for them is spoiled.
ItemsStored ==
  []<>(\A s \in live, i \in chain :
         Asked(s, i) /\ born[s] < i.block /\ i.block <= row =>
           LET ranges == {r \in handed : /\ r.kind = i.kind /\ s \in r.subs
                                         /\ r.from <= i.block /\ i.block <= r.to}
           IN  ranges # {} /\ (i \in stored \/ \A r \in ranges : Spoiled(r, i)))

\* Again and again every stored item was accepted by, or given up for, the webhook of each
\* subscription that was there before it, unless the handler was stopped between its
\* insert and its enqueueing loop (the rerun inserts nothing and notifies nobody).
ItemsAnnounced ==
  []<>(\A s \in live \cap hookOn, i \in stored \ cut :
         Contract[s] = i.contract /\ born[s] < i.block =>
           hookJob[<<Url[s], i>>].state \in {"done", "failed"})

\* However often ranges overlap and are queried again, and however many subscriptions
\* share a URL, the URL accepts an item again only after a call whose acceptance the worker
\* never learned of: the answer was lost, or the worker stopped.
ReceivedOnce == \A k \in Keys : received[k] <= 1 + unseen[k]
=============================================================================
