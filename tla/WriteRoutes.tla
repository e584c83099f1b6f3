---------------------------- MODULE WriteRoutes ----------------------------
(***************************************************************************)
(* From a write request to a queued transaction: the handlers of           *)
(* RouteCalls, queueTx or queueTransaction, and insertTransaction, one     *)
(* action per await, with clients that send a request again while they have*)
(* no answer.  What becomes of a queued transaction is TxLifecycle.        *)
(***************************************************************************)
EXTENDS RouteCalls, Naturals, Sequences

CONSTANTS
  Clients,    \* each has one request to make, and a key of its own
  OptionSets, \* sets of options a client may use
  BatchSize,  \* transactions in the body of send-transaction-batch
  MaxTries,   \* bound: times a client sends its request
  MaxFaults   \* bound: failed calls, lost answers and stopped servers

ASSUME RoutesAssumption ==
  /\ OptionSets \subseteq SUBSET Options
  /\ BatchSize \in Nat \ {0} /\ MaxTries \in Nat /\ MaxFaults \in Nat

Handlers == Clients \X (1..MaxTries)

\* A queueId is the client's key (item 0) or a random UUID for the item of one handler.
KeyOf(c) == [for |-> c, try |-> 0, item |-> 0]
Uuid(h, i) == [for |-> h[1], try |-> h[2], item |-> i]
QueueIds == [for : Clients, try : 0..MaxTries, item : 0..BatchSize]

VARIABLES
  req,       \* per client: its request (route and options used)
  tries,     \* per client: how often it was sent
  heard,     \* per client: the answer it has
  got,       \* per client: the queueIds of that answer
  pc,        \* per handler: where it is
  id,        \* per handler: the queueId insertTransaction works on
  ids,       \* per handler: the queueIds of the items it is done with
  stored,    \* per handler: the queueIds it stored (history)
  db,        \* TransactionDB: records of queued transactions
  jobs,      \* send jobs that were added
  cached,    \* clients whose new account is in the account-factory cache
  submitted, \* handlers that submitted a transaction themselves
  raced,     \* handlers that looked their key up while another was about to store it
             \* (history)
  cut,       \* queueIds whose handler ended between the store and the job (history)
  faults

vars == <<req, tries, heard, got, pc, id, ids, stored, db, jobs, cached, submitted, raced, cut,
          faults>>

PCs == {"unsent", "prepare", "submit", "insert", "simulate", "store", "enqueue", "factory",
        "ok", "refused", "failed", "over"}

Requests == {r \in [route : Routes, options : OptionSets] :
               r.options \subseteq r.route.declares \cup r.route.takes}

Route(c)  == req[c].route
Used(c)   == req[c].options
Takes(c, o) == o \in Used(c) \cap Route(c).takes
Batch(c)  == Route(c) = sendTransactionBatch
Items(c)  == IF Batch(c) THEN BatchSize ELSE 1

TypeOK ==
  /\ req \in [Clients -> Requests]
  /\ tries \in [Clients -> 0..MaxTries]
  /\ heard \in [Clients -> {"nothing", "ok", "refused", "failed"}]
  /\ got \in [Clients -> SUBSET QueueIds]
  /\ pc \in [Handlers -> PCs]
  /\ id \in [Handlers -> QueueIds]
  /\ ids \in [Handlers -> Seq(QueueIds)] /\ \A h \in Handlers : Len(ids[h]) <= Items(h[1])
  /\ stored \in [Handlers -> SUBSET QueueIds]
  /\ \A t \in db : t.queueId \in QueueIds /\ t.options \subseteq Options
  /\ jobs \subseteq QueueIds /\ cut \subseteq QueueIds
  /\ cached \subseteq Clients /\ submitted \subseteq Handlers /\ raced \subseteq Handlers
  /\ faults \in 0..MaxFaults

Init ==
  /\ req \in [Clients -> Requests]
  /\ tries = [c \in Clients |-> 0]
  /\ heard = [c \in Clients |-> "nothing"]
  /\ got = [c \in Clients |-> {}]
  /\ pc = [h \in Handlers |-> "unsent"]
  /\ id = [h \in Handlers |-> KeyOf(h[1])]
  /\ ids = [h \in Handlers |-> <<>>]
  /\ stored = [h \in Handlers |-> {}]
  /\ db = {} /\ jobs = {} /\ cached = {} /\ submitted = {} /\ raced = {} /\ cut = {}
  /\ faults = 0

Fault == faults < MaxFaults /\ faults' = faults + 1

Goto(h, l) == pc' = [pc EXCEPT ![h] = l]

----------------------------------------------------------------------------
(* The client                                                              *)

\* It sends the request again while it has no answer or a 500, whether or not an
\* earlier handler is still at work.
Send(c) ==
  /\ heard[c] \in {"nothing", "failed"} /\ tries[c] < MaxTries
  /\ tries' = [tries EXCEPT ![c] = @ + 1]
  /\ heard' = [heard EXCEPT ![c] = "nothing"]
  /\ Goto(<<c, tries[c] + 1>>, "prepare")
  /\ UNCHANGED <<req, got, id, ids, stored, db, jobs, cached, submitted, cut, faults, raced>>

\* reply.send or the error handler; nobody listens once the client has an answer.
Reply(h) ==
  LET c == h[1] IN
  /\ pc[h] \in {"ok", "refused", "failed"}
  /\ Goto(h, "over")
  /\ IF heard[c] = "nothing"
     THEN /\ heard' = [heard EXCEPT ![c] = pc[h]]
          /\ got' = [got EXCEPT ![c] = IF pc[h] = "ok" THEN {ids[h][i] : i \in DOMAIN ids[h]} ELSE {}]
     ELSE UNCHANGED <<heard, got>>
  /\ UNCHANGED <<req, tries, id, ids, stored, db, jobs, cached, submitted, cut, faults, raced>>

ReplyLost(h) ==
  /\ pc[h] \in {"ok", "refused", "failed"} /\ Fault
  /\ Goto(h, "over")
  /\ UNCHANGED <<req, tries, heard, got, id, ids, stored, db, jobs, cached, submitted, cut, raced>>

----------------------------------------------------------------------------
(* The handler, up to the queue                                            *)

\* getChainIdFromChain, getContract or getSdk, prepare; for a deployment tx.simulate, for
\* a new account predictAccountAddress, for the relayer its row and checks.
Prepare(h) ==
  /\ pc[h] = "prepare"
  /\ Goto(h, IF Route(h[1]).via = "direct" THEN "submit" ELSE "insert")
  /\ UNCHANGED <<req, tries, heard, got, id, ids, stored, db, jobs, cached, submitted, cut, faults, raced>>

\* Any of these may find the request invalid.
Refuse(h) ==
  /\ pc[h] = "prepare"
  /\ Goto(h, "refused")
  /\ UNCHANGED <<req, tries, heard, got, id, ids, stored, db, jobs, cached, submitted, cut, faults, raced>>

\* withdraw: account.sendTransaction, and a 400 if it throws.
Submit(h) ==
  /\ pc[h] = "submit"
  /\ \/ submitted' = submitted \cup {h} /\ Goto(h, "ok")
     \/ UNCHANGED submitted /\ Goto(h, "refused")
  /\ UNCHANGED <<req, tries, heard, got, id, ids, stored, db, jobs, cached, cut, faults, raced>>

\* What a handler does when its last transaction is queued.
Queued(c) == IF Route(c) = createAccount THEN "factory" ELSE "ok"

\* The item is in the queue: on to the next one, or to the answer.
ItemDone(h, q) ==
  /\ ids' = [ids EXCEPT ![h] = Append(@, q)]
  /\ Goto(h, IF Len(ids[h]) + 1 < Items(h[1]) THEN "insert" ELSE Queued(h[1]))

----------------------------------------------------------------------------
(* insertTransaction                                                       *)

Exists(q) == \E t \in db : t.queueId = q

\* The key is known: the existing queueId is the answer.
InsertKnown(h) ==
  /\ pc[h] = "insert" /\ Takes(h[1], "key") /\ Exists(KeyOf(h[1]))
  /\ ItemDone(h, KeyOf(h[1]))
  /\ UNCHANGED <<req, tries, heard, got, id, stored, db, jobs, cached, submitted, cut, faults, raced>>

\* Another handler of this client has found no record and has not stored its own.
AboutToStore(k) == pc[k] \in {"simulate", "store"}
Overlaps(h) == \E k \in Handlers : k # h /\ k[1] = h[1] /\ AboutToStore(k)

\* Mutant: the record is not looked up.
InsertNew_NoCheck(h) ==
  /\ pc[h] = "insert"
  /\ id' = [id EXCEPT ![h] = IF Takes(h[1], "key") THEN KeyOf(h[1]) ELSE Uuid(h, Len(ids[h]) + 1)]
  /\ raced' = IF Takes(h[1], "key") /\ Overlaps(h) THEN raced \cup {h} ELSE raced
  /\ Goto(h, IF Takes(h[1], "simulate") THEN "simulate" ELSE "store")
  /\ UNCHANGED <<req, tries, heard, got, ids, stored, db, jobs, cached, submitted, cut, faults>>

\* Mutant: the transaction is simulated after it was stored.
InsertNew_StoreFirst(h) ==
  /\ pc[h] = "insert" /\ ~(Takes(h[1], "key") /\ Exists(KeyOf(h[1])))
  /\ id' = [id EXCEPT ![h] = IF Takes(h[1], "key") THEN KeyOf(h[1]) ELSE Uuid(h, Len(ids[h]) + 1)]
  /\ stored' = [stored EXCEPT ![h] = @ \cup {id'[h]}]
  /\ Goto(h, IF Takes(h[1], "simulate") THEN "simulate" ELSE "store")
  /\ UNCHANGED <<req, tries, heard, got, ids, db, jobs, cached, submitted, cut, faults, raced>>

\* It is not, or there is none.
InsertNew(h) ==
  /\ pc[h] = "insert" /\ ~(Takes(h[1], "key") /\ Exists(KeyOf(h[1])))
  /\ id' = [id EXCEPT ![h] = IF Takes(h[1], "key") THEN KeyOf(h[1]) ELSE Uuid(h, Len(ids[h]) + 1)]
  /\ raced' = IF Takes(h[1], "key") /\ Overlaps(h) THEN raced \cup {h} ELSE raced
  /\ Goto(h, IF Takes(h[1], "simulate") THEN "simulate" ELSE "store")
  /\ UNCHANGED <<req, tries, heard, got, ids, stored, db, jobs, cached, submitted, cut, faults>>

\* doSimulateTransaction: a 400 when it fails.
Simulate(h) ==
  /\ pc[h] = "simulate"
  /\ Goto(h, "store") \/ Goto(h, "refused")
  /\ UNCHANGED <<req, tries, heard, got, id, ids, stored, db, jobs, cached, submitted, cut, faults, raced>>

\* BigInt(value) of an item of the batch throws when it is that item's turn.
BadItem(h) ==
  /\ pc[h] = "insert" /\ Batch(h[1])
  /\ Goto(h, "failed")
  /\ UNCHANGED <<req, tries, heard, got, id, ids, stored, db, jobs, cached, submitted, cut, faults, raced>>

\* Mutant: the account is left out of the transaction.
Kept_NoAccount(c) == Used(c) \cap Route(c).takes \cap Overrides

\* The options that end up in the transaction; the factory only with an account.
Kept(c) ==
  LET o == Used(c) \cap Route(c).takes \cap {"account", "factory", "gas", "value"}
  IN  IF "account" \in o THEN o ELSE o \ {"factory"}

\* The prepared call's own value is lost in queueTransaction.
OwnValue(c) == Route(c).via # "queueTransaction" /\ "value" \notin Kept(c)

\* queueTx, queueTransaction or the handler puts the transaction together.
Transaction(c, q) ==
  [queueId |-> q, for |-> c, extension |-> Route(c).extension, call |-> Route(c).call,
   args |-> Route(c).args, deployed |-> Route(c).deployed,
   options |-> Kept(c), ownValue |-> OwnValue(c)]

\* TransactionDB.set replaces a record of that id.
Store(h) ==
  /\ pc[h] = "store"
  /\ db' = {t \in db : t.queueId # id[h]} \cup {Transaction(h[1], id[h])}
  /\ stored' = [stored EXCEPT ![h] = @ \cup {id[h]}]
  /\ Goto(h, "enqueue")
  /\ UNCHANGED <<req, tries, heard, got, id, ids, jobs, cached, submitted, cut, faults, raced>>

\* Mutant: the item is answered and its job forgotten.
Enqueue_NoJob(h) ==
  /\ pc[h] = "enqueue"
  /\ ItemDone(h, id[h])
  /\ UNCHANGED <<req, tries, heard, got, id, stored, db, jobs, cached, submitted, cut, faults, raced>>

\* Mutant: the answer lists an item twice.
Enqueue_Twice(h) ==
  /\ pc[h] = "enqueue"
  /\ jobs' = jobs \cup {id[h]}
  /\ ids' = [ids EXCEPT ![h] = @ \o <<id[h], id[h]>>]
  /\ Goto(h, IF Len(ids[h]) + 1 < Items(h[1]) THEN "insert" ELSE Queued(h[1]))
  /\ UNCHANGED <<req, tries, heard, got, id, stored, db, cached, submitted, cut, faults, raced>>

\* SendTransactionQueue.add.
Enqueue(h) ==
  /\ pc[h] = "enqueue"
  /\ jobs' = jobs \cup {id[h]}
  /\ ItemDone(h, id[h])
  /\ UNCHANGED <<req, tries, heard, got, id, stored, db, cached, submitted, cut, faults, raced>>

\* createAccount: redis.set of the account's factory.
CacheFactory(h) ==
  /\ pc[h] = "factory"
  /\ cached' = cached \cup {h[1]}
  /\ Goto(h, "ok")
  /\ UNCHANGED <<req, tries, heard, got, id, ids, stored, db, jobs, submitted, cut, faults, raced>>

Working(h) == pc[h] \in {"prepare", "submit", "insert", "simulate", "store", "enqueue", "factory"}

\* The handler ends here; a stored transaction may be left without its job.
Ends(h, l) ==
  /\ Working(h) /\ Fault
  /\ Goto(h, l)
  /\ cut' = IF pc[h] = "enqueue" THEN cut \cup {id[h]} ELSE cut
  /\ UNCHANGED <<req, tries, heard, got, id, ids, stored, db, jobs, cached, submitted, raced>>

Throw(h) == Ends(h, "failed")
Stop(h)  == Ends(h, "over")

----------------------------------------------------------------------------
Step(h) == \/ Prepare(h) \/ Submit(h) \/ InsertKnown(h) \/ InsertNew(h) \/ Simulate(h)
           \/ Store(h) \/ Enqueue(h) \/ CacheFactory(h) \/ Reply(h)

Next ==
  \/ \E c \in Clients : Send(c)
  \/ \E h \in Handlers : Step(h) \/ Refuse(h) \/ BadItem(h) \/ Throw(h) \/ Stop(h) \/ ReplyLost(h)

Spec == Init /\ [][Next]_vars

\* A handler that is running goes on; clients need not send anything.
FairSpec == Spec /\ \A h \in Handlers : WF_vars(Step(h))

----------------------------------------------------------------------------
\* A key is stored once.  Of two handlers that both stored a transaction under it, one made
\* its lookup while another was between its own lookup and its store: the check of
\* insertTransaction and the TransactionDB.set after it are not one step, and nothing else
\* makes a second record (and, if the first job is gone by then, a second transaction).
KeyedOnce ==
  \A c \in Clients : \A m, n \in 1..MaxTries :
    Takes(c, "key") /\ m # n /\ stored[<<c, m>>] # {} /\ stored[<<c, n>>] # {} =>
      <<c, m>> \in raced \/ <<c, n>> \in raced

\* A request that is answered with a 400, be it by a validation, a relayer's rule or the
\* simulation, has stored no transaction.
RefusedLeavesNothing == \A h \in Handlers : pc[h] = "refused" => stored[h] = {}

\* A transaction in the queue is sent as the client asked: from its account, with its gas
\* and, on the routes that do not take the value from the body, with its value.
SentAsAsked ==
  \A t \in db :
    /\ {"account", "gas"} \cap Used(t.for) \cap (Route(t.for).declares \cup {"account"}) \subseteq t.options
    /\ "value" \in Used(t.for) /\ Route(t.for).via # "insert" => "value" \in t.options

\* A client that was given a queueId has a send job for it sooner or later, unless a
\* handler ended between storing the transaction and adding the job.
AnsweredGetsQueued ==
  \A c \in Clients : (heard[c] = "ok") ~> (got[c] \subseteq jobs \cup cut)
=============================================================================
