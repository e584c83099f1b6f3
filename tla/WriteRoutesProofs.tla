-------------------------- MODULE WriteRoutesProofs --------------------------
(***************************************************************************)
(* WriteRoutes, for any number of clients, tries, items and failures:      *)
(* types, when an idempotency key is stored twice, no transaction of a     *)
(* refused request, and transactions that are sent as the client asked.    *)
(***************************************************************************)
EXTENDS WriteRoutes, TLAPS

----------------------------------------------------------------------------
(* The table of routes                                                     *)

\* A route hands on the account and the gas a client may set, and the value if it is not
\* in the body.
HandsOn(r) ==
  /\ {"account", "gas"} \cap r.declares \subseteq r.takes
  /\ "value" \in r.declares /\ r.via # "insert" => "value" \in r.takes

\* A handler that prepares an extension's call and queues it with queueTx does.
LEMMA ExtensionHandsOn == \A e, c, a : HandsOn(Extension(e, c, a))
  BY DEF HandsOn, Extension, Options, Overrides

\* So does one of the English auctions.
LEMMA AuctionHandsOn == \A c, a : HandsOn(Auction(c, a))
  BY DEF HandsOn, Auction, Extension, Options, Overrides

\* So does one that uses queueTransaction.
LEMMA V5HandsOn == \A c, a : HandsOn(V5(c, a))
  BY DEF HandsOn, V5, Options, Overrides

\* So does a deployment.
LEMMA PrebuiltHandsOn == \A t : HandsOn(Prebuilt(t))
  BY DEF HandsOn, Prebuilt, Options, Overrides

\* The relayer declares no option.
LEMMA RelayHandsOn == \A c, a : HandsOn(Relay(c, a))
  BY DEF HandsOn, Relay

\* The backend wallet's routes do, each in its own way.
LEMMA WalletHandsOn == \A r \in WalletRoutes : HandsOn(r)
<1>1. HandsOn(sendTransaction)
  BY DEF HandsOn, sendTransaction, Options, Overrides
<1>2. HandsOn(sendTransactionBatch)
  BY DEF HandsOn, sendTransactionBatch, sendTransaction, Options, Overrides
<1>3. HandsOn(transferNative)
  BY DEF HandsOn, transferNative, sendTransaction, Options, Overrides
<1>4. HandsOn(transfer)
  BY DEF HandsOn, transfer, transferNative, sendTransaction, Options, Overrides
<1>5. HandsOn(withdraw)
  BY DEF HandsOn, withdraw, transfer, transferNative, sendTransaction, Options, Overrides
<1> QED BY <1>1, <1>2, <1>3, <1>4, <1>5, Zenon DEF WalletRoutes

\* Every registered route does.
LEMMA RoutesHandOn == \A r \in Routes : HandsOn(r)
<1>1. HandsOn(createAccount) /\ HandsOn(erc721SignatureMintV5) /\ HandsOn(deployPrebuilt)
      /\ HandsOn(deployPublished)
  BY DEF HandsOn, createAccount, erc721SignatureMintV5, deployPrebuilt, deployPublished, Extension, V5,
    Prebuilt, Options, Overrides
<1>2. \A r \in AccountRoutes : HandsOn(r)
  BY <1>1, ExtensionHandsOn, Zenon DEF AccountRoutes,
    grantAdmin, grantSession, revokeAdmin, revokeSession, updateSession
<1>3. \A r \in TokenRoutes : HandsOn(r)
  BY <1>1, ExtensionHandsOn, Zenon DEF TokenRoutes,
    erc20burn, erc20burnFrom, erc20mintBatchTo, erc20mintTo, erc20SetAlowance,
    erc20SetClaimConditions, erc20SignatureMint, erc20Transfer, erc20TransferFrom,
    erc20UpdateClaimConditions, erc721burn, erc721lazyMint, erc721mintBatchTo, erc721mintTo,
    erc721SetApprovalForAll, erc721SetApprovalForToken, erc721SetClaimConditions,
    erc721transfer, erc721transferFrom, erc721UpdateClaimConditions, erc721UpdateTokenMetadata,
    erc1155airdrop, erc1155burn, erc1155burnBatch, erc1155lazyMint,
    erc1155mintAdditionalSupplyTo, erc1155mintBatchTo, erc1155mintTo, erc1155SetApprovalForAll,
    erc1155SetBatchClaimConditions, erc1155SetClaimCondition, erc1155SignatureMint,
    erc1155transfer, erc1155transferFrom, erc1155UpdateClaimConditions,
    erc1155UpdateTokenMetadata, erc721SignatureMint
<1>4. \A r \in V5Routes : HandsOn(r)
  BY <1>1, V5HandsOn, Zenon DEF V5Routes,
    erc20claimTo, erc721claimTo, erc1155claimTo, writeToContract
<1>5. \A r \in MarketRoutes : HandsOn(r)
  BY <1>1, ExtensionHandsOn, Zenon DEF MarketRoutes,
    grantRole, revokeRole, setDefaultRoyaltyInfo, setTokenRoyaltyInfo,
    directListingsApproveBuyerForReservedListing, directListingsBuyFromListing,
    directListingsCancelListing, directListingsCreateListing,
    directListingsRevokeBuyerApprovalForReservedListing,
    directListingsRevokeCurrencyApprovalForListing, directListingsUpdateListing,
    offersAcceptOffer, offersCancelOffer, offersMakeOffer
<1>6. \A r \in AuctionRoutes : HandsOn(r)
  BY <1>1, AuctionHandsOn, Zenon DEF AuctionRoutes,
    englishAuctionsBuyoutAuction, englishAuctionsCancelAuction,
    englishAuctionsCloseAuctionForBidder, englishAuctionsCloseAuctionForSeller,
    englishAuctionsCreateAuction, englishAuctionsExecuteSale, englishAuctionsMakeBid
<1>7. \A r \in DeployRoutes : HandsOn(r)
  BY <1>1, PrebuiltHandsOn, Zenon DEF DeployRoutes,
    deployPrebuiltEdition, deployPrebuiltEditionDrop, deployPrebuiltMarketplaceV3,
    deployPrebuiltMultiwrap, deployPrebuiltNFTCollection, deployPrebuiltNFTDrop,
    deployPrebuiltPack, deployPrebuiltSignatureDrop, deployPrebuiltSplit, deployPrebuiltToken,
    deployPrebuiltTokenDrop, deployPrebuiltVote
<1>8. \A r \in RelayRoutes : HandsOn(r)
  BY <1>1, RelayHandsOn, Zenon DEF RelayRoutes,
    relayExecuteMetaTransaction, relayPermit, relayForward
<1> QED BY <1>2, <1>3, <1>4, <1>5, <1>6, <1>7, <1>8, WalletHandsOn, Zenon DEF Routes

\* The batch route takes no option that is about a single transaction.
LEMMA BatchTakes == sendTransactionBatch.takes = {"gas"}
  BY DEF sendTransactionBatch, sendTransaction

----------------------------------------------------------------------------
(* Types                                                                   *)

\* A handler belongs to a client and to one of its tries.
LEMMA HandlerParts ==
  ASSUME NEW h \in Handlers
  PROVE  h[1] \in Clients /\ h[2] \in 1..MaxTries
  BY DEF Handlers

\* A handler has one item, or those of a batch.
LEMMA ItemsType == \A c \in Clients : Items(c) \in 1..BatchSize
  BY RoutesAssumption DEF Items

\* Keys and random UUIDs are queueIds.
LEMMA QueueIdTypes ==
  ASSUME NEW h \in Handlers
  PROVE  /\ KeyOf(h[1]) \in QueueIds
         /\ \A i \in 1..BatchSize : Uuid(h, i) \in QueueIds
  BY HandlerParts, RoutesAssumption DEF KeyOf, Uuid, QueueIds

\* What a handler has done follows from where it is: nothing before its first insert, and
\* an item is left while it is inserting.
Progress ==
  /\ \A h \in Handlers :
       /\ pc[h] \in {"unsent", "prepare", "submit"} => ids[h] = <<>> /\ stored[h] = {}
       /\ pc[h] \in {"insert", "simulate", "store", "enqueue"} => Len(ids[h]) < Items(h[1])
  /\ \A c \in Clients, n \in 1..MaxTries : n > tries[c] => pc[<<c, n>>] = "unsent"

\* Every step keeps the types.
LEMMA TypeStep ==
  ASSUME TypeOK, Progress, [Next]_vars
  PROVE  TypeOK'
<1> USE RoutesAssumption
<1>1. ASSUME NEW c \in Clients, Send(c) PROVE TypeOK'
  <2>1. <<c, tries[c] + 1>> \in Handlers /\ tries[c] + 1 \in 0..MaxTries
    BY <1>1 DEF Send, TypeOK, Handlers
  <2> QED BY <1>1, <2>1 DEF Send, Goto, TypeOK, PCs, Items, Batch, Route
<1>2. ASSUME NEW h \in Handlers, Prepare(h) PROVE TypeOK'
  BY <1>2 DEF Prepare, Goto, TypeOK, PCs, Items, Batch, Route
<1>3. ASSUME NEW h \in Handlers, Submit(h) PROVE TypeOK'
  BY <1>3 DEF Submit, Goto, TypeOK, PCs, Items, Batch, Route
<1>4. ASSUME NEW h \in Handlers, InsertKnown(h) PROVE TypeOK'
  <2>1. h[1] \in Clients /\ KeyOf(h[1]) \in QueueIds /\ Items(h[1]) \in Nat
    BY HandlerParts, QueueIdTypes, ItemsType DEF TypeOK
  <2>2. Len(ids[h]) < Items(h[1]) /\ ids[h] \in Seq(QueueIds)
    BY <1>4 DEF InsertKnown, Progress, TypeOK
  <2>3. /\ Append(ids[h], KeyOf(h[1])) \in Seq(QueueIds)
        /\ Len(Append(ids[h], KeyOf(h[1]))) <= Items(h[1])
    BY <2>1, <2>2
  <2>4. /\ ids' \in [Handlers -> Seq(QueueIds)] /\ req' = req
        /\ \A k \in Handlers : Len(ids'[k]) <= Items(k[1])
    BY <1>4, <2>3 DEF InsertKnown, ItemDone, TypeOK
  <2>5. pc' \in [Handlers -> PCs]
    BY <1>4 DEF InsertKnown, ItemDone, Goto, Queued, TypeOK, PCs
  <2> QED BY <1>4, <2>1, <2>4, <2>5 DEF InsertKnown, TypeOK, Items, Batch, Route
<1>5. ASSUME NEW h \in Handlers, InsertNew(h) PROVE TypeOK'
  <2>1. KeyOf(h[1]) \in QueueIds /\ Uuid(h, Len(ids[h]) + 1) \in QueueIds
    <3>1. Len(ids[h]) \in Nat /\ Len(ids[h]) < Items(h[1]) /\ Items(h[1]) \in 1..BatchSize
      BY <1>5, HandlerParts, ItemsType DEF InsertNew, Progress, TypeOK
    <3>2. Len(ids[h]) + 1 \in 1..BatchSize
      BY <3>1
    <3> QED BY <3>2, QueueIdTypes
  <2> QED BY <1>5, <2>1 DEF InsertNew, Goto, TypeOK, PCs, Items, Batch, Route
<1>6. ASSUME NEW h \in Handlers, Simulate(h) PROVE TypeOK'
  BY <1>6 DEF Simulate, Goto, TypeOK, PCs, Items, Batch, Route
<1>7. ASSUME NEW h \in Handlers, Store(h) PROVE TypeOK'
  <2>1. h[1] \in Clients /\ id[h] \in QueueIds
    BY HandlerParts DEF TypeOK
  <2>2. Transaction(h[1], id[h]).queueId \in QueueIds /\ Transaction(h[1], id[h]).options \subseteq Options
    BY <2>1 DEF Transaction, Kept, Options
  <2>3. stored' \in [Handlers -> SUBSET QueueIds]
    BY <1>7, <2>1 DEF Store, TypeOK
  <2>4. \A t \in db' : t.queueId \in QueueIds /\ t.options \subseteq Options
    BY <1>7, <2>2 DEF Store, TypeOK
  <2> QED BY <1>7, <2>3, <2>4 DEF Store, Goto, TypeOK, PCs, Items, Batch, Route
<1>8. ASSUME NEW h \in Handlers, Enqueue(h) PROVE TypeOK'
  <2>1. h[1] \in Clients /\ id[h] \in QueueIds /\ Items(h[1]) \in Nat
    BY HandlerParts, QueueIdTypes, ItemsType DEF TypeOK
  <2>2. Len(ids[h]) < Items(h[1]) /\ ids[h] \in Seq(QueueIds)
    BY <1>8 DEF Enqueue, Progress, TypeOK
  <2>3. /\ Append(ids[h], id[h]) \in Seq(QueueIds)
        /\ Len(Append(ids[h], id[h])) <= Items(h[1])
    BY <2>1, <2>2
  <2>4. /\ ids' \in [Handlers -> Seq(QueueIds)] /\ req' = req
        /\ \A k \in Handlers : Len(ids'[k]) <= Items(k[1])
    BY <1>8, <2>3 DEF Enqueue, ItemDone, TypeOK
  <2>5. pc' \in [Handlers -> PCs]
    BY <1>8 DEF Enqueue, ItemDone, Goto, Queued, TypeOK, PCs
  <2> QED BY <1>8, <2>1, <2>4, <2>5 DEF Enqueue, TypeOK, Items, Batch, Route
<1>9. ASSUME NEW h \in Handlers, CacheFactory(h) PROVE TypeOK'
  BY <1>9, HandlerParts DEF CacheFactory, Goto, TypeOK, PCs, Items, Batch, Route
<1>10. ASSUME NEW h \in Handlers, Reply(h) PROVE TypeOK'
  <2>1. h[1] \in Clients /\ {ids[h][i] : i \in DOMAIN ids[h]} \subseteq QueueIds
    BY HandlerParts DEF TypeOK
  <2>2. got' \in [Clients -> SUBSET QueueIds] /\ heard' \in [Clients -> {"nothing", "ok", "refused", "failed"}]
    BY <1>10, <2>1 DEF Reply, TypeOK
  <2> QED BY <1>10, <2>2 DEF Reply, Goto, TypeOK, PCs, Items, Batch, Route
<1>11. ASSUME NEW h \in Handlers, Refuse(h) PROVE TypeOK'
  BY <1>11 DEF Refuse, Goto, TypeOK, PCs, Items, Batch, Route
<1>12. ASSUME NEW h \in Handlers, BadItem(h) PROVE TypeOK'
  BY <1>12 DEF BadItem, Goto, TypeOK, PCs, Items, Batch, Route
<1>13. ASSUME NEW h \in Handlers, Throw(h) PROVE TypeOK'
  BY <1>13 DEF Throw, Ends, Goto, Fault, TypeOK, PCs, Items, Batch, Route
<1>14. ASSUME NEW h \in Handlers, Stop(h) PROVE TypeOK'
  BY <1>14 DEF Stop, Ends, Goto, Fault, TypeOK, PCs, Items, Batch, Route
<1>15. ASSUME NEW h \in Handlers, ReplyLost(h) PROVE TypeOK'
  BY <1>15 DEF ReplyLost, Goto, Fault, TypeOK, PCs, Items, Batch, Route
<1>16. CASE UNCHANGED vars
  BY <1>16 DEF vars, TypeOK, Items, Batch, Route
<1> QED BY <1>1, <1>2, <1>3, <1>4, <1>5, <1>6, <1>7, <1>8, <1>9, <1>10, <1>11, <1>12, <1>13, <1>14, <1>15, <1>16 DEF Next, Step

\* Every step keeps Progress.
LEMMA ProgressStep ==
  ASSUME TypeOK, Progress, [Next]_vars
  PROVE  Progress'
<1> USE DEF Progress, TypeOK
<1>1. ASSUME NEW c \in Clients, Send(c) PROVE Progress'
  <2>1. tries[c] + 1 \in 1..MaxTries /\ <<c, tries[c] + 1>> \in Handlers
    BY <1>1, RoutesAssumption DEF Send, Handlers
  <2>2. pc[<<c, tries[c] + 1>>] = "unsent"
    BY <1>1, <2>1
  <2>3. \A n \in 1..MaxTries : n > tries'[c] => n > tries[c] /\ n # tries[c] + 1
    BY <1>1, <2>1 DEF Send
  <2> QED BY <1>1, <2>1, <2>2, <2>3 DEF Send, Goto, Items, Batch, Route, Handlers
<1>2. ASSUME NEW h \in Handlers, Prepare(h) PROVE Progress'
  <2>1. ids[h] = <<>> /\ stored[h] = {} /\ Len(ids[h]) < Items(h[1])
    BY <1>2, HandlerParts, ItemsType DEF Prepare
  <2>2. \A c \in Clients, n \in 1..MaxTries : <<c, n>> = h => ~ (n > tries[c])
    BY <1>2 DEF Prepare, Handlers
  <2> QED BY <1>2, <2>1, <2>2 DEF Prepare, Goto, Items, Batch, Route, Handlers
<1>3. ASSUME NEW h \in Handlers, Submit(h) PROVE Progress'
  <2>1. CASE Goto(h, "ok")
    BY <1>3, <2>1 DEF Submit, Goto, Items, Batch, Route, Handlers
  <2>2. CASE Goto(h, "refused")
    BY <1>3, <2>2 DEF Submit, Goto, Items, Batch, Route, Handlers
  <2> QED BY <1>3, <2>1, <2>2 DEF Submit
<1>4. ASSUME NEW h \in Handlers, InsertKnown(h) PROVE Progress'
  BY <1>4, HandlerParts, ItemsType DEF InsertKnown, ItemDone, Goto, Items, Batch, Route, Handlers, Queued
<1>5. ASSUME NEW h \in Handlers, InsertNew(h) PROVE Progress'
  BY <1>5 DEF InsertNew, Goto, Items, Batch, Route, Handlers
<1>6. ASSUME NEW h \in Handlers, Simulate(h) PROVE Progress'
  <2>1. CASE Goto(h, "store")
    BY <1>6, <2>1 DEF Simulate, Goto, Items, Batch, Route, Handlers
  <2>2. CASE Goto(h, "refused")
    BY <1>6, <2>2 DEF Simulate, Goto, Items, Batch, Route, Handlers
  <2> QED BY <1>6, <2>1, <2>2 DEF Simulate
<1>7. ASSUME NEW h \in Handlers, Store(h) PROVE Progress'
  BY <1>7 DEF Store, Goto, Items, Batch, Route, Handlers
<1>8. ASSUME NEW h \in Handlers, Enqueue(h) PROVE Progress'
  BY <1>8, HandlerParts, ItemsType DEF Enqueue, ItemDone, Goto, Items, Batch, Route, Handlers, Queued
<1>9. ASSUME NEW h \in Handlers, CacheFactory(h) PROVE Progress'
  BY <1>9 DEF CacheFactory, Goto, Items, Batch, Route, Handlers
<1>10. ASSUME NEW h \in Handlers, Reply(h) PROVE Progress'
  BY <1>10 DEF Reply, Goto, Items, Batch, Route, Handlers
<1>11. ASSUME NEW h \in Handlers, Refuse(h) PROVE Progress'
  BY <1>11 DEF Refuse, Goto, Items, Batch, Route, Handlers
<1>12. ASSUME NEW h \in Handlers, BadItem(h) PROVE Progress'
  BY <1>12 DEF BadItem, Goto, Items, Batch, Route, Handlers
<1>13. ASSUME NEW h \in Handlers, Throw(h) PROVE Progress'
  <2>1. pc' = [pc EXCEPT ![h] = "failed"] /\ pc[h] # "unsent"
    BY <1>13 DEF Throw, Ends, Working, Goto
  <2>2. UNCHANGED <<req, tries, ids, stored>>
    BY <1>13 DEF Throw, Ends
  <2> QED BY <2>1, <2>2 DEF Items, Batch, Route, Handlers
<1>14. ASSUME NEW h \in Handlers, Stop(h) PROVE Progress'
  <2>1. pc' = [pc EXCEPT ![h] = "over"] /\ pc[h] # "unsent"
    BY <1>14 DEF Stop, Ends, Working, Goto
  <2>2. UNCHANGED <<req, tries, ids, stored>>
    BY <1>14 DEF Stop, Ends
  <2> QED BY <2>1, <2>2 DEF Items, Batch, Route, Handlers
<1>15. ASSUME NEW h \in Handlers, ReplyLost(h) PROVE Progress'
  BY <1>15 DEF ReplyLost, Goto, Fault, Items, Batch, Route, Handlers
<1>16. CASE UNCHANGED vars
  BY <1>16 DEF vars, Items, Batch, Route
<1> QED BY <1>1, <1>2, <1>3, <1>4, <1>5, <1>6, <1>7, <1>8, <1>9, <1>10, <1>11, <1>12, <1>13, <1>14, <1>15, <1>16 DEF Next, Step

\* The initial states have the types.
LEMMA TypeInit == Init => TypeOK /\ Progress
<1> SUFFICES ASSUME Init PROVE TypeOK /\ Progress
  OBVIOUS
<1>1. \A h \in Handlers : KeyOf(h[1]) \in QueueIds /\ Items(h[1]) \in Nat
  BY QueueIdTypes, HandlerParts, ItemsType
<1>2. TypeOK
  BY <1>1, RoutesAssumption DEF Init, TypeOK, PCs
<1>3. Progress
  BY RoutesAssumption DEF Init, Progress, Handlers
<1> QED BY <1>2, <1>3

\* Types of clients, handlers, records and jobs, for every route.
THEOREM TypeCorrect == Spec => []TypeOK
<1>1. TypeOK /\ Progress /\ [Next]_vars => (TypeOK /\ Progress)'
  BY TypeStep, ProgressStep
<1> QED BY <1>1, TypeInit, PTL DEF Spec

----------------------------------------------------------------------------
(* How often a key is stored                                               *)

\* A handler that hands the key on works on no other queueId.
Keyed == \A h \in Handlers : Takes(h[1], "key") => id[h] = KeyOf(h[1])

\* Every step keeps Keyed.
LEMMA KeyedStep ==
  ASSUME TypeOK, Keyed, [Next]_vars
  PROVE  Keyed'
<1> USE DEF Keyed, TypeOK
<1>1. ASSUME NEW c \in Clients, Send(c) PROVE Keyed'
  BY <1>1 DEF Send, Goto, Takes, Used, Route
<1>2. ASSUME NEW h \in Handlers, Prepare(h) PROVE Keyed'
  BY <1>2 DEF Prepare, Goto, Takes, Used, Route
<1>3. ASSUME NEW h \in Handlers, Submit(h) PROVE Keyed'
  BY <1>3 DEF Submit, Goto, Takes, Used, Route
<1>4. ASSUME NEW h \in Handlers, InsertKnown(h) PROVE Keyed'
  BY <1>4 DEF InsertKnown, ItemDone, Goto, Takes, Used, Route
<1>5. ASSUME NEW h \in Handlers, InsertNew(h) PROVE Keyed'
  BY <1>5 DEF InsertNew, Goto, Takes, Used, Route
<1>6. ASSUME NEW h \in Handlers, Simulate(h) PROVE Keyed'
  BY <1>6 DEF Simulate, Goto, Takes, Used, Route
<1>7. ASSUME NEW h \in Handlers, Store(h) PROVE Keyed'
  BY <1>7 DEF Store, Goto, Takes, Used, Route
<1>8. ASSUME NEW h \in Handlers, Enqueue(h) PROVE Keyed'
  BY <1>8 DEF Enqueue, ItemDone, Goto, Takes, Used, Route
<1>9. ASSUME NEW h \in Handlers, CacheFactory(h) PROVE Keyed'
  BY <1>9 DEF CacheFactory, Goto, Takes, Used, Route
<1>10. ASSUME NEW h \in Handlers, Reply(h) PROVE Keyed'
  BY <1>10 DEF Reply, Goto, Takes, Used, Route
<1>11. ASSUME NEW h \in Handlers, Refuse(h) PROVE Keyed'
  BY <1>11 DEF Refuse, Goto, Takes, Used, Route
<1>12. ASSUME NEW h \in Handlers, BadItem(h) PROVE Keyed'
  BY <1>12 DEF BadItem, Goto, Takes, Used, Route
<1>13. ASSUME NEW h \in Handlers, Throw(h) PROVE Keyed'
  BY <1>13 DEF Throw, Ends, Working, Goto, Takes, Used, Route
<1>14. ASSUME NEW h \in Handlers, Stop(h) PROVE Keyed'
  BY <1>14 DEF Stop, Ends, Working, Goto, Takes, Used, Route
<1>15. ASSUME NEW h \in Handlers, ReplyLost(h) PROVE Keyed'
  BY <1>15 DEF ReplyLost, Goto, Takes, Used, Route
<1>16. CASE UNCHANGED vars
  BY <1>16 DEF vars, Takes, Used, Route
<1> QED BY <1>1, <1>2, <1>3, <1>4, <1>5, <1>6, <1>7, <1>8, <1>9, <1>10, <1>11, <1>12, <1>13, <1>14, <1>15, <1>16 DEF Next, Step

\* A handler that found no record of its key, and is about to store one or has.
Passed(h) == AboutToStore(h) \/ stored[h] # {}

\* A key that was stored is found.
Found == \A h \in Handlers : Takes(h[1], "key") /\ stored[h] # {} => Exists(KeyOf(h[1]))

\* Of two handlers that found no record of the same key, one looked while another was
\* about to store.
Apart ==
  \A g, h \in Handlers :
    g # h /\ g[1] = h[1] /\ Takes(h[1], "key") /\ Passed(g) /\ Passed(h) =>
      g \in raced \/ h \in raced

\* What every step does that is neither a lookup that finds nothing nor a store.
Calm ==
  /\ UNCHANGED <<req, stored, db, raced>>
  /\ \A h \in Handlers : AboutToStore(h)' => AboutToStore(h)

\* All but two of the actions are calm.
LEMMA CalmSteps ==
  ASSUME TypeOK, [Next]_vars
  PROVE  Calm \/ \E h \in Handlers : InsertNew(h) \/ Store(h)
<1> USE DEF TypeOK, Calm, AboutToStore
<1>1. ASSUME NEW c \in Clients, Send(c) PROVE Calm
  BY <1>1 DEF Send, Goto
<1>2. ASSUME NEW h \in Handlers, Prepare(h) \/ Submit(h) \/ Simulate(h) PROVE Calm
  BY <1>2 DEF Prepare, Submit, Simulate, Goto
<1>3. ASSUME NEW h \in Handlers, InsertKnown(h) \/ Enqueue(h) PROVE Calm
  BY <1>3 DEF InsertKnown, Enqueue, ItemDone, Queued, Goto
<1>4. ASSUME NEW h \in Handlers, CacheFactory(h) \/ Reply(h) \/ ReplyLost(h) PROVE Calm
  BY <1>4 DEF CacheFactory, Reply, ReplyLost, Goto
<1>5. ASSUME NEW h \in Handlers, Refuse(h) \/ BadItem(h) \/ Throw(h) \/ Stop(h) PROVE Calm
  BY <1>5 DEF Refuse, BadItem, Throw, Stop, Ends, Goto
<1>6. CASE UNCHANGED vars
  BY <1>6 DEF vars
<1> QED BY <1>1, <1>2, <1>3, <1>4, <1>5, <1>6 DEF Next, Step

\* Every step keeps Found and Apart.
LEMMA ApartStep ==
  ASSUME TypeOK, Keyed, Found, Apart, [Next]_vars
  PROVE  Found' /\ Apart'
<1>1. CASE Calm
  <2>1. Found'
    BY <1>1 DEF Calm, Found, Exists, Takes, Used, Route
  <2>2. \A h \in Handlers : Passed(h)' => Passed(h)
    BY <1>1 DEF Calm, Passed
  <2>3. \A h \in Handlers : Takes(h[1], "key")' = Takes(h[1], "key")
    BY <1>1 DEF Calm, Takes, Used, Route
  <2>4. Apart'
    BY <1>1, <2>2, <2>3 DEF Calm, Apart
  <2> QED BY <2>1, <2>4
<1>2. ASSUME NEW h \in Handlers, InsertNew(h) PROVE Found' /\ Apart'
  <2>1. /\ UNCHANGED <<req, stored, db>>
        /\ raced' = IF Takes(h[1], "key") /\ Overlaps(h) THEN raced \cup {h} ELSE raced
        /\ \A k \in Handlers : k # h => pc'[k] = pc[k]
    BY <1>2 DEF InsertNew, Goto, TypeOK
  <2>2. Found'
    BY <2>1 DEF Found, Exists, Takes, Used, Route
  <2>3. \A k \in Handlers : k # h => (Passed(k)' <=> Passed(k))
    BY <2>1 DEF Passed, AboutToStore
  <2>4. \A k \in Handlers : Takes(k[1], "key")' = Takes(k[1], "key")
    BY <2>1 DEF Takes, Used, Route
  <2>5. ASSUME NEW g \in Handlers, g # h, g[1] = h[1], Takes(h[1], "key"), Passed(g)
        PROVE  h \in raced'
    <3>1. ~Exists(KeyOf(h[1]))
      BY <1>2, <2>5 DEF InsertNew
    <3>2. stored[g] = {}
      BY <2>5, <3>1 DEF Found
    <3>3. Overlaps(h)
      BY <2>5, <3>2 DEF Passed, Overlaps
    <3> QED BY <2>1, <2>5, <3>3
  <2>6. Apart'
    BY <2>1, <2>3, <2>4, <2>5 DEF Apart
  <2> QED BY <2>2, <2>6
<1>3. ASSUME NEW h \in Handlers, Store(h) PROVE Found' /\ Apart'
  <2>1. /\ UNCHANGED <<req, id, raced>> /\ pc[h] = "store" /\ pc' = [pc EXCEPT ![h] = "enqueue"]
        /\ db' = {t \in db : t.queueId # id[h]} \cup {Transaction(h[1], id[h])}
        /\ stored' = [stored EXCEPT ![h] = @ \cup {id[h]}]
    BY <1>3 DEF Store, Goto
  <2>2. Transaction(h[1], id[h]).queueId = id[h]
    BY DEF Transaction
  <2>3. \A q : q = id[h] \/ Exists(q) => \E t \in db' : t.queueId = q
    <3>1. \A t \in db : t \in db' \/ t.queueId = id[h]
      BY <2>1
    <3>2. Transaction(h[1], id[h]) \in db'
      BY <2>1
    <3> QED BY <2>2, <3>1, <3>2 DEF Exists
  <2>4. \A k \in Handlers : Takes(k[1], "key")' = Takes(k[1], "key")
    BY <2>1 DEF Takes, Used, Route
  <2>5. \A k \in Handlers : k # h => stored'[k] = stored[k] /\ pc'[k] = pc[k]
    BY <2>1 DEF TypeOK
  <2>6. ASSUME NEW k \in Handlers, Takes(k[1], "key"), stored'[k] # {}
        PROVE  \E t \in db' : t.queueId = KeyOf(k[1])
    <3>1. CASE k = h
      BY <2>3, <2>6, <3>1 DEF Keyed
    <3>2. CASE k # h
      BY <2>3, <2>5, <2>6, <3>2 DEF Found
    <3> QED BY <3>1, <3>2
  <2>7. Found'
    BY <2>4, <2>6 DEF Found, Exists
  <2>8. \A k \in Handlers : Passed(k)' => Passed(k)
    BY <2>1, <2>5 DEF Passed, AboutToStore
  <2>9. Apart'
    BY <2>1, <2>4, <2>8 DEF Apart
  <2> QED BY <2>7, <2>9
<1> QED BY <1>1, <1>2, <1>3, CalmSteps

\* WriteRoutes!KeyedOnce: for any number of tries and overlapping, throwing or stopping
\* handlers, on the routes that hand the key on, a key is stored again only by handlers of
\* which one looked it up between the lookup and the store of another.
THEOREM OnePerKey == Spec => []KeyedOnce
<1>1. Init => Keyed /\ Found /\ Apart
  BY DEF Init, Keyed, Found, Apart, Passed, AboutToStore
<1>2. TypeOK /\ Keyed /\ [Next]_vars => Keyed'
  BY KeyedStep
<1>3. TypeOK /\ Keyed /\ Found /\ Apart /\ [Next]_vars => Found' /\ Apart'
  BY ApartStep
<1>4. Apart => KeyedOnce
  <2> SUFFICES ASSUME Apart, NEW c \in Clients, NEW m \in 1..MaxTries, NEW n \in 1..MaxTries,
                      Takes(c, "key"), m # n, stored[<<c, m>>] # {}, stored[<<c, n>>] # {}
               PROVE  <<c, m>> \in raced \/ <<c, n>> \in raced
    BY DEF KeyedOnce
  <2>1. <<c, m>> \in Handlers /\ <<c, n>> \in Handlers /\ <<c, m>> # <<c, n>>
    BY DEF Handlers
  <2>2. Passed(<<c, m>>) /\ Passed(<<c, n>>)
    BY DEF Passed
  <2> QED BY <2>1, <2>2 DEF Apart
<1> QED BY <1>1, <1>2, <1>3, <1>4, TypeCorrect, PTL DEF Spec

----------------------------------------------------------------------------
(* Nothing of a refused request                                            *)

\* Only a handler that takes the option simulates; one with a single item that is still
\* before its store has stored nothing, and neither has one that refuses.
Unstored ==
  \A h \in Handlers :
    /\ pc[h] = "simulate" => Takes(h[1], "simulate")
    /\ pc[h] \in {"insert", "simulate", "store"} /\ ~Batch(h[1]) => stored[h] = {}
    /\ pc[h] = "refused" => stored[h] = {}

\* Every step keeps Unstored.
LEMMA UnstoredStep ==
  ASSUME TypeOK, Progress, Unstored, [Next]_vars
  PROVE  Unstored'
<1> USE DEF Unstored, TypeOK, Progress
<1>1. ASSUME NEW c \in Clients, Send(c) PROVE Unstored'
  BY <1>1 DEF Send, Goto, Takes, Used, Batch, Route
<1>2. ASSUME NEW h \in Handlers, Prepare(h) PROVE Unstored'
  BY <1>2 DEF Prepare, Goto, Takes, Used, Batch, Route
<1>3. ASSUME NEW h \in Handlers, Submit(h) PROVE Unstored'
  BY <1>3 DEF Submit, Goto, Takes, Used, Batch, Route
<1>4. ASSUME NEW h \in Handlers, InsertKnown(h) PROVE Unstored'
  <2>1. ~Batch(h[1]) => Items(h[1]) = 1
    BY DEF Items
  <2>2. Len(ids[h]) \in Nat
    OBVIOUS
  <2>3. pc'[h] \in {"insert", "factory", "ok"} /\ (pc'[h] = "insert" => Batch(h[1]))
    BY <1>4, <2>1, <2>2 DEF InsertKnown, ItemDone, Goto, Queued
  <2>4. /\ \A k \in Handlers : k # h => pc'[k] = pc[k]
        /\ UNCHANGED <<req, stored>>
    BY <1>4 DEF InsertKnown, ItemDone, Goto
  <2> QED BY <2>3, <2>4 DEF Takes, Used, Batch, Route
<1>5. ASSUME NEW h \in Handlers, InsertNew(h) PROVE Unstored'
  BY <1>5 DEF InsertNew, Goto, Takes, Used, Batch, Route
<1>6. ASSUME NEW h \in Handlers, Simulate(h) PROVE Unstored'
  <2>1. Takes(h[1], "simulate")
    BY <1>6 DEF Simulate
  <2>2. ~Batch(h[1])
    BY <2>1, BatchTakes DEF Takes, Batch
  <2>3. stored[h] = {}
    BY <1>6, <2>2 DEF Simulate
  <2> QED BY <1>6, <2>3 DEF Simulate, Goto, Takes, Used, Batch, Route
<1>7. ASSUME NEW h \in Handlers, Store(h) PROVE Unstored'
  BY <1>7 DEF Store, Goto, Takes, Used, Batch, Route
<1>8. ASSUME NEW h \in Handlers, Enqueue(h) PROVE Unstored'
  <2>1. ~Batch(h[1]) => Items(h[1]) = 1
    BY DEF Items
  <2>2. Len(ids[h]) \in Nat
    OBVIOUS
  <2>3. pc'[h] \in {"insert", "factory", "ok"} /\ (pc'[h] = "insert" => Batch(h[1]))
    BY <1>8, <2>1, <2>2 DEF Enqueue, ItemDone, Goto, Queued
  <2>4. /\ \A k \in Handlers : k # h => pc'[k] = pc[k]
        /\ UNCHANGED <<req, stored>>
    BY <1>8 DEF Enqueue, ItemDone, Goto
  <2> QED BY <2>3, <2>4 DEF Takes, Used, Batch, Route
<1>9. ASSUME NEW h \in Handlers, CacheFactory(h) PROVE Unstored'
  BY <1>9 DEF CacheFactory, Goto, Takes, Used, Batch, Route
<1>10. ASSUME NEW h \in Handlers, Reply(h) PROVE Unstored'
  BY <1>10 DEF Reply, Goto, Takes, Used, Batch, Route
<1>11. ASSUME NEW h \in Handlers, Refuse(h) PROVE Unstored'
  BY <1>11 DEF Refuse, Goto, Takes, Used, Batch, Route
<1>12. ASSUME NEW h \in Handlers, BadItem(h) PROVE Unstored'
  BY <1>12 DEF BadItem, Goto, Takes, Used, Batch, Route
<1>13. ASSUME NEW h \in Handlers, Throw(h) PROVE Unstored'
  BY <1>13 DEF Throw, Ends, Working, Goto, Takes, Used, Batch, Route
<1>14. ASSUME NEW h \in Handlers, Stop(h) PROVE Unstored'
  BY <1>14 DEF Stop, Ends, Working, Goto, Takes, Used, Batch, Route
<1>15. ASSUME NEW h \in Handlers, ReplyLost(h) PROVE Unstored'
  BY <1>15 DEF ReplyLost, Goto, Takes, Used, Batch, Route
<1>16. CASE UNCHANGED vars
  BY <1>16 DEF vars, Takes, Used, Batch, Route
<1> QED BY <1>1, <1>2, <1>3, <1>4, <1>5, <1>6, <1>7, <1>8, <1>9, <1>10, <1>11, <1>12, <1>13, <1>14, <1>15, <1>16 DEF Next, Step

\* WriteRoutes!RefusedLeavesNothing: a request that is answered with a 400 has stored no
\* transaction, on every route.
THEOREM RefusalsAreClean == Spec => []RefusedLeavesNothing
<1>1. Init => Unstored
  BY DEF Init, Unstored
<1>2. TypeOK /\ Progress /\ [Next]_vars => (TypeOK /\ Progress)'
  BY TypeStep, ProgressStep
<1>3. TypeOK /\ Progress /\ Unstored /\ [Next]_vars => Unstored'
  BY UnstoredStep
<1>4. Unstored => RefusedLeavesNothing
  BY DEF Unstored, RefusedLeavesNothing
<1> QED BY <1>1, <1>2, <1>3, <1>4, TypeInit, PTL DEF Spec

----------------------------------------------------------------------------
(* Sent as asked                                                           *)

\* A record is that of its client's request.
Recorded == \A t \in db : t.for \in Clients /\ t.options = Kept(t.for)

\* Every step keeps Recorded.
LEMMA RecordedStep ==
  ASSUME TypeOK, Recorded, [Next]_vars
  PROVE  Recorded'
<1> USE DEF Recorded, TypeOK
<1>1. ASSUME NEW c \in Clients, Send(c) PROVE Recorded'
  BY <1>1 DEF Send, Goto, Kept, Used, Route
<1>2. ASSUME NEW h \in Handlers, Prepare(h) PROVE Recorded'
  BY <1>2 DEF Prepare, Goto, Kept, Used, Route
<1>3. ASSUME NEW h \in Handlers, Submit(h) PROVE Recorded'
  BY <1>3 DEF Submit, Goto, Kept, Used, Route
<1>4. ASSUME NEW h \in Handlers, InsertKnown(h) PROVE Recorded'
  BY <1>4 DEF InsertKnown, ItemDone, Goto, Kept, Used, Route
<1>5. ASSUME NEW h \in Handlers, InsertNew(h) PROVE Recorded'
  BY <1>5 DEF InsertNew, Goto, Kept, Used, Route
<1>6. ASSUME NEW h \in Handlers, Simulate(h) PROVE Recorded'
  BY <1>6 DEF Simulate, Goto, Kept, Used, Route
<1>7. ASSUME NEW h \in Handlers, Store(h) PROVE Recorded'
  <2>1. h[1] \in Clients
    BY HandlerParts
  <2>2. /\ Transaction(h[1], id[h]).for = h[1]
        /\ Transaction(h[1], id[h]).options = Kept(h[1])
    BY DEF Transaction
  <2>3. \A t \in db' : t \in db \/ t = Transaction(h[1], id[h])
    BY <1>7 DEF Store
  <2>4. req' = req
    BY <1>7 DEF Store
  <2> QED BY <2>1, <2>2, <2>3, <2>4 DEF Kept, Used, Route
<1>8. ASSUME NEW h \in Handlers, Enqueue(h) PROVE Recorded'
  BY <1>8 DEF Enqueue, ItemDone, Goto, Kept, Used, Route
<1>9. ASSUME NEW h \in Handlers, CacheFactory(h) PROVE Recorded'
  BY <1>9 DEF CacheFactory, Goto, Kept, Used, Route
<1>10. ASSUME NEW h \in Handlers, Reply(h) PROVE Recorded'
  BY <1>10 DEF Reply, Goto, Kept, Used, Route
<1>11. ASSUME NEW h \in Handlers, Refuse(h) PROVE Recorded'
  BY <1>11 DEF Refuse, Goto, Kept, Used, Route
<1>12. ASSUME NEW h \in Handlers, BadItem(h) PROVE Recorded'
  BY <1>12 DEF BadItem, Goto, Kept, Used, Route
<1>13. ASSUME NEW h \in Handlers, Throw(h) PROVE Recorded'
  BY <1>13 DEF Throw, Ends, Working, Goto, Kept, Used, Route
<1>14. ASSUME NEW h \in Handlers, Stop(h) PROVE Recorded'
  BY <1>14 DEF Stop, Ends, Working, Goto, Kept, Used, Route
<1>15. ASSUME NEW h \in Handlers, ReplyLost(h) PROVE Recorded'
  BY <1>15 DEF ReplyLost, Goto, Kept, Used, Route
<1>16. CASE UNCHANGED vars
  BY <1>16 DEF vars, Kept, Used, Route
<1> QED BY <1>1, <1>2, <1>3, <1>4, <1>5, <1>6, <1>7, <1>8, <1>9, <1>10, <1>11, <1>12, <1>13, <1>14, <1>15, <1>16 DEF Next, Step

\* WriteRoutes!SentAsAsked: account, gas and value of a request reach its transaction, on
\* every one of the routes in the table.
THEOREM AsAsked == Spec => []SentAsAsked
<1>1. Init => Recorded
  BY DEF Init, Recorded
<1>2. TypeOK /\ Recorded /\ [Next]_vars => Recorded'
  BY RecordedStep
<1>3. TypeOK /\ Recorded => SentAsAsked
  <2> SUFFICES ASSUME TypeOK, Recorded, NEW t \in db
               PROVE  /\ {"account", "gas"} \cap Used(t.for) \cap (Route(t.for).declares \cup {"account"})
                            \subseteq t.options
                      /\ "value" \in Used(t.for) /\ Route(t.for).via # "insert" => "value" \in t.options
    BY DEF SentAsAsked
  <2>1. t.for \in Clients /\ t.options = Kept(t.for)
    BY DEF Recorded
  <2> DEFINE c == t.for
  <2>2. Route(c) \in Routes /\ Used(c) \subseteq Route(c).declares \cup Route(c).takes
    BY <2>1 DEF TypeOK, Requests, Route, Used
  <2>3. HandsOn(Route(c))
    BY <2>2, RoutesHandOn
  <2>4. {"account", "gas"} \cap Used(c) \subseteq Route(c).takes
    BY <2>2, <2>3 DEF HandsOn
  <2>5. "value" \in Used(c) /\ Route(c).via # "insert" => "value" \in Route(c).takes
    BY <2>2, <2>3 DEF HandsOn
  <2>6. \A o \in {"account", "gas", "value"} : o \in Used(c) \cap Route(c).takes => o \in Kept(c)
    BY DEF Kept
  <2> QED BY <2>1, <2>4, <2>5, <2>6
<1> QED BY <1>1, <1>2, <1>3, TypeCorrect, PTL DEF Spec
==============================================================================
