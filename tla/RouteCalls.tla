----------------------------- MODULE RouteCalls -----------------------------
(***************************************************************************)
(* What every write route of the HTTP server makes of a request: the call  *)
(* it prepares, the helper it queues it with, and which of the options the *)
(* client may set (headers, simulateTx, txOverrides) it hands on.          *)
(*                                                                         *)
(* declares is the schema of the route, takes is what the handler passes on*)
(* and args are the arguments of the prepared call, named as in the code.  *)
(***************************************************************************)
EXTENDS FiniteSets

Options == {"key", "account", "factory", "simulate", "gas", "value"}

Overrides == {"gas", "value"}

\* A handler that prepares a call of a contract's extension with the v4 SDK, whose signer
\* is the wallet or its account, and calls queueTx.
Extension(extension, call, args) ==
  [via |-> "queueTx", extension |-> extension, call |-> call, args |-> args, deployed |-> "none",
   declares |-> Options, takes |-> {"key", "simulate", "account"} \cup Overrides]

\* The auction routes declare no headers and no overrides, and read the account header.
Auction(call, args) ==
  [Extension("marketplace-v3-english-auctions", call, args) EXCEPT
     !.declares = {"simulate"}, !.takes = {"simulate", "account"}]

\* A handler that prepares a call with the v5 SDK and calls queueTransaction.
V5(call, args) ==
  [via |-> "queueTransaction", extension |-> "none", call |-> call, args |-> args, deployed |-> "none",
   declares |-> Options, takes |-> Options]

\* A deployment: prepared, always simulated to learn the address, and queued.
Prebuilt(contractType) ==
  [via |-> "queueTx", extension |-> "deploy-prebuilt", call |-> "deployBuiltInContract",
   args |-> <<contractType, "contractMetadata", "version", "options">>, deployed |-> contractType,
   declares |-> Options \ {"simulate"}, takes |-> {"key", "account"} \cup Overrides]

\* A meta-transaction: no headers at all, the wallet is the relayer's.
Relay(call, args) ==
  [via |-> "queueTx", extension |-> "relayer", call |-> call, args |-> args, deployed |-> "none",
   declares |-> {}, takes |-> {}]

----------------------------------------------------------------------------
(* backend-wallet/                                                         *)

\* isUserOp and its fields only with x-account-address.
sendTransaction ==
  [via |-> "insert", extension |-> "none", call |-> "raw", args |-> <<"toAddress", "data", "value">>,
   deployed |-> "none", declares |-> Options \ {"value"}, takes |-> Options \ {"value"}]

\* Every item of the body is inserted on its own.
sendTransactionBatch ==
  [sendTransaction EXCEPT !.declares = {"key"} \cup Overrides, !.takes = {"gas"}]

\* The native currency, with the amount as the value ...
transferNative ==
  [via |-> "insert", extension |-> "none", call |-> "transfer", args |-> <<"to", "amount">>,
   deployed |-> "none", declares |-> {"key", "simulate"} \cup Overrides,
   takes |-> {"key", "simulate", "gas"}]

\* ... or a deployed ERC20 contract, with value 0.
transfer ==
  [transferNative EXCEPT !.extension = "erc20", !.args = <<"to", "amount", "currencyAddress">>]

\* Submitted by the handler itself, not through the queue.
withdraw ==
  [via |-> "direct", extension |-> "none", call |-> "withdraw", args |-> <<"toAddress">>,
   deployed |-> "none", declares |-> {"key", "simulate", "gas"}, takes |-> {"gas"}]

----------------------------------------------------------------------------
(* relayer/                                                                *)

relayExecuteMetaTransaction ==
  Relay("executeMetaTransaction", <<"from", "data", "r", "s", "v">>)
relayPermit ==
  Relay("permit", <<"owner", "spender", "value", "deadline", "v", "r", "s">>)
relayForward ==
  Relay("execute", <<"request", "fixedSignature">>)

----------------------------------------------------------------------------
(* contract/extensions/account and accountFactory                          *)

grantAdmin ==
  Extension("account", "grantAdminPermissions", <<"signerAddress">>)
grantSession ==
  Extension("account", "grantPermissions", <<"signerAddress", "permissions">>)
revokeAdmin ==
  Extension("account", "revokeAdminPermissions", <<"walletAddress">>)
revokeSession ==
  Extension("account", "revokeAccess", <<"walletAddress">>)
updateSession ==
  Extension("account", "updatePermissions", <<"signerAddress", "permissions">>)
createAccount ==
  [Extension("account-factory", "createAccount", <<"adminAddress", "extraData">>)
     EXCEPT !.deployed = "account"]

----------------------------------------------------------------------------
(* contract/extensions/erc20, erc721 and erc1155                           *)

erc20burn ==
  Extension("erc20", "burn", <<"amount">>)
erc20burnFrom ==
  Extension("erc20", "burnFrom", <<"holderAddress", "amount">>)
erc20mintBatchTo ==
  Extension("erc20", "mintBatchTo", <<"data">>)
erc20mintTo ==
  Extension("erc20", "mintTo", <<"toAddress", "amount">>)
erc20SetAlowance ==
  Extension("erc20", "setAllowance", <<"spenderAddress", "amount">>)
erc20SetClaimConditions ==
  Extension("erc20", "claimConditions.set",
    <<"sanitizedClaimConditionInputs", "resetClaimEligibilityForAll">>)
erc20SignatureMint ==
  Extension("erc20", "signature.mint", <<"signedPayload">>)
erc20Transfer ==
  Extension("erc20", "transfer", <<"toAddress", "amount">>)
erc20TransferFrom ==
  Extension("erc20", "transferFrom", <<"fromAddress", "toAddress", "amount">>)
erc20UpdateClaimConditions ==
  Extension("erc20", "claimConditions.update", <<"index", "sanitizedClaimConditionInput">>)

erc721burn ==
  Extension("erc721", "burn", <<"tokenId">>)
erc721lazyMint ==
  Extension("erc721", "lazyMint", <<"metadatas">>)
erc721mintBatchTo ==
  Extension("erc721", "mintBatchTo", <<"receiver", "metadatas">>)
erc721mintTo ==
  Extension("erc721", "mintTo", <<"receiver", "metadata">>)
erc721SetApprovalForAll ==
  Extension("erc721", "setApprovalForAll", <<"operator", "approved">>)
erc721SetApprovalForToken ==
  Extension("erc721", "setApprovalForToken", <<"operator", "tokenId">>)
erc721SetClaimConditions ==
  Extension("erc721", "claimConditions.set",
    <<"sanitizedClaimConditionInputs", "resetClaimEligibilityForAll">>)
erc721transfer ==
  Extension("erc721", "transfer", <<"to", "tokenId">>)
erc721transferFrom ==
  Extension("erc721", "transferFrom", <<"from", "to", "tokenId">>)
erc721UpdateClaimConditions ==
  Extension("erc721", "claimConditions.update", <<"index", "sanitizedClaimConditionInput">>)
erc721UpdateTokenMetadata ==
  Extension("erc721", "updateMetadata", <<"tokenId", "metadata">>)

\* x-thirdweb-sdk-version selects the v4 or the v5 SDK; with v5 the handler calls
\* insertTransaction the way queueTransaction does, without a factory.
erc721SignatureMint ==
  Extension("erc721", "signature.mint", <<"signedPayload">>)
erc721SignatureMintV5 ==
  [V5("mintWithSignature", <<"payloadV5", "signature">>) EXCEPT !.takes = Options \ {"factory"}]

erc1155airdrop ==
  Extension("erc1155", "airdrop", <<"tokenId", "addresses">>)
erc1155burn ==
  Extension("erc1155", "burn", <<"tokenId", "amount">>)
erc1155burnBatch ==
  Extension("erc1155", "burnBatch", <<"tokenIds", "amounts">>)
erc1155lazyMint ==
  Extension("erc1155", "lazyMint", <<"metadatas">>)
erc1155mintAdditionalSupplyTo ==
  Extension("erc1155", "mintAdditionalSupplyTo", <<"receiver", "tokenId", "additionalSupply">>)
erc1155mintBatchTo ==
  Extension("erc1155", "mintBatchTo", <<"receiver", "metadataWithSupply">>)
erc1155mintTo ==
  Extension("erc1155", "mintTo", <<"receiver", "metadataWithSupply">>)
erc1155SetApprovalForAll ==
  Extension("erc1155", "setApprovalForAll", <<"operator", "approved">>)
erc1155SetBatchClaimConditions ==
  Extension("erc1155", "claimConditions.setBatch",
    <<"claimConditionsForToken", "resetClaimEligibilityForAll">>)
erc1155SetClaimCondition ==
  Extension("erc1155", "claimConditions.set",
    <<"tokenId", "sanitizedClaimConditionInputs", "resetClaimEligibilityForAll">>)
erc1155SignatureMint ==
  Extension("erc1155", "signature.mint", <<"signedPayload">>)
erc1155transfer ==
  Extension("erc1155", "transfer", <<"to", "tokenId", "amount">>)
erc1155transferFrom ==
  Extension("erc1155", "transferFrom", <<"from", "to", "tokenId", "amount">>)
erc1155UpdateClaimConditions ==
  Extension("erc1155", "claimConditions.update", <<"tokenId", "index", "sanitizedClaimConditionInput">>)
erc1155UpdateTokenMetadata ==
  Extension("erc1155", "updateMetadata", <<"tokenId", "metadata">>)

erc20claimTo   == V5("claimTo", <<"from", "recipient", "amount">>)
erc721claimTo  == V5("claimTo", <<"from", "receiver", "quantity">>)
erc1155claimTo == V5("claimTo", <<"from", "receiver", "quantity", "tokenId">>)
writeToContract == V5("functionName", <<"args">>)

----------------------------------------------------------------------------
(* contract/roles, contract/royalties                                      *)

grantRole ==
  Extension("roles", "grant", <<"role", "address">>)
revokeRole ==
  Extension("roles", "revoke", <<"role", "address">>)
setDefaultRoyaltyInfo ==
  Extension("none", "setDefaultRoyaltyInfo", <<"params">>)
setTokenRoyaltyInfo ==
  Extension("none", "setTokenRoyaltyInfo", <<"token_id", "params">>)

----------------------------------------------------------------------------
(* contract/extensions/marketplaceV3                                       *)

directListingsApproveBuyerForReservedListing ==
  Extension("marketplace-v3-direct-listings", "approveBuyerForReservedListing",
    <<"listingId", "buyer">>)
directListingsBuyFromListing ==
  Extension("marketplace-v3-direct-listings", "buyFromListing", <<"listingId", "quantity", "buyer">>)
directListingsCancelListing ==
  Extension("marketplace-v3-direct-listings", "cancelListing", <<"listingId">>)
directListingsCreateListing ==
  Extension("marketplace-v3-direct-listings", "createListing", <<"params">>)
directListingsRevokeBuyerApprovalForReservedListing ==
  Extension("marketplace-v3-direct-listings", "revokeBuyerApprovalForReservedListing",
    <<"listingId", "buyerAddress">>)
directListingsRevokeCurrencyApprovalForListing ==
  Extension("marketplace-v3-direct-listings", "revokeCurrencyApprovalForListing",
    <<"listingId", "currencyContractAddress">>)
directListingsUpdateListing ==
  Extension("marketplace-v3-direct-listings", "updateListing", <<"listingId", "params">>)

offersAcceptOffer ==
  Extension("marketplace-v3-offers", "acceptOffer", <<"offerId">>)
offersCancelOffer ==
  Extension("marketplace-v3-offers", "cancelOffer", <<"offerId">>)
offersMakeOffer ==
  Extension("marketplace-v3-offers", "makeOffer", <<"params">>)

englishAuctionsBuyoutAuction ==
  Auction("buyoutAuction", <<"listingId">>)
englishAuctionsCancelAuction ==
  Auction("cancelAuction", <<"listingId">>)
englishAuctionsCloseAuctionForBidder ==
  Auction("closeAuctionForBidder", <<"listingId">>)
englishAuctionsCloseAuctionForSeller ==
  Auction("closeAuctionForSeller", <<"listingId">>)
englishAuctionsCreateAuction ==
  Auction("createAuction", <<"params">>)
englishAuctionsExecuteSale ==
  Auction("executeSale", <<"listingId">>)
englishAuctionsMakeBid ==
  Auction("makeBid", <<"listingId", "bidAmount">>)

----------------------------------------------------------------------------
(* deploy/                                                                 *)

\* The deployed address is answered, and not stored.
deployPrebuilt == [Prebuilt("contractType") EXCEPT !.deployed = "none"]
deployPrebuiltEdition == Prebuilt("edition")
deployPrebuiltEditionDrop == Prebuilt("edition-drop")
deployPrebuiltMarketplaceV3 == Prebuilt("marketplace-v3")
deployPrebuiltMultiwrap == Prebuilt("multiwrap")
deployPrebuiltNFTCollection == Prebuilt("nft-collection")
deployPrebuiltNFTDrop == Prebuilt("nft-drop")
deployPrebuiltPack == Prebuilt("pack")
deployPrebuiltSignatureDrop == Prebuilt("signature-drop")
deployPrebuiltSplit == Prebuilt("split")
deployPrebuiltToken == Prebuilt("token")
deployPrebuiltTokenDrop == Prebuilt("token-drop")
deployPrebuiltVote == Prebuilt("vote")
deployPublished ==
  [Prebuilt("contractName") EXCEPT !.extension = "deploy-published", !.call = "deployPublishedContract",
     !.args = <<"publisher", "contractName", "constructorParams", "version", "options">>]

----------------------------------------------------------------------------
AccountRoutes ==
  {grantAdmin, grantSession, revokeAdmin, revokeSession, updateSession, createAccount}
TokenRoutes ==
  {erc20burn, erc20burnFrom, erc20mintBatchTo, erc20mintTo, erc20SetAlowance,
    erc20SetClaimConditions, erc20SignatureMint, erc20Transfer, erc20TransferFrom,
    erc20UpdateClaimConditions, erc721burn, erc721lazyMint, erc721mintBatchTo,
    erc721mintTo, erc721SetApprovalForAll, erc721SetApprovalForToken,
    erc721SetClaimConditions, erc721transfer, erc721transferFrom,
    erc721UpdateClaimConditions, erc721UpdateTokenMetadata, erc1155airdrop, erc1155burn,
    erc1155burnBatch, erc1155lazyMint, erc1155mintAdditionalSupplyTo,
    erc1155mintBatchTo, erc1155mintTo, erc1155SetApprovalForAll,
    erc1155SetBatchClaimConditions, erc1155SetClaimCondition, erc1155SignatureMint,
    erc1155transfer, erc1155transferFrom, erc1155UpdateClaimConditions,
    erc1155UpdateTokenMetadata, erc721SignatureMint, erc721SignatureMintV5}
V5Routes ==
  {erc20claimTo, erc721claimTo, erc1155claimTo, writeToContract, erc721SignatureMintV5}
MarketRoutes ==
  {grantRole, revokeRole, setDefaultRoyaltyInfo, setTokenRoyaltyInfo,
    directListingsApproveBuyerForReservedListing, directListingsBuyFromListing,
    directListingsCancelListing, directListingsCreateListing,
    directListingsRevokeBuyerApprovalForReservedListing,
    directListingsRevokeCurrencyApprovalForListing, directListingsUpdateListing,
    offersAcceptOffer, offersCancelOffer, offersMakeOffer}
AuctionRoutes ==
  {englishAuctionsBuyoutAuction, englishAuctionsCancelAuction,
    englishAuctionsCloseAuctionForBidder, englishAuctionsCloseAuctionForSeller,
    englishAuctionsCreateAuction, englishAuctionsExecuteSale, englishAuctionsMakeBid}
DeployRoutes ==
  {deployPrebuilt, deployPrebuiltEdition, deployPrebuiltEditionDrop,
    deployPrebuiltMarketplaceV3, deployPrebuiltMultiwrap, deployPrebuiltNFTCollection,
    deployPrebuiltNFTDrop, deployPrebuiltPack, deployPrebuiltSignatureDrop,
    deployPrebuiltSplit, deployPrebuiltToken, deployPrebuiltTokenDrop,
    deployPrebuiltVote, deployPublished}
RelayRoutes == {relayExecuteMetaTransaction, relayPermit, relayForward}
WalletRoutes == {sendTransaction, sendTransactionBatch, transferNative, transfer, withdraw}

\* registered by routes/index.ts
Routes == AccountRoutes \cup TokenRoutes \cup V5Routes \cup MarketRoutes \cup AuctionRoutes
            \cup DeployRoutes \cup RelayRoutes \cup WalletRoutes
=============================================================================
