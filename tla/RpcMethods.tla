----------------------------- MODULE RpcMethods -----------------------------
(***************************************************************************)
(* The methods of the JSON-RPC server: which questions each one puts to    *)
(* the node, one after the other, and what it makes of the answers.        *)
(*                                                                         *)
(* A method is a sequence of steps.  A step asks, and says                 *)
(*   none     what an answer without a value means: an error, "null" for   *)
(*            an empty field of the result, "else" for asking the next     *)
(*            step instead (which is skipped after a value);               *)
(*   bad      the error for a value of an unexpected type, if there is one;*)
(*   refused  the error for a transaction that the node refuses;           *)
(*   stop     when the method is done early: after a "legacy" account or   *)
(*            contract, or after the header of a block that is "no_switch".*)
(***************************************************************************)
EXTENDS NodePort

Step(ask, none) == [ask |-> ask, none |-> none, bad |-> "", refused |-> "InvalidTransaction", stop |-> ""]

(* ok_or(EmptyEnvelope) of the wrappers that promise a value *)
Always(ask) == Step(ask, "EmptyEnvelope")

-----------------------------------------------------------------------------
(* Parts that the methods share *)

(* get_block_header, get_latest_switch_block_header and                    *)
(* get_block_with_signatures: a missing block is an error that carries the *)
(* available range, read afterwards.                                       *)
GetBlockHeader(id) == Step(ReadBlockHeader(id), "NoBlockFound")
GetLatestSwitchBlockHeader == Step(ReadLatestSwitchBlockHeader, "NoBlockFound")
GetBlockWithSignatures(id) == Step(ReadBlockWithSignatures(id), "NoBlockFound")

(* Fault: the state of a request without an identifier is the latest one *)
StateOfLatest(block_identifier) == block_identifier

(* state_identifier: the given block, else the block of the header *)
StateOf(block_identifier) == IF block_identifier = Latest THEN Header ELSE block_identifier

GetEntityNamedKeys(id) ==
    [Always(QueryGlobalStateByPrefix(id, "named_keys")) EXCEPT !.bad = "InvalidNamedKeys"]

GetEntityEntryPoints(id) ==
    << Always(QueryGlobalStateByPrefix(id, "entry_points_v1")),
       [Always(QueryGlobalStateByPrefix(id, "entry_points_v2")) EXCEPT !.bad = "InvalidNamedKeys"] >>

FetchBidKinds(id) == [Always(QueryGlobalStateByTag(id, "bids")) EXCEPT !.bad = "InvalidAuctionState"]

AuctionRegistry(id) ==
    [Step(QueryGlobalState(id, "registry"), "GlobalStateEntryNotFound") EXCEPT !.bad = "InvalidAuctionState"]

(* The snapshot is stored under the entity of the auction, or under its hash *)
AuctionSnapshot(id) ==
    << [Step(QueryGlobalState(id, "entity_snapshot"), "else") EXCEPT !.bad = "InvalidAuctionState"],
       [Step(QueryGlobalState(id, "hash_snapshot"), "GlobalStateEntryNotFound")
          EXCEPT !.bad = "InvalidAuctionState"] >>

GetEraSummaryByBlock ==
    << Step(QueryGlobalState(Header, "era_summary"), "else"),
       Step(QueryGlobalState(Header, "era_info"), "GlobalStateEntryNotFound") >>

HeaderOrLatestSwitch(id) == IF id = Latest THEN GetLatestSwitchBlockHeader ELSE GetBlockHeader(id)

-----------------------------------------------------------------------------
(* account.rs *)

PutDeploy == << [Step(TryAcceptTransaction, "") EXCEPT !.refused = "DeployIsInvalid"] >>
PutTransaction == << [Step(TryAcceptTransaction, "") EXCEPT !.refused = "TransactionIsInvalid"] >>

-----------------------------------------------------------------------------
(* chain.rs *)

GetBlock(id) == << GetBlockWithSignatures(id) >>
GetBlockTransfers(id) == << GetBlockHeader(id), Step(ReadBlockTransfers(Header), "null") >>
GetStateRootHash(id) == << GetBlockHeader(id) >>

(* An era ends with a switch block: other blocks have no summary *)
GetEraInfoBySwitchBlock(id) ==
    << [HeaderOrLatestSwitch(id) EXCEPT !.stop = "no_switch"] >> \o GetEraSummaryByBlock

GetEraSummary(id) == << HeaderOrLatestSwitch(id) >> \o GetEraSummaryByBlock

-----------------------------------------------------------------------------
(* info.rs *)

GetDeploy ==
    << [Step(ReadTransactionWithExecutionInfo, "NoDeployWithHash")
          EXCEPT !.bad = "FoundTransactionInsteadOfDeploy"] >>
GetTransaction == << Step(ReadTransactionWithExecutionInfo, "NoTransactionWithHash") >>
GetPeers == << Always(ReadPeers) >>
GetValidatorChanges == << Always(ReadValidatorChanges) >>
GetChainspec == << Always(ReadChainspecBytes) >>
GetStatus == << Always(ReadNodeStatus) >>
GetReward(id) == << Step(ReadReward(id), "RewardNotFound") >>

-----------------------------------------------------------------------------
(* state.rs and state_get_auction_info_v2.rs *)

GetItem(id) == << Step(QueryGlobalState(id, "item"), "GlobalStateEntryNotFound") >>
GetBalance(id) == << Always(ReadBalance(id)) >>

(* The header, the bids, the latest registry of system contracts, and the  *)
(* snapshot of the validators                                              *)
GetAuctionInfo(id) ==
    << GetBlockHeader(id), FetchBidKinds(StateOf(id)), AuctionRegistry(Latest) >>
    \o AuctionSnapshot(StateOf(id))

GetAuctionInfoV2(id) ==
    << GetBlockHeader(id), FetchBidKinds(StateOf(id)), AuctionRegistry(StateOf(id)) >>
    \o AuctionSnapshot(StateOf(id))

GetAccountInfo(id) ==
    << [Step(QueryGlobalState(id, "account"), "AccountNotFound") EXCEPT !.bad = "AccountMigratedToEntity"] >>

(* The names and entry points of an addressable entity are queries of      *)
(* their own; a legacy account or contract is complete.                    *)
GetAddressableEntity(id) ==
    << [Step(ReadEntity(id), "AddressableEntityNotFound") EXCEPT !.stop = "legacy"],
       GetEntityNamedKeys(id) >> \o GetEntityEntryPoints(id)

GetPackage(id) == << Step(ReadPackage(id), "AddressableEntityNotFound") >>
GetDictionaryItem(id) == << Step(QueryDictionaryItem(id), "GlobalStateEntryNotFound") >>

(* The header is read only for a query that names a block *)
QueryGlobalStateRpc(id) ==
    (IF id.by = "block" THEN << GetBlockHeader(id) >> ELSE << >>)
    \o << Step(QueryGlobalState(id, "item"), "GlobalStateEntryNotFound") >>

QueryBalance(id) == << Always(ReadBalance(id)) >>
QueryBalanceDetails(id) == << Always(ReadBalance(id)) >>
GetTrie == << Always(ReadTrieBytes) >>

-----------------------------------------------------------------------------
(* speculative_exec.rs, docs.rs *)

SpeculativeExecTxn == << Always(ExecSpeculatively) >>
SpeculativeExec == << Always(ExecSpeculatively) >>
RpcDiscover == << >>

-----------------------------------------------------------------------------
(* The registered methods: the kind of their parameters, the identifiers   *)
(* their parameters may hold, and the error for a malformed string.        *)
Method(params, ids, malformed) == [params |-> params, ids |-> ids, malformed |-> malformed]

NoIds == {"none"}
MaybeBlock == {"none", "block"}
MaybeState == {"none", "block", "root"}
MaybeEra == {"none", "block", "era"}       \* an era is named by its last block

WithNoIds == {"account_put_deploy", "account_put_transaction", "info_get_deploy",
              "info_get_transaction", "state_get_trie"}
WithoutParams == {"info_get_peers", "info_get_status", "info_get_validator_changes",
                  "info_get_chainspec", "rpc.discover"}
WithOptionalParams == {"chain_get_block", "chain_get_block_transfers", "chain_get_state_root_hash",
                       "chain_get_era_info_by_switch_block", "chain_get_era_summary",
                       "state_get_auction_info", "state_get_auction_info_v2"}
WithBlock == {"state_get_account_info", "state_get_entity", "state_get_package"}
WithEra == {"info_get_reward"}
WithState == {"query_global_state", "query_balance", "query_balance_details"}
WithRoot == {"state_get_item", "state_get_balance", "state_get_dictionary_item"}

Handlers ==
    [m \in WithNoIds \cup WithoutParams \cup WithOptionalParams \cup WithBlock \cup WithEra
           \cup WithState \cup WithRoot |->
        CASE m \in WithNoIds -> Method("with", NoIds, "")
          [] m \in WithoutParams -> Method("without", NoIds, "")
          [] m \in WithOptionalParams -> Method("optional", MaybeBlock, "")
          [] m \in WithBlock -> Method("with", MaybeBlock, "")
          [] m \in WithEra -> Method("with", MaybeEra, "")
          [] m \in WithState -> Method("with", MaybeState, "")
          [] m = "state_get_item" -> Method("with", {"root"}, "")
          [] m = "state_get_balance" -> Method("with", {"root"}, "InvalidPurseURef")
          [] m = "state_get_dictionary_item" -> Method("with", {"root"}, "InvalidDictionaryKey")]

SpeculativeHandlers ==
    [m \in {"speculative_exec_txn", "speculative_exec", "rpc.discover"} |->
        Method(IF m = "rpc.discover" THEN "without" ELSE "with", NoIds, "")]

(* do_handle_request of each method *)
Plan(method, id) ==
    CASE method = "account_put_deploy" -> PutDeploy
      [] method = "account_put_transaction" -> PutTransaction
      [] method = "chain_get_block" -> GetBlock(id)
      [] method = "chain_get_block_transfers" -> GetBlockTransfers(id)
      [] method = "chain_get_state_root_hash" -> GetStateRootHash(id)
      [] method = "chain_get_era_info_by_switch_block" -> GetEraInfoBySwitchBlock(id)
      [] method = "chain_get_era_summary" -> GetEraSummary(id)
      [] method = "info_get_deploy" -> GetDeploy
      [] method = "info_get_transaction" -> GetTransaction
      [] method = "info_get_peers" -> GetPeers
      [] method = "info_get_validator_changes" -> GetValidatorChanges
      [] method = "info_get_chainspec" -> GetChainspec
      [] method = "info_get_status" -> GetStatus
      [] method = "info_get_reward" -> GetReward(id)
      [] method = "state_get_item" -> GetItem(id)
      [] method = "state_get_balance" -> GetBalance(id)
      [] method = "state_get_auction_info" -> GetAuctionInfo(id)
      [] method = "state_get_auction_info_v2" -> GetAuctionInfoV2(id)
      [] method = "state_get_account_info" -> GetAccountInfo(id)
      [] method = "state_get_entity" -> GetAddressableEntity(id)
      [] method = "state_get_package" -> GetPackage(id)
      [] method = "state_get_dictionary_item" -> GetDictionaryItem(id)
      [] method = "query_global_state" -> QueryGlobalStateRpc(id)
      [] method = "query_balance" -> QueryBalance(id)
      [] method = "query_balance_details" -> QueryBalanceDetails(id)
      [] method = "state_get_trie" -> GetTrie
      [] method = "speculative_exec_txn" -> SpeculativeExecTxn
      [] method = "speculative_exec" -> SpeculativeExec
      [] method = "rpc.discover" -> RpcDiscover
=============================================================================
