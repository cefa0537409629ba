------------------------------ MODULE NodePort ------------------------------
(***************************************************************************)
(* The questions that the RPC methods put to the node, and what they make  *)
(* of its answers.  A question is a record [what, at]: a kind of data and  *)
(* the block it is about.  An answer of the node is the record [outcome,   *)
(* block]: "value" with the block it was read at, "not_found", an error    *)
(* code, or something that the client could not read.                      *)
(***************************************************************************)
EXTENDS Integers, Sequences

Question(what, at) == [what |-> what, at |-> at]

(* The wrappers of the trait NodeClient.  at is an identifier of a block   *)
(* or of a state, [by, height].                                            *)
Latest == [by |-> "none", height |-> 0]       \* no identifier
Header == [by |-> "header", height |-> 0]     \* the block whose header was read
QueryGlobalState(at, key) == Question(key, at)
QueryGlobalStateByTag(at, tag) == Question(tag, at)
QueryGlobalStateByPrefix(at, prefix) == Question(prefix, at)
ReadBalance(at) == Question("balance", at)
ReadTrieBytes == Question("trie", Latest)
QueryDictionaryItem(at) == Question("dictionary_item", at)
TryAcceptTransaction == Question("try_accept_transaction", Latest)
ExecSpeculatively == Question("exec_speculatively", Latest)
ReadBlockTransfers(at) == Question("transfers", at)
ReadBlockHeader(at) == Question("header", at)
ReadBlockWithSignatures(at) == Question("block_with_signatures", at)
ReadLatestSwitchBlockHeader == Question("switch_header", Latest)
ReadTransactionWithExecutionInfo == Question("transaction", Latest)
ReadPeers == Question("peers", Latest)
ReadAvailableBlockRange == Question("available_block_range", Latest)
ReadChainspecBytes == Question("chainspec", Latest)
ReadValidatorChanges == Question("validator_changes", Latest)
ReadNodeStatus == Question("status", Latest)
ReadReward(at) == Question("reward", at)
ReadPackage(at) == Question("package", at)
ReadEntity(at) == Question("entity", at)

(* The codes of the node that some method tells apart.  InvalidTransaction *)
(* stands for the ninety codes that refuse a transaction or a deploy,      *)
(* InternalError for the codes that no method looks at.                    *)
ErrorCodes == {"FunctionDisabled", "RootNotFound", "FailedQuery", "SwitchBlockNotFound",
               "SwitchBlockParentNotFound", "UnsupportedRewardsV1Request", "PurseNotFound",
               "InvalidTransaction", "InvalidItemVariant", "InternalError"}

(* InvalidTransactionOrDeploy::from keeps the reason; the class is the same *)
InvalidTransactionOrDeploy(code) == "InvalidTransaction"

FromErrorCode(code) ==
    CASE code = "FunctionDisabled" -> "FunctionIsDisabled"
      [] code = "RootNotFound" -> "UnknownStateRootHash"
      [] code = "FailedQuery" -> "QueryFailedToExecute"
      [] code = "InvalidTransaction" -> InvalidTransactionOrDeploy(code)
      [] code = "InvalidItemVariant" -> "SpecExecutionFailed"
      [] code \in {"SwitchBlockNotFound", "SwitchBlockParentNotFound",
                   "UnsupportedRewardsV1Request", "PurseNotFound"} -> code
      [] OTHER -> "InternalNodeError"

(* What the client itself may report instead of an answer: the connection  *)
(* is lost, the request times out, the answer cannot be read.              *)
ClientErrors == {"ConnectionLost", "RequestFailed", "UnexpectedVariantReceived"}

(* parse_response: "value", "none" or an error *)
ParseResponse(outcome) ==
    CASE outcome = "value" -> "value"
      [] outcome \in {"not_found", "no_payload"} -> "none"
      [] outcome \in ErrorCodes -> FromErrorCode(outcome)
      [] OTHER -> outcome

(* Fault: an answer is taken for an acceptance *)
AcceptedWhenAnswered(outcome) == IF outcome \in ErrorCodes THEN "value" ELSE outcome

(* try_accept_transaction looks at the code alone *)
AcceptanceOf(outcome) == IF outcome \in ErrorCodes THEN FromErrorCode(outcome) ELSE outcome

(* Error::code: the JSON-RPC code of an error of a method.  The errors of  *)
(* the node client that have no code of their own become NodeRequestFailed,*)
(* its InvalidTransaction too, unless the method turns it into an error of *)
(* its own.                                                                *)
Code(error) ==
    CASE error = "UnknownStateRootHash" -> "NoSuchStateRoot"
      [] error = "GlobalStateEntryNotFound" -> "QueryFailed"
      [] error = "FoundTransactionInsteadOfDeploy" -> "VariantMismatch"
      [] error = "NoBlockFound" -> "NoSuchBlock"
      [] error = "NoTransactionWithHash" -> "NoSuchTransaction"
      [] error = "NoDeployWithHash" -> "NoSuchDeploy"
      [] error = "AccountNotFound" -> "NoSuchAccount"
      [] error = "AddressableEntityNotFound" -> "NoSuchAddressableEntity"
      [] error = "RewardNotFound" -> "NoRewardsFound"
      [] error = "InvalidPurseURef" -> "FailedToParseGetBalanceURef"
      [] error = "InvalidDictionaryKey" -> "FailedToParseQueryKey"
      [] error = "TransactionIsInvalid" -> "InvalidTransaction"
      [] error \in {"SpecExecutionFailed", "DeployIsInvalid"} -> "InvalidDeploy"
      [] error \in {"QueryFailedToExecute", "FunctionIsDisabled", "SwitchBlockNotFound",
                    "SwitchBlockParentNotFound", "UnsupportedRewardsV1Request", "PurseNotFound",
                    "AccountMigratedToEntity"} -> error
      [] error \in {"InvalidAuctionState", "InvalidNamedKeys", "InvalidEntryPoints"} -> "InternalError"
      [] OTHER -> "NodeRequestFailed"
=============================================================================
