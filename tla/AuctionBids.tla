----------------------------- MODULE AuctionBids -----------------------------
(***************************************************************************)
(* The bids of an auction state: AuctionState::new of state_get_auction_   *)
(* info makes one bid per validator from the bids that the node returns in *)
(* the order of their keys.                                                *)
(*                                                                         *)
(* A bid is [kind, validator, delegators]: "unified" has the delegators of *)
(* its validator inside, "validator" has none, "delegator" is one of them, *)
(* "other" stands for reservations, credits, bridges and unbonds.  A       *)
(* delegator is a public key or, since 2.x, a purse; the unified bids, old *)
(* and new, know public keys only.                                         *)
(***************************************************************************)
EXTENDS SequencesExt

CONSTANTS
    Validators,
    PublicKeys,    \* the delegators that are DelegatorKind::PublicKey
    Purses,        \* the delegators that are DelegatorKind::Purse
    MaxBids        \* bound: the number of bids that the node returns

ASSUME BidsAssumption == MaxBids \in Nat /\ PublicKeys \cap Purses = {}

Delegators == PublicKeys \cup Purses

BidKinds ==
    [kind : {"unified"}, validator : Validators, delegators : SUBSET PublicKeys]
    \cup [kind : {"validator", "other"}, validator : Validators, delegators : {{}}]
    \cup [kind : {"delegator"}, validator : Validators, delegators : {{d} : d \in Delegators}]

NoStaking == [v \in {} |-> {}]

(* staking.insert: the last bid of a validator replaces the earlier ones *)
InsertBid(staking, bid) ==
    [v \in DOMAIN staking \cup {bid.validator} |-> IF v = bid.validator THEN bid.delegators ELSE staking[v]]

(* A delegator joins its validator, if that one has a bid *)
InsertDelegator(staking, bid) ==
    IF bid.validator \in DOMAIN staking
    THEN [staking EXCEPT ![bid.validator] = @ \cup bid.delegators]
    ELSE staking

(* The body of the loop over the bids of a kind, which filter leaves *)
Enter(kind, staking, bid) ==
    CASE bid.kind # kind -> staking
      [] bid.kind = kind /\ kind = "delegator" -> InsertDelegator(staking, bid)
      [] OTHER -> InsertBid(staking, bid)

Pass(kind, staking, bids) == FoldLeft(LAMBDA entered, bid : Enter(kind, entered, bid), staking, bids)

(* The three passes: unified bids, validators, delegators *)
Staking(bids) ==
    LET unified == Pass("unified", NoStaking, bids)
        validators == Pass("validator", unified, bids)
    IN Pass("delegator", validators, bids)

(* Bid::from_non_unified, for every validator: a Bid has its delegators by *)
(* their public keys, so that purses have no place in it.                  *)
FromNonUnified(staking) == [v \in DOMAIN staking |-> staking[v] \cap PublicKeys]

(* The bids that AuctionState::new returns *)
AuctionStateBids(bids) == FromNonUnified(Staking(bids))

(* Bids as the node may return them: one entry per key, so at most one     *)
(* unified bid and one validator bid of each validator, in any order.      *)
NodeBids ==
    {bids \in BoundedSeq(BidKinds, MaxBids) :
       \A i, j \in DOMAIN bids :
         i # j => \/ bids[i].validator # bids[j].validator
                  \/ bids[i].kind # bids[j].kind
                  \/ bids[i].kind = "delegator" /\ bids[i].delegators # bids[j].delegators}

HasBid(bids, v, kinds) == \E b \in Range(bids) : b.validator = v /\ b.kind \in kinds

DelegatorsOf(bids, v, kinds) ==
    UNION {b.delegators : b \in {b \in Range(bids) : b.validator = v /\ b.kind \in kinds}}

(* What the three passes should leave: the validators that have a bid,     *)
(* each with its delegator bids, and with those of its unified bid unless  *)
(* it has a bid of its own, which replaces that one.                       *)
StakingOf(bids) ==
    [v \in {v \in Validators : HasBid(bids, v, {"unified", "validator"})} |->
        DelegatorsOf(bids, v, IF HasBid(bids, v, {"validator"}) THEN {"delegator"} ELSE {"unified", "delegator"})]

(* Whatever the order of the bids, the passes lose none of them.  The      *)
(* conversion after them loses the purses and nothing else, the loss that  *)
(* the description of the method in docs.rs speaks of.                     *)
NoBidLost == \A bids \in NodeBids : Staking(bids) = StakingOf(bids)

OnlyPursesLost ==
    \A bids \in NodeBids :
        /\ DOMAIN AuctionStateBids(bids) = DOMAIN StakingOf(bids)
        /\ \A v \in DOMAIN StakingOf(bids) :
             /\ AuctionStateBids(bids)[v] \subseteq StakingOf(bids)[v]
             /\ StakingOf(bids)[v] \ AuctionStateBids(bids)[v] \subseteq Purses
             /\ AuctionStateBids(bids)[v] \cap Purses = {}
=============================================================================
