-------------------------- MODULE AuctionBidsProofs --------------------------
(***************************************************************************)
(* What AuctionState::new makes of the bids of the node, for any number of *)
(* bids in any order.  The loops are folds over the bids; a fold is the    *)
(* value of a recursive function, so the proofs first show that there is   *)
(* such a function, then that each turn of a loop keeps what the loop is   *)
(* for.                                                                    *)
(***************************************************************************)
EXTENDS AuctionBids, TLAPS, WellFoundedInduction

-----------------------------------------------------------------------------
\* The loops.

\* A set that has 0 and with every number the next one has all of them: else
\* there is a least number that it lacks.
LEMMA Induction ==
    ASSUME NEW S, 0 \in S, \A m \in Nat : m \in S => m + 1 \in S
    PROVE  \A m \in Nat : m \in S
<1> DEFINE R == {ss \in Nat \X Nat : ss[1] < ss[2]}
           T == Nat \ S
<1> SUFFICES ASSUME T # {} PROVE FALSE
    OBVIOUS
<1>1. \A v, w \in Nat : v < w => <<v, w>> \in R
    OBVIOUS
<1>2. IsWellFoundedOn(R, Nat)
    BY NatLessThanWellFounded, Zenon DEF OpToRel
<1>3. PICK t \in T : \A u \in T : <<u, t>> \notin R
    <2>1. T \subseteq Nat
        OBVIOUS
    <2> HIDE DEF R, T
    <2> QED BY <1>2, <2>1, WFMin
<1>4. t \in Nat /\ t # 0
    OBVIOUS
<1>5. t - 1 \in Nat /\ t - 1 < t /\ (t - 1) + 1 = t
    BY <1>4
<1>6. t - 1 \notin T
    BY <1>1, <1>3, <1>4, <1>5
<1> QED BY <1>4, <1>5, <1>6

\* The greatest of the numbers up to m + 1 is m + 1.
LEMMA MaxOfNext ==
    ASSUME NEW m \in Nat, NEW s \in SUBSET (1 .. m + 1), m + 1 \in s
    PROVE  Max(s) = m + 1
<1>1. \A y \in s : y \in Int /\ m + 1 >= y
    OBVIOUS
<1>2. \A x \in s : (\A y \in s : x >= y) => x = m + 1
    BY <1>1
<1> QED BY <1>1, <1>2 DEF Max

\* The function that the fold of a pass takes its value from.
Iterates(kind, staking, bids, m, g) ==
    g = [s \in SUBSET (1 .. m) |-> IF s = {} THEN staking ELSE Enter(kind, g[s \ {Max(s)}], bids[Max(s)])]

\* There is such a function: a set of indices up to m + 1 is one up to m, or
\* one with m + 1 added.
LEMMA IterationExists ==
    ASSUME NEW kind, NEW staking, NEW bids
    PROVE  \A m \in Nat : \E g : Iterates(kind, staking, bids, m, g)
<1> DEFINE S == {m \in Nat : \E g : Iterates(kind, staking, bids, m, g)}
<1>1. 0 \in S
    <2> DEFINE g == [s \in SUBSET (1 .. 0) |-> staking]
    <2>1. \A s \in SUBSET (1 .. 0) : s = {}
        OBVIOUS
    <2>2. Iterates(kind, staking, bids, 0, g)
        BY <2>1 DEF Iterates
    <2> QED BY <2>2
<1>2. ASSUME NEW m \in Nat, m \in S PROVE m + 1 \in S
    <2>1. PICK g : Iterates(kind, staking, bids, m, g)
        BY <1>2
    <2> DEFINE D == SUBSET (1 .. m + 1)
               f == [s \in D |-> IF m + 1 \in s THEN Enter(kind, g[s \ {m + 1}], bids[m + 1]) ELSE g[s]]
               next(s) == IF s = {} THEN staking ELSE Enter(kind, f[s \ {Max(s)}], bids[Max(s)])
    <2>2. ASSUME NEW s \in D, m + 1 \in s PROVE f[s] = next(s)
        <3>1. Max(s) = m + 1
            BY <2>2, MaxOfNext
        <3>2. s \ {m + 1} \in D /\ m + 1 \notin s \ {m + 1}
            OBVIOUS
        <3>3. f[s \ {m + 1}] = g[s \ {m + 1}]
            BY <3>2
        <3>4. s # {} /\ f[s] = Enter(kind, g[s \ {m + 1}], bids[m + 1])
            BY <2>2
        <3> HIDE DEF f
        <3> QED BY <3>1, <3>3, <3>4
    <2>3. ASSUME NEW s \in D, m + 1 \notin s PROVE f[s] = next(s)
        <3>1. s \in SUBSET (1 .. m)
            BY <2>3
        <3>2. f[s] = g[s]
            BY <2>3
        <3>3. g[s] = IF s = {} THEN staking ELSE Enter(kind, g[s \ {Max(s)}], bids[Max(s)])
            BY <2>1, <3>1 DEF Iterates
        <3>4. s \ {Max(s)} \in D /\ m + 1 \notin s \ {Max(s)}
            BY <2>3
        <3>5. f[s \ {Max(s)}] = g[s \ {Max(s)}]
            BY <3>4
        <3> HIDE DEF f
        <3> QED BY <3>2, <3>3, <3>5
    <2>4. \A s \in D : f[s] = next(s)
        BY <2>2, <2>3
    <2>5. f = [s \in D |-> f[s]]
        OBVIOUS
    <2>6. f = [s \in D |-> next(s)]
        <3> HIDE DEF f
        <3> QED BY <2>4, <2>5
    <2>7. Iterates(kind, staking, bids, m + 1, f)
        <3> HIDE DEF f
        <3> QED BY <2>6 DEF Iterates
    <2> QED BY <2>7
<1> HIDE DEF S
<1>3. \A m \in Nat : m \in S
    BY <1>1, <1>2, Induction
<1> QED BY <1>3 DEF S

\* h has the map before the first turn of a pass, and after each of its turns.
Turns(kind, staking, bids, n, h) ==
    /\ h[0] = staking
    /\ h[n] = Pass(kind, staking, bids)
    /\ \A i \in 1 .. n : h[i] = Enter(kind, h[i - 1], bids[i])

\* A pass enters one bid after the other.
LEMMA PassTurns ==
    ASSUME NEW kind, NEW staking, NEW bids, NEW n \in Nat, DOMAIN bids = 1 .. n
    PROVE  \E h : Turns(kind, staking, bids, n, h)
<1> DEFINE g == CHOOSE g : Iterates(kind, staking, bids, n, g)
           h == [i \in 0 .. n |-> g[1 .. i]]
<1>1. Iterates(kind, staking, bids, n, g)
    BY IterationExists
<1>2. Pass(kind, staking, bids) = g[1 .. n]
    BY DEF Pass, FoldLeft, MapThenFoldSet, Iterates
<1> HIDE DEF g
<1>3. \A s \in SUBSET (1 .. n) : g[s] = IF s = {} THEN staking ELSE Enter(kind, g[s \ {Max(s)}], bids[Max(s)])
    BY <1>1 DEF Iterates
<1>4. h[0] = staking
    <2>1. 1 .. 0 = {} /\ 1 .. 0 \in SUBSET (1 .. n)
        OBVIOUS
    <2> QED BY <1>3, <2>1
<1>5. ASSUME NEW i \in 1 .. n PROVE h[i] = Enter(kind, h[i - 1], bids[i])
    <2>1. i - 1 \in Nat /\ (i - 1) + 1 = i
        OBVIOUS
    <2>2. i \in 1 .. i /\ 1 .. i \in SUBSET (1 .. n) /\ 1 .. i # {}
        OBVIOUS
    <2>3. Max(1 .. i) = i
        BY <2>1, <2>2, MaxOfNext
    <2>4. (1 .. i) \ {i} = 1 .. (i - 1)
        OBVIOUS
    <2>5. g[1 .. i] = Enter(kind, g[1 .. (i - 1)], bids[i])
        BY <1>3, <2>2, <2>3, <2>4
    <2> QED BY <2>1, <2>5
<1>6. h[n] = Pass(kind, staking, bids)
    BY <1>2
<1> HIDE DEF h
<1> QED BY <1>4, <1>5, <1>6 DEF Turns

-----------------------------------------------------------------------------
\* What the turns of a loop keep.

\* Bid j is a bid of that kind for validator v.
For(bids, j, kind, v) == bids[j].kind = kind /\ bids[j].validator = v

IsFunction(r) == r = [v \in DOMAIN r |-> r[v]]

\* After i turns of a loop that inserts bids, a validator is in the map if it
\* was there or has come by, with the delegators of a bid that has come by if
\* there is one and else with what it had.
Inserted(kind, staking, bids, i, r) ==
    /\ IsFunction(r)
    /\ \A v : v \in DOMAIN r <=> v \in DOMAIN staking \/ \E j \in 1 .. i : For(bids, j, kind, v)
    /\ \A v \in DOMAIN r : \/ \E j \in 1 .. i : For(bids, j, kind, v) /\ r[v] = bids[j].delegators
                           \/ (\A j \in 1 .. i : ~For(bids, j, kind, v)) /\ r[v] = staking[v]

\* After i turns of the loop over the delegators, the same validators are in
\* the map, each with the delegators that have come by for it.
Joined(staking, bids, i, r) ==
    /\ IsFunction(r)
    /\ DOMAIN r = DOMAIN staking
    /\ \A v \in DOMAIN r : \A d :
         d \in r[v] <=> \/ d \in staking[v]
                        \/ \E j \in 1 .. i : For(bids, j, "delegator", v) /\ d \in bids[j].delegators

\* What the map is after a turn that inserts a bid.
LEMMA InsertedBid ==
    ASSUME NEW r, NEW bid
    PROVE  LET q == InsertBid(r, bid) IN
           /\ IsFunction(q)
           /\ \A v : v \in DOMAIN q <=> v \in DOMAIN r \/ v = bid.validator
           /\ q[bid.validator] = bid.delegators
           /\ \A v \in DOMAIN r : v # bid.validator => q[v] = r[v]
BY DEF InsertBid, IsFunction

\* One turn more of a loop that inserts bids.
LEMMA InsertedNext ==
    ASSUME NEW kind \in {"unified", "validator"}, NEW staking, NEW bids, NEW i \in Nat \ {0}, NEW r,
           Inserted(kind, staking, bids, i - 1, r)
    PROVE  Inserted(kind, staking, bids, i, Enter(kind, r, bids[i]))
<1> DEFINE q == Enter(kind, r, bids[i])
<1>1. \A j : j \in 1 .. i <=> j \in 1 .. (i - 1) \/ j = i
    OBVIOUS
<1>2. CASE bids[i].kind # kind
    <2>1. q = r
        BY <1>2 DEF Enter
    <2>2. \A v : ~For(bids, i, kind, v)
        BY <1>2 DEF For
    <2>3. \A v : (\E j \in 1 .. i : For(bids, j, kind, v)) <=> \E j \in 1 .. (i - 1) : For(bids, j, kind, v)
        BY <1>1, <2>2
    <2> HIDE DEF q
    <2>4. \A v \in DOMAIN r : \/ \E j \in 1 .. i : For(bids, j, kind, v) /\ r[v] = bids[j].delegators
                              \/ (\A j \in 1 .. i : ~For(bids, j, kind, v)) /\ r[v] = staking[v]
        BY <1>1, <2>2 DEF Inserted
    <2>5. Inserted(kind, staking, bids, i, r)
        BY <2>3, <2>4 DEF Inserted
    <2> QED BY <2>1, <2>5 DEF q
<1>3. CASE bids[i].kind = kind
    <2> DEFINE w == bids[i].validator
    <2>1. q = InsertBid(r, bids[i])
        BY <1>3 DEF Enter
    <2>2. /\ IsFunction(q)
          /\ \A v : v \in DOMAIN q <=> v \in DOMAIN r \/ v = w
          /\ q[w] = bids[i].delegators
          /\ \A v \in DOMAIN r : v # w => q[v] = r[v]
        BY <2>1, InsertedBid
    <2>3. \A v : For(bids, i, kind, v) <=> v = w
        BY <1>3 DEF For
    <2> HIDE DEF q, w
    <2>4. \A v : v \in DOMAIN q <=> v \in DOMAIN staking \/ \E j \in 1 .. i : For(bids, j, kind, v)
        BY <1>1, <2>2, <2>3, Zenon DEF Inserted
    <2>5. ASSUME NEW v \in DOMAIN q
          PROVE  \/ \E j \in 1 .. i : For(bids, j, kind, v) /\ q[v] = bids[j].delegators
                 \/ (\A j \in 1 .. i : ~For(bids, j, kind, v)) /\ q[v] = staking[v]
        <3>1. CASE v = w
            BY <1>1, <2>2, <2>3, <3>1
        <3>2. CASE v # w
            <4>1. v \in DOMAIN r /\ q[v] = r[v] /\ ~For(bids, i, kind, v)
                BY <2>2, <2>3, <3>2
            <4>2. \/ \E j \in 1 .. (i - 1) : For(bids, j, kind, v) /\ q[v] = bids[j].delegators
                  \/ (\A j \in 1 .. (i - 1) : ~For(bids, j, kind, v)) /\ q[v] = staking[v]
                BY <4>1 DEF Inserted
            <4> QED BY <1>1, <4>1, <4>2
        <3> QED BY <3>1, <3>2
    <2>6. Inserted(kind, staking, bids, i, q)
        BY <2>2, <2>4, <2>5 DEF Inserted
    <2> QED BY <2>6 DEF q
<1> QED BY <1>2, <1>3

\* One turn more of the loop over the delegators.
LEMMA JoinedNext ==
    ASSUME NEW staking, NEW bids, NEW i \in Nat \ {0}, NEW r, Joined(staking, bids, i - 1, r)
    PROVE  Joined(staking, bids, i, Enter("delegator", r, bids[i]))
<1> DEFINE q == Enter("delegator", r, bids[i])
           w == bids[i].validator
<1>1. \A j : j \in 1 .. i <=> j \in 1 .. (i - 1) \/ j = i
    OBVIOUS
<1>2. \A v, d : (\E j \in 1 .. i : For(bids, j, "delegator", v) /\ d \in bids[j].delegators)
               <=> \/ \E j \in 1 .. (i - 1) : For(bids, j, "delegator", v) /\ d \in bids[j].delegators
                   \/ For(bids, i, "delegator", v) /\ d \in bids[i].delegators
    BY <1>1
<1>3. CASE bids[i].kind # "delegator" \/ w \notin DOMAIN r
    <2>1. q = r
        BY <1>3 DEF Enter, InsertDelegator
    <2>2. \A v \in DOMAIN r : ~For(bids, i, "delegator", v)
        BY <1>3 DEF For
    <2> HIDE DEF q, w
    <2>3. Joined(staking, bids, i, r)
        BY <1>2, <2>2 DEF Joined
    <2> QED BY <2>1, <2>3 DEF q
<1>4. CASE bids[i].kind = "delegator" /\ w \in DOMAIN r
    <2>1. q = [r EXCEPT ![w] = r[w] \cup bids[i].delegators]
        BY <1>4 DEF Enter, InsertDelegator
    <2>2. IsFunction(r) /\ DOMAIN r = DOMAIN staking
        BY DEF Joined
    <2>3. IsFunction(q) /\ DOMAIN q = DOMAIN r
        BY <2>1 DEF IsFunction
    <2>4. \A v \in DOMAIN r : \A d : d \in q[v] <=> d \in r[v] \/ (v = w /\ d \in bids[i].delegators)
        BY <1>4, <2>1
    <2>5. \A v : For(bids, i, "delegator", v) <=> v = w
        BY <1>4 DEF For
    <2> HIDE DEF q, w
    <2>6. \A v \in DOMAIN r : \A d :
            d \in r[v] <=> \/ d \in staking[v]
                           \/ \E j \in 1 .. (i - 1) : For(bids, j, "delegator", v) /\ d \in bids[j].delegators
        BY Zenon DEF Joined
    <2>7. \A v \in DOMAIN q : \A d :
            d \in q[v] <=> \/ d \in staking[v]
                           \/ \E j \in 1 .. i : For(bids, j, "delegator", v) /\ d \in bids[j].delegators
        BY <1>2, <2>3, <2>4, <2>5, <2>6, Zenon
    <2>8. Joined(staking, bids, i, q)
        BY <2>2, <2>3, <2>7 DEF Joined
    <2> QED BY <2>8 DEF q
<1> QED BY <1>3, <1>4

\* What a whole loop that inserts bids leaves.
LEMMA BidsInserted ==
    ASSUME NEW kind \in {"unified", "validator"}, NEW staking, IsFunction(staking),
           NEW bids, NEW n \in Nat, DOMAIN bids = 1 .. n
    PROVE  Inserted(kind, staking, bids, n, Pass(kind, staking, bids))
<1>0. PICK h : Turns(kind, staking, bids, n, h)
    BY PassTurns
<1>1. /\ h[0] = staking
      /\ h[n] = Pass(kind, staking, bids)
      /\ \A i \in 1 .. n : h[i] = Enter(kind, h[i - 1], bids[i])
    BY <1>0, Zenon DEF Turns
<1> DEFINE S == {i \in Nat : i <= n => Inserted(kind, staking, bids, i, h[i])}
<1>2. 0 \in S
    <2>1. \A j : j \notin 1 .. 0
        OBVIOUS
    <2> QED BY <1>1, <2>1 DEF Inserted
<1>3. ASSUME NEW m \in Nat, m \in S PROVE m + 1 \in S
    <2> SUFFICES ASSUME m + 1 <= n PROVE Inserted(kind, staking, bids, m + 1, h[m + 1])
        OBVIOUS
    <2>1. m <= n /\ m + 1 \in 1 .. n /\ m + 1 \in Nat \ {0} /\ (m + 1) - 1 = m
        OBVIOUS
    <2>2. Inserted(kind, staking, bids, (m + 1) - 1, h[m])
        BY <1>3, <2>1
    <2>3. h[m + 1] = Enter(kind, h[m], bids[m + 1])
        BY <1>1, <2>1
    <2> QED BY <2>1, <2>2, <2>3, InsertedNext
<1> HIDE DEF S
<1>4. n \in S
    BY <1>2, <1>3, Induction
<1> QED BY <1>1, <1>4 DEF S

\* What the whole loop over the delegators leaves.
LEMMA DelegatorsJoined ==
    ASSUME NEW staking, IsFunction(staking), NEW bids, NEW n \in Nat, DOMAIN bids = 1 .. n
    PROVE  Joined(staking, bids, n, Pass("delegator", staking, bids))
<1>0. PICK h : Turns("delegator", staking, bids, n, h)
    BY PassTurns
<1>1. /\ h[0] = staking
      /\ h[n] = Pass("delegator", staking, bids)
      /\ \A i \in 1 .. n : h[i] = Enter("delegator", h[i - 1], bids[i])
    BY <1>0, Zenon DEF Turns
<1> DEFINE S == {i \in Nat : i <= n => Joined(staking, bids, i, h[i])}
<1>2. 0 \in S
    <2>1. \A j : j \notin 1 .. 0
        OBVIOUS
    <2> QED BY <1>1, <2>1 DEF Joined
<1>3. ASSUME NEW m \in Nat, m \in S PROVE m + 1 \in S
    <2> SUFFICES ASSUME m + 1 <= n PROVE Joined(staking, bids, m + 1, h[m + 1])
        OBVIOUS
    <2>1. m <= n /\ m + 1 \in 1 .. n /\ m + 1 \in Nat \ {0} /\ (m + 1) - 1 = m
        OBVIOUS
    <2>2. Joined(staking, bids, (m + 1) - 1, h[m])
        BY <1>3, <2>1
    <2>3. h[m + 1] = Enter("delegator", h[m], bids[m + 1])
        BY <1>1, <2>1
    <2> QED BY <2>1, <2>2, <2>3, JoinedNext
<1> HIDE DEF S
<1>4. n \in S
    BY <1>2, <1>3, Induction
<1> QED BY <1>1, <1>4 DEF S

-----------------------------------------------------------------------------
\* The three loops.

\* What the node returns: a bid of a validator has no delegators, and no two
\* bids of one kind are for the same validator, delegators apart.
LEMMA NodeBidsShape ==
    ASSUME NEW bids \in NodeBids
    PROVE  \E n \in Nat :
             /\ DOMAIN bids = 1 .. n
             /\ \A j \in 1 .. n : bids[j].validator \in Validators
             /\ \A v : \A j \in 1 .. n : For(bids, j, "validator", v) => bids[j].delegators = {}
             /\ \A v : \A i, j \in 1 .. n : For(bids, i, "unified", v) /\ For(bids, j, "unified", v) => i = j
<1>1. PICK n \in 0 .. MaxBids : bids \in [1 .. n -> BidKinds]
    BY DEF NodeBids, BoundedSeq, SeqOf
<1>2. n \in Nat /\ DOMAIN bids = 1 .. n
    BY <1>1, BidsAssumption
<1>3. ASSUME NEW j \in 1 .. n
      PROVE  bids[j].validator \in Validators /\ (bids[j].kind = "validator" => bids[j].delegators = {})
    <2>1. bids[j] \in BidKinds
        BY <1>1, <1>3
    <2> QED BY <2>1 DEF BidKinds
<1>4. \A v : \A i, j \in 1 .. n : For(bids, i, "unified", v) /\ For(bids, j, "unified", v) => i = j
    BY <1>2 DEF NodeBids, For
<1> QED BY <1>2, <1>3, <1>4 DEF For

\* The bids that the reference looks for, by their index.
LEMMA BidsByIndex ==
    ASSUME NEW bids, NEW n \in Nat, DOMAIN bids = 1 .. n, NEW v, NEW kinds
    PROVE  /\ HasBid(bids, v, kinds) <=> \E j \in 1 .. n : bids[j].validator = v /\ bids[j].kind \in kinds
           /\ \A d : d \in DelegatorsOf(bids, v, kinds)
                     <=> \E j \in 1 .. n : bids[j].validator = v /\ bids[j].kind \in kinds /\ d \in bids[j].delegators
<1>1. \A b : b \in Range(bids) <=> \E j \in 1 .. n : b = bids[j]
    BY DEF Range
<1>2. HasBid(bids, v, kinds) <=> \E j \in 1 .. n : bids[j].validator = v /\ bids[j].kind \in kinds
    BY <1>1 DEF HasBid
<1>3. \A d : d \in DelegatorsOf(bids, v, kinds)
             <=> \E b \in Range(bids) : b.validator = v /\ b.kind \in kinds /\ d \in b.delegators
    BY DEF DelegatorsOf
<1> QED BY <1>1, <1>2, <1>3

\* The three loops of AuctionState::new lose no validator and no delegator,
\* whatever the order in which the node returns the bids.
THEOREM StakingIsComplete == NoBidLost
<1> SUFFICES ASSUME NEW bids \in NodeBids PROVE Staking(bids) = StakingOf(bids)
    BY DEF NoBidLost
<1> DEFINE U == Pass("unified", NoStaking, bids)
           V == Pass("validator", U, bids)
           W == Pass("delegator", V, bids)
           Has(kind, v) == \E j \in DOMAIN bids : For(bids, j, kind, v)
           Of(kind, v, d) == \E j \in DOMAIN bids : For(bids, j, kind, v) /\ d \in bids[j].delegators
<1>1. PICK n \in Nat :
             /\ DOMAIN bids = 1 .. n
             /\ \A j \in 1 .. n : bids[j].validator \in Validators
             /\ \A v : \A j \in 1 .. n : For(bids, j, "validator", v) => bids[j].delegators = {}
             /\ \A v : \A i, j \in 1 .. n : For(bids, i, "unified", v) /\ For(bids, j, "unified", v) => i = j
    BY NodeBidsShape
<1>2. Staking(bids) = W
    BY DEF Staking
<1>3. IsFunction(NoStaking) /\ DOMAIN NoStaking = {}
    BY DEF IsFunction, NoStaking
<1>4. Inserted("unified", NoStaking, bids, n, U)
    BY <1>1, <1>3, BidsInserted
<1>5. Inserted("validator", U, bids, n, V)
    <2>1. IsFunction(U)
        BY <1>4 DEF Inserted
    <2> HIDE DEF U
    <2> QED BY <1>1, <2>1, BidsInserted
<1>6. Joined(V, bids, n, W)
    <2>1. IsFunction(V)
        BY <1>5 DEF Inserted
    <2> HIDE DEF V
    <2> QED BY <1>1, <2>1, DelegatorsJoined
<1> HIDE DEF U, V, W
<1>7. \A v : v \in DOMAIN W <=> Has("unified", v) \/ Has("validator", v)
    <2>1. \A v : v \in DOMAIN U <=> Has("unified", v)
        BY <1>1, <1>3, <1>4 DEF Inserted
    <2>2. \A v : v \in DOMAIN V <=> v \in DOMAIN U \/ Has("validator", v)
        BY <1>1, <1>5 DEF Inserted
    <2>3. DOMAIN W = DOMAIN V
        BY <1>6 DEF Joined
    <2> HIDE DEF Has
    <2> QED BY <2>1, <2>2, <2>3
<1>8. ASSUME NEW v, Has("validator", v), NEW d PROVE d \in W[v] <=> Of("delegator", v, d)
    <2>1. v \in DOMAIN V /\ DOMAIN W = DOMAIN V
        BY <1>1, <1>5, <1>6, <1>8 DEF Inserted, Joined
    <2>2. V[v] = {}
        <3>1. PICK j \in 1 .. n : For(bids, j, "validator", v) /\ V[v] = bids[j].delegators
            BY <1>1, <1>5, <1>8, <2>1 DEF Inserted
        <3> QED BY <1>1, <3>1
    <2>3. d \in W[v] <=> d \in V[v] \/ Of("delegator", v, d)
        BY <1>1, <1>6, <2>1 DEF Joined
    <2> QED BY <2>2, <2>3
<1>9. ASSUME NEW v, ~Has("validator", v), Has("unified", v), NEW d
      PROVE  d \in W[v] <=> Of("unified", v, d) \/ Of("delegator", v, d)
    <2>1. v \in DOMAIN U /\ v \in DOMAIN V /\ DOMAIN W = DOMAIN V
        BY <1>1, <1>4, <1>5, <1>6, <1>9 DEF Inserted, Joined
    <2>2. V[v] = U[v]
        BY <1>1, <1>5, <1>9, <2>1 DEF Inserted
    <2>3. PICK j \in 1 .. n : For(bids, j, "unified", v) /\ U[v] = bids[j].delegators
        BY <1>1, <1>4, <1>9, <2>1 DEF Inserted
    <2>4. d \in U[v] <=> Of("unified", v, d)
        BY <1>1, <2>3
    <2>5. d \in W[v] <=> d \in V[v] \/ Of("delegator", v, d)
        BY <1>1, <1>6, <2>1 DEF Joined
    <2> QED BY <2>2, <2>4, <2>5
<1>10. \A v, kinds : HasBid(bids, v, kinds) <=> \E kind \in kinds : Has(kind, v)
    BY <1>1, BidsByIndex DEF For
<1>11. \A v, kinds, d : d \in DelegatorsOf(bids, v, kinds) <=> \E kind \in kinds : Of(kind, v, d)
    BY <1>1, BidsByIndex DEF For
<1>12. \A v : Has("unified", v) \/ Has("validator", v) => v \in Validators
    BY <1>1 DEF For
<1> HIDE DEF Has, Of
<1>13. DOMAIN W = {v \in Validators : HasBid(bids, v, {"unified", "validator"})}
    BY <1>7, <1>10, <1>12
<1>14. ASSUME NEW v \in DOMAIN W
       PROVE  W[v] = DelegatorsOf(bids, v, IF HasBid(bids, v, {"validator"})
                                           THEN {"delegator"} ELSE {"unified", "delegator"})
    <2>1. HasBid(bids, v, {"validator"}) <=> Has("validator", v)
        BY <1>10
    <2>2. CASE Has("validator", v)
        <3>1. \A d : d \in W[v] <=> d \in DelegatorsOf(bids, v, {"delegator"})
            BY <1>8, <1>11, <2>2
        <3>2. W[v] = DelegatorsOf(bids, v, {"delegator"})
            BY <3>1
        <3> QED BY <2>1, <2>2, <3>2
    <2>3. CASE ~Has("validator", v)
        <3>1. Has("unified", v)
            BY <1>7, <2>3
        <3>2. \A d : d \in W[v] <=> d \in DelegatorsOf(bids, v, {"unified", "delegator"})
            BY <1>9, <1>11, <2>3, <3>1
        <3>3. W[v] = DelegatorsOf(bids, v, {"unified", "delegator"})
            BY <3>2
        <3> QED BY <2>1, <2>3, <3>3
    <2> QED BY <2>2, <2>3
<1>15. W = [v \in DOMAIN W |-> W[v]]
    BY <1>6 DEF Joined, IsFunction
<1>16. W = StakingOf(bids)
    BY <1>13, <1>14, <1>15 DEF StakingOf
<1> QED BY <1>2, <1>16

\* The delegators of the bids are public keys or purses.
LEMMA DelegatorsAreKnown ==
    ASSUME NEW bids \in NodeBids, NEW v \in DOMAIN StakingOf(bids)
    PROVE  StakingOf(bids)[v] \subseteq PublicKeys \cup Purses
<1>1. PICK n \in 0 .. MaxBids : bids \in [1 .. n -> BidKinds]
    BY DEF NodeBids, BoundedSeq, SeqOf
<1>2. \A b \in BidKinds : b.delegators \subseteq PublicKeys \cup Purses
    BY DEF BidKinds, Delegators
<1>3. \A b \in Range(bids) : b \in BidKinds
    BY <1>1 DEF Range
<1>4. \A kinds : DelegatorsOf(bids, v, kinds) \subseteq PublicKeys \cup Purses
    BY <1>2, <1>3 DEF DelegatorsOf
<1> QED BY <1>4 DEF StakingOf

\* The auction state of state_get_auction_info has the bids of all validators with
\* all their delegators that are public keys; those that are purses, and nothing
\* else, are lost in the conversion to the old form of a bid.
THEOREM AuctionStateIsComplete == OnlyPursesLost
<1> SUFFICES ASSUME NEW bids \in NodeBids
             PROVE  /\ DOMAIN AuctionStateBids(bids) = DOMAIN StakingOf(bids)
                    /\ \A v \in DOMAIN StakingOf(bids) :
                         /\ AuctionStateBids(bids)[v] \subseteq StakingOf(bids)[v]
                         /\ StakingOf(bids)[v] \ AuctionStateBids(bids)[v] \subseteq Purses
                         /\ AuctionStateBids(bids)[v] \cap Purses = {}
    BY DEF OnlyPursesLost
<1> DEFINE S == StakingOf(bids)
<1>1. Staking(bids) = S
    BY StakingIsComplete DEF NoBidLost
<1>2. \A v \in DOMAIN S : S[v] \subseteq PublicKeys \cup Purses
    BY DelegatorsAreKnown
<1> HIDE DEF S
<1>3. AuctionStateBids(bids) = [v \in DOMAIN S |-> S[v] \cap PublicKeys]
    BY <1>1 DEF AuctionStateBids, FromNonUnified
<1>4. PublicKeys \cap Purses = {}
    BY BidsAssumption
<1> QED BY <1>2, <1>3, <1>4 DEF S
=============================================================================
