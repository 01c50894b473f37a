------------------------- MODULE ArcadeEscrowProofs -------------------------
(***************************************************************************)
(* Theorems about the escrow contract, for any finite sets of matches,     *)
(* seats, accounts, tokens and nonces: what Total does when a balance      *)
(* sheet changes, proved by counting coins, and the types; then who sits   *)
(* where, the pools of the spectators, and the books.                      *)
(***************************************************************************)
EXTENDS ArcadeEscrow, FiniteSetTheorems, TLAPS

\* The coins of one holder.
Purse(f, x) == {x} \X (1..f[x])

(***************************************************************************)
(* A holder has as many coins as it has units.                             *)
(***************************************************************************)
LEMMA PurseSize ==
    ASSUME NEW f, NEW x, f[x] \in Nat
    PROVE  IsFiniteSet(Purse(f, x)) /\ Cardinality(Purse(f, x)) = f[x]
<1>1. IsFiniteSet({x}) /\ Cardinality({x}) = 1
  BY FS_Singleton
<1>2. IsFiniteSet(1..f[x]) /\ Cardinality(1..f[x]) = f[x]
  BY FS_Interval, SMTT(30)
<1>3. /\ IsFiniteSet({x} \X (1..f[x]))
      /\ Cardinality({x} \X (1..f[x])) = Cardinality({x}) * Cardinality(1..f[x])
  BY <1>1, <1>2, FS_Product
<1> QED  BY <1>1, <1>2, <1>3 DEF Purse

(***************************************************************************)
(* Finitely many holders have finitely many coins.                         *)
(***************************************************************************)
LEMMA CoinsFinite ==
    ASSUME NEW S, IsFiniteSet(S), NEW f \in [S -> Nat]
    PROVE  IsFiniteSet(Coins(f)) /\ Total(f) \in Nat
<1> DEFINE P == {{x} \X (1..f[x]) : x \in S}
           g == [x \in S |-> {x} \X (1..f[x])]
<1>1. g \in Surjection(S, P)
  BY DEF Surjection
<1>2. IsFiniteSet(P)
  BY <1>1, FS_Surjection
<1>3. \A T \in P : IsFiniteSet(T)
  BY PurseSize DEF Purse
<1>4. IsFiniteSet(UNION P)
  BY <1>2, <1>3, FS_UNION
<1>5. Coins(f) = UNION P
  BY DEF Coins
<1> QED  BY <1>4, <1>5, FS_CardinalityType DEF Total

(***************************************************************************)
(* Which coins there are.                                                  *)
(***************************************************************************)
LEMMA CoinsMember ==
    ASSUME NEW S, NEW f \in [S -> Nat], NEW c
    PROVE  c \in Coins(f) <=> \E x \in S : \E k \in 1..f[x] : c = <<x, k>>
<1>1. c \in Coins(f) <=> \E x \in S : c \in {x} \X (1..f[x])
  BY DEF Coins
<1> QED  BY <1>1

(***************************************************************************)
(* One holder's part of the total, and what is left without it.            *)
(***************************************************************************)
LEMMA TotalWithout ==
    ASSUME NEW S, IsFiniteSet(S), NEW f \in [S -> Nat], NEW x \in S
    PROVE  /\ Cardinality(Coins(f) \ Purse(f, x)) = Total(f) - f[x]
           /\ f[x] <= Total(f)
<1>1. IsFiniteSet(Coins(f)) /\ Cardinality(Coins(f)) \in Nat
  BY CoinsFinite DEF Total
<1>2. Purse(f, x) \subseteq Coins(f)
  BY DEF Purse, Coins
<1>3. Cardinality(Purse(f, x)) = f[x] /\ f[x] \in Nat
  BY PurseSize
<1>4. Coins(f) \cap Purse(f, x) = Purse(f, x)
  BY <1>2
<1>5. Cardinality(Coins(f) \ Purse(f, x)) =
        Cardinality(Coins(f)) - Cardinality(Coins(f) \cap Purse(f, x))
  BY <1>1, FS_Difference
<1>6. Cardinality(Purse(f, x)) <= Cardinality(Coins(f))
  BY <1>1, <1>2, FS_Subset
<1> QED  BY <1>3, <1>4, <1>5, <1>6 DEF Total

(***************************************************************************)
(* The coins of the others do not depend on what x holds.                  *)
(***************************************************************************)
LEMMA CoinsOfOthers ==
    ASSUME NEW S, NEW f \in [S -> Nat], NEW g \in [S -> Nat], NEW x \in S,
           \A y \in S \ {x} : f[y] = g[y]
    PROVE  Coins(f) \ Purse(f, x) \subseteq Coins(g) \ Purse(g, x)
<1> SUFFICES ASSUME NEW c \in Coins(f) \ Purse(f, x)
             PROVE  c \in Coins(g) \ Purse(g, x)
  OBVIOUS
<1>1. PICK y \in S : \E k \in 1..f[y] : c = <<y, k>>
  BY CoinsMember
<1>2. y # x
  BY <1>1 DEF Purse
<1>3. c \in Coins(g)
  BY <1>1, <1>2, CoinsMember
<1>4. c \notin Purse(g, x)
  BY <1>1, <1>2 DEF Purse
<1> QED  BY <1>3, <1>4

(***************************************************************************)
(* Setting one balance changes the total by the difference.                *)
(***************************************************************************)
LEMMA TotalChange ==
    ASSUME NEW S, IsFiniteSet(S), NEW f \in [S -> Nat], NEW g \in [S -> Nat],
           NEW x \in S, \A y \in S \ {x} : g[y] = f[y]
    PROVE  Total(g) = Total(f) - f[x] + g[x]
<1>1. Coins(f) \ Purse(f, x) = Coins(g) \ Purse(g, x)
  BY CoinsOfOthers
<1>2. Total(f) - f[x] = Total(g) - g[x]
  BY <1>1, TotalWithout, ZenonT(40)
<1> QED  BY <1>2, CoinsFinite

(***************************************************************************)
(* A total is a natural number at least as large as each of its parts.     *)
(***************************************************************************)
LEMMA TotalBounds ==
    ASSUME NEW S, IsFiniteSet(S), NEW f \in [S -> Nat]
    PROVE  Total(f) \in Nat /\ \A x \in S : f[x] <= Total(f)
BY CoinsFinite, TotalWithout

(***************************************************************************)
(* Nobody holds anything exactly when the total is zero.                   *)
(***************************************************************************)
LEMMA TotalZero ==
    ASSUME NEW S, IsFiniteSet(S), NEW f \in [S -> Nat]
    PROVE  Total(f) = 0 <=> \A x \in S : f[x] = 0
<1>1. ASSUME \A x \in S : f[x] = 0 PROVE Total(f) = 0
  <2>1. Coins(f) = {}
    BY <1>1, CoinsMember
  <2> QED  BY <2>1, FS_EmptySet DEF Total
<1>2. ASSUME Total(f) = 0 PROVE \A x \in S : f[x] = 0
  BY <1>2, TotalBounds
<1> QED  BY <1>1, <1>2

(***************************************************************************)
(* Whoever never holds less has no smaller total.                          *)
(***************************************************************************)
LEMMA TotalMonotone ==
    ASSUME NEW S, IsFiniteSet(S), NEW f \in [S -> Nat], NEW g \in [S -> Nat],
           \A x \in S : f[x] <= g[x]
    PROVE  Total(f) <= Total(g)
<1>1. ASSUME NEW c \in Coins(f) PROVE c \in Coins(g)
  <2>1. PICK x \in S : \E k \in 1..f[x] : c = <<x, k>>
    BY CoinsMember
  <2>2. \E k \in 1..g[x] : c = <<x, k>>
    BY <2>1
  <2> QED  BY <2>2, CoinsMember
<1>2. Coins(f) \subseteq Coins(g)
  BY <1>1
<1> QED  BY <1>2, CoinsFinite, FS_Subset DEF Total
-----------------------------------------------------------------------------
(***************************************************************************)
(* Induction over the subsets of a finite set, with the induction          *)
(* predicate given as the set G of the subsets that satisfy it.            *)
(***************************************************************************)
LEMMA SubsetInduction ==
    ASSUME NEW S, IsFiniteSet(S), NEW G, {} \in G,
           \A T \in SUBSET S : T \in G => \A x \in S \ T : T \cup {x} \in G
    PROVE  S \in G
<1> DEFINE Bad == (SUBSET S) \ G
<1> SUFFICES ASSUME Bad # {} PROVE FALSE
  OBVIOUS
<1>1. FiniteSubsetsOf(S) = SUBSET S
  BY FS_FiniteSubsetsOfFinite
<1>2. IsWellFoundedOn(StrictSubsetOrdering(S), SUBSET S)
  BY <1>1, FS_StrictSubsetOrderingWellFounded
<1>3. Bad \subseteq SUBSET S
  OBVIOUS
<1> HIDE DEF Bad
<1>4. \E T \in Bad : \A U \in Bad : <<U, T>> \notin StrictSubsetOrdering(S)
  BY <1>2, <1>3, WFMin
<1>5. PICK T \in Bad : \A U \in Bad : <<U, T>> \notin StrictSubsetOrdering(S)
  BY <1>4
<1>6. T \in SUBSET S /\ T \notin G /\ T # {}
  BY DEF Bad
<1>7. PICK x \in T : TRUE
  BY <1>6
<1>8. <<T \ {x}, T>> \in StrictSubsetOrdering(S)
  BY <1>6, <1>7 DEF StrictSubsetOrdering
<1>9. T \ {x} \in G
  BY <1>5, <1>6, <1>8 DEF Bad
<1>10. (T \ {x}) \cup {x} = T
  BY <1>7
<1> QED  BY <1>6, <1>7, <1>9, <1>10

\* f on T, nothing elsewhere.
Part(f, S, T) == [x \in S |-> IF x \in T THEN f[x] ELSE 0]

(***************************************************************************)
(* The total of a part grows by what the added holder has.                 *)
(***************************************************************************)
LEMMA PartGrows ==
    ASSUME NEW S, IsFiniteSet(S), NEW f \in [S -> Nat],
           NEW T \in SUBSET S, NEW x \in S \ T
    PROVE  /\ Total(Part(f, S, T \cup {x})) = Total(Part(f, S, T)) + f[x]
           /\ Total(Part(f, S, T)) \in Nat /\ f[x] \in Nat
<1> DEFINE p == Part(f, S, T)
           q == Part(f, S, T \cup {x})
<1>1. p \in [S -> Nat] /\ q \in [S -> Nat]
  BY DEF Part
<1>2. p[x] = 0 /\ q[x] = f[x] /\ \A y \in S \ {x} : q[y] = p[y]
  BY DEF Part
<1> HIDE DEF p, q
<1>3. Total(q) = Total(p) - p[x] + q[x]
  BY <1>1, <1>2, TotalChange
<1>4. Total(p) \in Nat
  BY <1>1, TotalBounds
<1> QED  BY <1>2, <1>3, <1>4 DEF p, q

LEMMA PartBase ==
    ASSUME NEW S, IsFiniteSet(S), NEW f \in [S -> Nat]
    PROVE  Total(Part(f, S, {})) = 0 /\ Part(f, S, S) = f
<1>1. Part(f, S, {}) \in [S -> Nat] /\ \A x \in S : Part(f, S, {})[x] = 0
  BY DEF Part
<1> QED  BY <1>1, TotalZero DEF Part

(***************************************************************************)
(* The total of a sum is the sum of the totals.                            *)
(***************************************************************************)
LEMMA TotalSum ==
    ASSUME NEW S, IsFiniteSet(S), NEW f \in [S -> Nat], NEW g \in [S -> Nat],
           NEW h \in [S -> Nat], \A x \in S : h[x] = f[x] + g[x]
    PROVE  Total(h) = Total(f) + Total(g)
<1> DEFINE P(T) == Total(Part(h, S, T)) = Total(Part(f, S, T)) + Total(Part(g, S, T))
           G == {T \in SUBSET S : P(T)}
<1>1. {} \in G
  BY PartBase
<1>2. ASSUME NEW T \in SUBSET S, T \in G, NEW x \in S \ T PROVE T \cup {x} \in G
  BY <1>2, PartGrows
<1> HIDE DEF G
<1>3. S \in G
  BY <1>1, <1>2, SubsetInduction
<1> QED  BY <1>3, PartBase DEF G

(***************************************************************************)
(* Rounded-down shares of c in proportions b, of which there are at most   *)
(* n, add up to at most c.                                                 *)
(***************************************************************************)
LEMMA TotalShares ==
    ASSUME NEW S, IsFiniteSet(S), NEW f \in [S -> Nat], NEW b \in [S -> Nat],
           NEW n \in Nat, NEW c \in Nat
    PROVE  (\A x \in S : n * f[x] <= c * b[x]) => n * Total(f) <= c * Total(b)
<1> DEFINE F(T) == Total(Part(f, S, T))
           B(T) == Total(Part(b, S, T))
<1> HIDE DEF F, B
<1>1. ASSUME NEW T \in SUBSET S, NEW x \in S \ T
      PROVE  F(T \cup {x}) = F(T) + f[x] /\ F(T) \in Nat /\ f[x] \in Nat
  BY PartGrows DEF F
<1>2. ASSUME NEW T \in SUBSET S, NEW x \in S \ T
      PROVE  B(T \cup {x}) = B(T) + b[x] /\ B(T) \in Nat /\ b[x] \in Nat
  BY PartGrows DEF B
<1>3. F({}) = 0 /\ B({}) = 0 /\ F(S) = Total(f) /\ B(S) = Total(b)
  BY PartBase DEF F, B
<1> SUFFICES ASSUME \A x \in S : n * f[x] <= c * b[x]
             PROVE  n * Total(f) <= c * Total(b)
  OBVIOUS
<1> DEFINE G == {T \in SUBSET S : n * F(T) <= c * B(T)}
<1>4. {} \in G
  BY <1>3
<1>5. ASSUME NEW T \in SUBSET S, T \in G, NEW x \in S \ T PROVE T \cup {x} \in G
  <2>1. F(T) \in Nat /\ f[x] \in Nat /\ B(T) \in Nat /\ b[x] \in Nat
    BY <1>1, <1>2
  <2>2. n * F(T) <= c * B(T) /\ n * f[x] <= c * b[x]
    BY <1>5
  <2>3. n * (F(T) + f[x]) = n * F(T) + n * f[x]
    BY <2>1
  <2>4. c * (B(T) + b[x]) = c * B(T) + c * b[x]
    BY <2>1
  <2>5. n * F(T) \in Nat /\ n * f[x] \in Nat /\ c * B(T) \in Nat /\ c * b[x] \in Nat
    BY <2>1
  <2>6. n * (F(T) + f[x]) <= c * (B(T) + b[x])
    BY <2>2, <2>3, <2>4, <2>5
  <2>7. F(T \cup {x}) = F(T) + f[x] /\ B(T \cup {x}) = B(T) + b[x]
    BY <1>1, <1>2
  <2> QED  BY <2>6, <2>7
<1> HIDE DEF G
<1>6. S \in G
  BY <1>4, <1>5, SubsetInduction
<1> QED  BY <1>3, <1>6 DEF G

------------------------------------------------------------------------------

\* What _createMatch checked of the terms it stored.
TermsOK ==
    \A m \in Matches :
        account[m].status # "Absent" =>
            LET t == account[m].terms IN
            /\ t \in Terms
            /\ t.feeBps <= 1000 /\ t.creatorShareBps <= 9000
            /\ t.creator = NoOne => t.creatorShareBps = 0
            /\ Total(t.royalties) <= 10000

\* No outcome holds more than the whole spectator pool.
PoolOK ==
    \A m \in Matches, s \in Seats : outcomePool[<<m, s>>] <= account[m].betPool

TypeInv == TypeOK /\ TermsOK /\ PoolOK

(***************************************************************************)
(* A share in basis points, rounded down, is no more than the whole.       *)
(***************************************************************************)
LEMMA FeeBounds ==
    ASSUME NEW x, x \in Nat, NEW bps, bps \in Nat, bps <= 10000
    PROVE  FeeOn(x, bps) \in Nat /\ FeeOn(x, bps) <= x
<1> DEFINE y == x * bps
<1>1. y \in Nat /\ y <= x * 10000
  OBVIOUS
<1> HIDE DEF y
<1>2. y \div 10000 \in Nat /\ y \div 10000 <= x
  BY <1>1
<1> USE DEF y
<1> QED  BY <1>2 DEF FeeOn

LEMMA TypeInit == Init => TypeInv
<1> SUFFICES ASSUME Init PROVE TypeInv
  OBVIOUS
<1>1. TypeOK
  BY GovernorAssumption DEF Init, TypeOK, NoMatch, MatchAccount, Status
<1>2. \A m \in Matches : account[m].status = "Absent" /\ account[m].betPool = 0
  BY DEF Init, NoMatch
<1>3. \A m \in Matches, s \in Seats : outcomePool[<<m, s>>] = 0
  BY DEF Init
<1> QED  BY <1>1, <1>2, <1>3 DEF TypeInv, TermsOK, PoolOK

(***************************************************************************)
(* Governance, the token and the clock leave every match alone.            *)
(***************************************************************************)
LEMMA TypeFrame ==
    ASSUME TypeInv, TypeOK', UNCHANGED <<account, outcomePool>>
    PROVE  TypeInv'
BY DEF TypeInv, TermsOK, PoolOK

LEMMA TypeGovernance ==
    ASSUME TypeInv, Governance PROVE TypeInv'
<1>1. UNCHANGED <<account, outcomePool>>
  BY DEF Governance, SetToken, SetResolver, SetPaused, AcceptOwnership, notAdmin,
         betVars
<1>2. TypeOK'
  BY OfficerAssumption
     DEF TypeInv, TypeOK, Governance, SetToken, SetResolver, SetPaused,
         AcceptOwnership, notAdmin, seatVars, betVars, tokenVars
<1> QED  BY <1>1, <1>2, TypeFrame

LEMMA TypeCreate ==
    ASSUME TypeInv, NEW m \in Matches, NEW t \in TermsChoices, CreateMatch(m, t)
    PROVE TypeInv'
<1>1. t \in Terms
  BY ChoiceAssumption
<1>2. account' \in [Matches -> MatchAccount]
  <2>1. account \in [Matches -> MatchAccount]
    BY DEF TypeInv, TypeOK
  <2>2. [account[m] EXCEPT !.terms = t, !.status = "Funding"] \in MatchAccount
    BY <1>1, <2>1 DEF MatchAccount, Status
  <2> QED  BY <2>1, <2>2 DEF CreateMatch
<1>3. recipient' \in [Matches \X Seats -> Accounts \cup {NoOne}]
  <2>1. t.recipients \in [Seats -> Accounts \cup {NoOne}]
    BY <1>1 DEF Terms
  <2> QED  BY <2>1 DEF CreateMatch, TypeInv, TypeOK
<1>4. TypeOK'
  BY <1>2, <1>3 DEF CreateMatch, TypeInv, TypeOK, adminVars, betVars, tokenVars
<1>5. TermsOK'
  BY <1>1 DEF CreateMatch, ValidTerms, TypeInv, TermsOK, TypeOK
<1>6. \A n \in Matches : account'[n].betPool = account[n].betPool
  BY DEF CreateMatch, TypeInv, TypeOK
<1>7. PoolOK'
  BY <1>6 DEF CreateMatch, TypeInv, PoolOK, betVars
<1> QED  BY <1>4, <1>5, <1>7 DEF TypeInv

(***************************************************************************)
(* A step that changes no terms, creates no match and keeps every outcome  *)
(* within its pool needs only its types checked.                           *)
(***************************************************************************)
LEMMA TypeStep ==
    ASSUME TypeInv, TypeOK',
           \A n \in Matches : /\ account'[n].terms = account[n].terms
                              /\ account[n].status = "Absent" =>
                                     account'[n].status = "Absent",
           \A n \in Matches, s \in Seats :
               outcomePool'[<<n, s>>] - outcomePool[<<n, s>>] <=
                   account'[n].betPool - account[n].betPool
    PROVE  TypeInv'
<1>1. TermsOK'
  BY DEF TypeInv, TermsOK
<1>2. PoolOK'
  <2> SUFFICES ASSUME NEW n \in Matches, NEW s \in Seats
               PROVE  outcomePool'[<<n, s>>] <= account'[n].betPool
    BY DEF PoolOK
  <2>1. /\ outcomePool[<<n, s>>] \in Nat /\ outcomePool'[<<n, s>>] \in Nat
        /\ account[n].betPool \in Nat /\ account'[n].betPool \in Nat
    BY DEF TypeInv, TypeOK, MatchAccount
  <2> QED  BY <2>1 DEF TypeInv, PoolOK
<1> QED  BY <1>1, <1>2 DEF TypeInv

(***************************************************************************)
(* Taking a seat.                                                          *)
(***************************************************************************)
LEMMA TypeSeat ==
    ASSUME TypeInv, NEW m \in Matches, NEW s \in Seats, NEW p \in Accounts,
           NEW key \in Accounts, account[m].status = "Funding",
           Seat(m, s, p, key)
    PROVE  /\ account' \in [Matches -> MatchAccount]
           /\ recipient' \in [Matches \X Seats -> Accounts \cup {NoOne}]
           /\ staked' \subseteq Matches \X Seats
           /\ seated' \subseteq Matches \X Accounts
           /\ controller' \in [Matches \X Seats -> Accounts \cup {NoOne}]
           /\ refundable' \in [Matches \X Accounts -> Nat]
           /\ \A n \in Matches : /\ account'[n].terms = account[n].terms
                                 /\ account'[n].status = account[n].status
                                 /\ account'[n].betPool = account[n].betPool
           /\ account[m].terms.stake \in Nat
           /\ account[m].terms.token \in TokenIds
<1>1. account[m].terms \in Terms
  BY DEF TypeInv, TermsOK
<1>2. account[m].terms.stake \in Nat /\ account[m].terms.token \in TokenIds
  BY <1>1 DEF Terms
<1>3. account \in [Matches -> MatchAccount]
  BY DEF TypeInv, TypeOK
<1>4. [account[m] EXCEPT !.paidSeats = @ + 1,
                         !.prizePool = @ + account[m].terms.stake] \in MatchAccount
  <2> DEFINE paid == account[m].paidSeats + 1
             pool == account[m].prizePool + account[m].terms.stake
  <2>1. account[m] \in MatchAccount
    BY <1>3
  <2>2. paid \in Nat /\ pool \in Nat
    BY <1>2, <2>1 DEF MatchAccount
  <2> HIDE DEF paid, pool
  <2>3. [account[m] EXCEPT !.paidSeats = paid, !.prizePool = pool] \in MatchAccount
    BY <2>1, <2>2 DEF MatchAccount
  <2> QED  BY <2>3 DEF paid, pool
<1>5. account' \in [Matches -> MatchAccount]
  BY <1>3, <1>4 DEF Seat
<1>6. \A n \in Matches : /\ account'[n].terms = account[n].terms
                         /\ account'[n].status = account[n].status
                         /\ account'[n].betPool = account[n].betPool
  BY <1>3 DEF Seat, MatchAccount
<1>7. recipient' \in [Matches \X Seats -> Accounts \cup {NoOne}]
  <2>1. recipient \in [Matches \X Seats -> Accounts \cup {NoOne}]
    BY DEF TypeInv, TypeOK
  <2> QED  BY <2>1 DEF Seat
<1>8. staked' \subseteq Matches \X Seats /\ seated' \subseteq Matches \X Accounts
  BY DEF Seat, TypeInv, TypeOK
<1>9. controller' \in [Matches \X Seats -> Accounts \cup {NoOne}]
  BY DEF Seat, TypeInv, TypeOK
<1>10. refundable' \in [Matches \X Accounts -> Nat]
  BY <1>2 DEF Seat, TypeInv, TypeOK
<1> QED  BY <1>2, <1>5, <1>6, <1>7, <1>8, <1>9, <1>10

\* The amounts of a balance sheet stay natural when one of them grows.
LEMMA BalanceGrows ==
    ASSUME balance \in [TokenIds -> Nat], NEW t \in TokenIds, NEW x \in Nat
    PROVE  [balance EXCEPT ![t] = @ + x] \in [TokenIds -> Nat]
OBVIOUS

LEMMA TypeEntry ==
    ASSUME TypeInv, NEW m \in Matches, NEW s \in Seats, NEW p \in Accounts,
           NEW key \in Accounts,
           \/ Stake(m, s, p, key)
           \/ ClaimSeatFor(m, s, p, key)
           \/ \E nonce \in Nonces :
                 \/ StakeWithAuthorization(m, s, p, key, nonce)
                 \/ RecoverAuthorizedStake(m, s, p, key, nonce)
    PROVE  TypeInv'
<1>1. account[m].status = "Funding" /\ Seat(m, s, p, key)
  BY DEF Stake, ClaimSeatFor, StakeWithAuthorization, RecoverAuthorizedStake,
         AuthorizedEntry, Funding
<1>2. /\ account[m].terms.token \in TokenIds
      /\ account[m].terms.stake \in Nat
  BY <1>1, TypeSeat
<1>3. balance' \in [TokenIds -> Nat]
  <2>1. \/ UNCHANGED balance
        \/ balance' = [balance EXCEPT ![account[m].terms.token] =
                                          @ + account[m].terms.stake]
    BY DEF Stake, ClaimSeatFor, StakeWithAuthorization, RecoverAuthorizedStake
  <2> QED  BY <1>2, <2>1, BalanceGrows DEF TypeInv, TypeOK
<1>4. credited' \subseteq Authorizations /\ used' \subseteq Authorizations
  <2> DEFINE auth(nonce) == <<account[m].terms.token, p, nonce>>
  <2>1. \A nonce \in Nonces : auth(nonce) \in Authorizations
    BY <1>2 DEF Authorizations
  <2>2. credited \subseteq Authorizations /\ used \subseteq Authorizations
    BY DEF TypeInv, TypeOK
  <2>3. CASE Stake(m, s, p, key) \/ ClaimSeatFor(m, s, p, key)
    BY <2>2, <2>3 DEF Stake, ClaimSeatFor, tokenVars
  <2>4. ASSUME NEW nonce \in Nonces,
               \/ StakeWithAuthorization(m, s, p, key, nonce)
               \/ RecoverAuthorizedStake(m, s, p, key, nonce)
        PROVE  credited' \subseteq Authorizations /\ used' \subseteq Authorizations
    BY <2>1, <2>2, <2>4
       DEF StakeWithAuthorization, RecoverAuthorizedStake, AuthorizedEntry
  <2> QED  BY <2>3, <2>4
<1>5. UNCHANGED <<adminVars, now, betVars, claimable, arrived>>
  BY DEF Stake, ClaimSeatFor, StakeWithAuthorization, RecoverAuthorizedStake,
         tokenVars
<1>6. TypeOK'
  BY <1>1, <1>3, <1>4, <1>5, TypeSeat
     DEF TypeInv, TypeOK, adminVars, betVars
<1> QED
  <2>1. \A n \in Matches, x \in Seats :
            outcomePool'[<<n, x>>] - outcomePool[<<n, x>>] <=
                account'[n].betPool - account[n].betPool
    BY <1>1, <1>5, TypeSeat DEF betVars, TypeInv, TypeOK, MatchAccount
  <2> QED  BY <1>1, <1>6, <2>1, TypeSeat, TypeStep

(***************************************************************************)
(* Bounties, bets and the calls that only move a status.                   *)
(***************************************************************************)
LEMMA TypeBounty ==
    ASSUME TypeInv, NEW m \in Matches, NEW p \in Accounts, NEW amount \in Amounts,
           FundBounty(m, p, amount)
    PROVE  TypeInv'
<1>1. account[m].terms.token \in TokenIds /\ amount \in Nat
  BY ChoiceAssumption DEF FundBounty, Funding, TypeInv, TermsOK, Terms
<1>2. account \in [Matches -> MatchAccount]
  BY DEF TypeInv, TypeOK
<1>3. [account[m] EXCEPT !.prizePool = @ + amount] \in MatchAccount
  <2> DEFINE pool == account[m].prizePool + amount
  <2>1. account[m] \in MatchAccount /\ pool \in Nat
    BY <1>1, <1>2 DEF MatchAccount
  <2> HIDE DEF pool
  <2>2. [account[m] EXCEPT !.prizePool = pool] \in MatchAccount
    BY <2>1 DEF MatchAccount
  <2> QED  BY <2>2 DEF pool
<1>4. account' \in [Matches -> MatchAccount]
  BY <1>2, <1>3 DEF FundBounty
<1>5. \A n \in Matches : /\ account'[n].terms = account[n].terms
                         /\ account'[n].status = account[n].status
                         /\ account'[n].betPool = account[n].betPool
  BY <1>2 DEF FundBounty, MatchAccount
<1>6. refundable' \in [Matches \X Accounts -> Nat]
  BY <1>1 DEF FundBounty, TypeInv, TypeOK
<1>7. balance' \in [TokenIds -> Nat]
  BY <1>1, BalanceGrows DEF FundBounty, TypeInv, TypeOK
<1>8. TypeOK'
  BY <1>4, <1>6, <1>7
     DEF FundBounty, TypeInv, TypeOK, adminVars, betVars, tokenVars
<1>9. \A n \in Matches, x \in Seats :
          outcomePool'[<<n, x>>] - outcomePool[<<n, x>>] <=
              account'[n].betPool - account[n].betPool
  BY <1>2, <1>5 DEF FundBounty, betVars, TypeInv, TypeOK, MatchAccount
<1> QED  BY <1>5, <1>8, <1>9, TypeStep

LEMMA TypeBet ==
    ASSUME TypeInv, NEW m \in Matches, NEW s \in Seats, NEW p \in Accounts,
           NEW amount \in Amounts, PlaceBet(m, s, p, amount)
    PROVE  TypeInv'
<1>1. account[m].terms.token \in TokenIds /\ amount \in Nat
  BY ChoiceAssumption DEF PlaceBet, Funding, TypeInv, TermsOK, Terms
<1>2. account \in [Matches -> MatchAccount]
  BY DEF TypeInv, TypeOK
<1>3. [account[m] EXCEPT !.betPool = @ + amount] \in MatchAccount
  <2> DEFINE pool == account[m].betPool + amount
  <2>1. account[m] \in MatchAccount /\ pool \in Nat
    BY <1>1, <1>2 DEF MatchAccount
  <2> HIDE DEF pool
  <2>2. [account[m] EXCEPT !.betPool = pool] \in MatchAccount
    BY <2>1 DEF MatchAccount
  <2> QED  BY <2>2 DEF pool
<1>4. account' \in [Matches -> MatchAccount]
  BY <1>2, <1>3 DEF PlaceBet
<1>5. \A n \in Matches :
          /\ account'[n].terms = account[n].terms
          /\ account'[n].status = account[n].status
          /\ account'[n].betPool = account[n].betPool + When(n = m, amount)
  BY <1>1, <1>2 DEF PlaceBet, MatchAccount, When
<1>6. bets' \in [Matches \X Seats \X Accounts -> Nat]
  BY <1>1 DEF PlaceBet, TypeInv, TypeOK
<1>7. /\ totalBets' \in [Matches \X Accounts -> Nat]
      /\ outcomePool' \in [Matches \X Seats -> Nat]
  BY <1>1 DEF PlaceBet, TypeInv, TypeOK
<1>8. balance' \in [TokenIds -> Nat]
  BY <1>1, BalanceGrows DEF PlaceBet, TypeInv, TypeOK
<1>9. TypeOK'
  BY <1>4, <1>6, <1>7, <1>8
     DEF PlaceBet, TypeInv, TypeOK, adminVars, seatVars, tokenVars
<1>10. \A n \in Matches, x \in Seats :
          outcomePool'[<<n, x>>] - outcomePool[<<n, x>>] <=
              account'[n].betPool - account[n].betPool
  <2>1. /\ outcomePool \in [Matches \X Seats -> Nat]
        /\ outcomePool' = [outcomePool EXCEPT ![<<m, s>>] = @ + amount]
    BY DEF PlaceBet, TypeInv, TypeOK
  <2>2. \A n \in Matches : account[n].betPool \in Nat
    BY <1>2 DEF MatchAccount
  <2> QED  BY <1>1, <1>5, <2>1, <2>2 DEF When
<1> QED  BY <1>5, <1>9, <1>10, TypeStep

LEMMA TypeController ==
    ASSUME TypeInv, NEW m \in Matches, NEW s \in Seats, NEW key \in Keys,
           SetController(m, s, key)
    PROVE  TypeInv'
<1>1. key \in Accounts
  BY OfficerAssumption
<1>2. controller' \in [Matches \X Seats -> Accounts \cup {NoOne}]
  <2>1. controller \in [Matches \X Seats -> Accounts \cup {NoOne}]
    BY DEF TypeInv, TypeOK
  <2> QED  BY <1>1, <2>1 DEF SetController
<1>3. TypeOK'
  BY <1>2 DEF SetController, TypeInv, TypeOK, adminVars, betVars, tokenVars
<1> QED  BY <1>3, TypeFrame DEF SetController, betVars

\* lock and voidMatch.
LEMMA TypeStatus ==
    ASSUME TypeInv, NEW m \in Matches,
           Lock(m) \/ \E caller \in Accounts : VoidMatch(m, caller)
    PROVE  TypeInv'
<1>1. account \in [Matches -> MatchAccount]
  BY DEF TypeInv, TypeOK
<1>2. PICK new \in Status : account' = [account EXCEPT ![m].status = new]
  BY DEF Lock, VoidMatch, Status
<1>3. [account[m] EXCEPT !.status = new] \in MatchAccount
  BY <1>1 DEF MatchAccount
<1>4. account' \in [Matches -> MatchAccount]
  BY <1>1, <1>2, <1>3
<1>5. \A n \in Matches : /\ account'[n].terms = account[n].terms
                         /\ account'[n].betPool = account[n].betPool
                         /\ account[n].status = "Absent" =>
                                account'[n].status = "Absent"
  BY <1>1 DEF Lock, VoidMatch, MatchAccount
<1>6. UNCHANGED <<adminVars, now, seatVars, betVars, claimable, tokenVars, balance>>
  BY DEF Lock, VoidMatch
<1>7. TypeOK'
  BY <1>4, <1>6 DEF TypeInv, TypeOK, adminVars, seatVars, betVars, tokenVars
<1>8. \A n \in Matches, x \in Seats :
          outcomePool'[<<n, x>>] - outcomePool[<<n, x>>] <=
              account'[n].betPool - account[n].betPool
  BY <1>1, <1>5, <1>6 DEF betVars, TypeInv, TypeOK, MatchAccount
<1> QED  BY <1>5, <1>7, <1>8, TypeStep

(***************************************************************************)
(* What settle computes: every fee is a part of what it is taken from.     *)
(***************************************************************************)
LEMMA SettleAmounts ==
    ASSUME TypeInv, NEW m \in Matches, NEW w \in Seats,
           account[m].status = "Locked"
    PROVE  /\ PrizeFee(m) \in Nat /\ PrizeFee(m) <= account[m].prizePool
           /\ BetFee(m, w) \in Nat
           /\ BetFee(m, w) + outcomePool[<<m, w>>] <= account[m].betPool
           /\ CreatorFee(m, w) \in Nat
           /\ CreatorFee(m, w) <= PrizeFee(m) + BetFee(m, w)
           /\ account[m].terms.creator = NoOne => CreatorFee(m, w) = 0
           /\ Royalties(m, w) \in [Accounts -> Nat]
<1> DEFINE t == account[m].terms
<1>1. /\ t \in Terms /\ t.feeBps <= 1000 /\ t.creatorShareBps <= 9000
      /\ t.creator = NoOne => t.creatorShareBps = 0
      /\ Total(t.royalties) <= 10000
  BY DEF TypeInv, TermsOK
<1>2. /\ t.feeBps \in Nat /\ t.feeBps <= 10000
      /\ t.creatorShareBps \in Nat /\ t.creatorShareBps <= 10000
  BY <1>1 DEF Terms
<1>3. \A a \in Accounts : t.royalties[a] \in Nat /\ t.royalties[a] <= 10000
  <2>1. t.royalties \in [Accounts -> Nat]
    BY <1>1 DEF Terms
  <2> QED  BY <1>1, <2>1, TotalBounds, FiniteAssumption
<1>4. /\ account[m].prizePool \in Nat /\ account[m].betPool \in Nat
      /\ outcomePool[<<m, w>>] \in Nat
      /\ outcomePool[<<m, w>>] <= account[m].betPool
  BY DEF TypeInv, TypeOK, MatchAccount, PoolOK
<1> HIDE DEF t
<1>5. PrizeFee(m) \in Nat /\ PrizeFee(m) <= account[m].prizePool
  BY <1>2, <1>4, FeeBounds DEF PrizeFee, t
<1>6. /\ BetFee(m, w) \in Nat
      /\ BetFee(m, w) + outcomePool[<<m, w>>] <= account[m].betPool
  <2>1. account[m].betPool - outcomePool[<<m, w>>] \in Nat
    BY <1>4
  <2>2. /\ FeeOn(account[m].betPool - outcomePool[<<m, w>>], t.feeBps) \in Nat
        /\ FeeOn(account[m].betPool - outcomePool[<<m, w>>], t.feeBps) <=
               account[m].betPool - outcomePool[<<m, w>>]
    BY <1>2, <2>1, FeeBounds
  <2> QED  BY <1>4, <2>2 DEF BetFee, t
<1>7. PrizeFee(m) + BetFee(m, w) \in Nat
  BY <1>5, <1>6
<1>8. CreatorFee(m, w) \in Nat /\ CreatorFee(m, w) <= PrizeFee(m) + BetFee(m, w)
  BY <1>2, <1>7, FeeBounds DEF CreatorFee, t
<1>9. t.creator = NoOne => CreatorFee(m, w) = 0
  <2>1. \A x \in Nat : (x * 0) \div 10000 = 0
    OBVIOUS
  <2> QED  BY <1>1, <1>7, <2>1 DEF CreatorFee, FeeOn, t
<1>10. Royalties(m, w) \in [Accounts -> Nat]
  BY <1>3, <1>8, FeeBounds DEF Royalties, t
<1> QED  BY <1>5, <1>6, <1>8, <1>9, <1>10 DEF t

LEMMA CreditType ==
    ASSUME TypeInv, NEW m \in Matches, NEW w \in Seats, NEW a \in Accounts,
           account[m].status = "Locked",
           Total(Royalties(m, w)) <= CreatorFee(m, w)
    PROVE  Credit(m, w, a) \in Nat
<1>1. /\ PrizeFee(m) \in Nat /\ PrizeFee(m) <= account[m].prizePool
      /\ BetFee(m, w) \in Nat
      /\ CreatorFee(m, w) \in Nat
      /\ CreatorFee(m, w) <= PrizeFee(m) + BetFee(m, w)
      /\ Royalties(m, w) \in [Accounts -> Nat]
  BY SettleAmounts
<1>2. Total(Royalties(m, w)) \in Nat
  BY <1>1, TotalBounds, FiniteAssumption
<1>3. Royalties(m, w)[a] \in Nat
  BY <1>1
<1>4. account[m].prizePool \in Nat
  BY DEF TypeInv, TypeOK, MatchAccount
<1> QED  BY <1>1, <1>2, <1>3, <1>4 DEF Credit, When

LEMMA TypeSettle ==
    ASSUME TypeInv, NEW m \in Matches, NEW w \in Seats, NEW hash \in Hashes,
           Settle(m, w, hash)
    PROVE  TypeInv'
<1>1. account \in [Matches -> MatchAccount]
  BY DEF TypeInv, TypeOK
<1>2. outcomePool[<<m, w>>] \in Nat /\ account[m].betPool - BetFee(m, w) \in Nat
  <2>1. account[m].status = "Locked"
    BY DEF Settle
  <2>2. account[m].betPool \in Nat /\ outcomePool[<<m, w>>] \in Nat
    BY DEF TypeInv, TypeOK, MatchAccount
  <2>3. BetFee(m, w) \in Nat /\ BetFee(m, w) + outcomePool[<<m, w>>] <= account[m].betPool
    BY <2>1, SettleAmounts
  <2> QED  BY <2>2, <2>3
<1>3. [account[m] EXCEPT !.status = "Settled", !.winner = w, !.resultHash = hash,
                         !.remainingBetShares = outcomePool[<<m, w>>],
                         !.remainingBetPayout = account[m].betPool - BetFee(m, w)]
          \in MatchAccount
  BY <1>1, <1>2 DEF MatchAccount, Status
<1>4. account' \in [Matches -> MatchAccount]
  BY <1>1, <1>3 DEF Settle
<1>5. \A n \in Matches : /\ account'[n].terms = account[n].terms
                         /\ account'[n].betPool = account[n].betPool
                         /\ account[n].status = "Absent" =>
                                account'[n].status = "Absent"
  BY <1>1 DEF Settle, MatchAccount
<1>6. claimable' \in [TokenIds \X Accounts -> Nat]
  <2>1. \A a \in Accounts : Credit(m, w, a) \in Nat
    BY CreditType DEF Settle
  <2>2. claimable \in [TokenIds \X Accounts -> Nat]
    BY DEF TypeInv, TypeOK
  <2>3. \A x \in TokenIds \X Accounts :
            claimable[x] \in Nat /\ claimable[x] + Credit(m, w, x[2]) \in Nat
    BY <2>1, <2>2
  <2> QED  BY <2>3 DEF Settle
<1>7. UNCHANGED <<adminVars, now, seatVars, betVars, tokenVars, balance>>
  BY DEF Settle
<1>8. TypeOK'
  BY <1>4, <1>6, <1>7 DEF TypeInv, TypeOK, adminVars, seatVars, betVars, tokenVars
<1>9. \A n \in Matches, x \in Seats :
          outcomePool'[<<n, x>>] - outcomePool[<<n, x>>] <=
              account'[n].betPool - account[n].betPool
  BY <1>1, <1>5, <1>7 DEF betVars, TypeInv, TypeOK, MatchAccount
<1> QED  BY <1>5, <1>8, <1>9, TypeStep

(***************************************************************************)
(* Claims.                                                                 *)
(***************************************************************************)
LEMMA PayType ==
    ASSUME TypeOK, NEW t, NEW amount, t \in TokenIds, amount \in Nat,
           Pay(t, amount)
    PROVE  balance' \in [TokenIds -> Nat]
<1>1. balance \in [TokenIds -> Nat]
  BY DEF TypeOK
<1>2. balance[t] \in Nat /\ amount <= balance[t]
  BY <1>1 DEF Pay
<1> QED  BY <1>1, <1>2 DEF Pay

LEMMA TypeRefund ==
    ASSUME TypeInv, NEW m \in Matches, NEW a \in Accounts, ClaimRefund(m, a)
    PROVE  TypeInv'
<1>1. account[m].terms.token \in TokenIds /\ refundable[<<m, a>>] \in Nat
  BY DEF ClaimRefund, TypeInv, TypeOK, TermsOK, Terms
<1>2. balance' \in [TokenIds -> Nat]
  BY <1>1, PayType DEF ClaimRefund, TypeInv
<1>3. refundable' \in [Matches \X Accounts -> Nat]
  BY DEF ClaimRefund, TypeInv, TypeOK
<1>4. TypeOK'
  BY <1>2, <1>3 DEF ClaimRefund, TypeInv, TypeOK, adminVars, betVars, tokenVars
<1> QED  BY <1>4, TypeFrame DEF ClaimRefund, betVars

\* The decrements of a payout stay natural.
LEMMA PayoutAccount ==
    ASSUME account \in [Matches -> MatchAccount], NEW m \in Matches,
           NEW shares, NEW amount, shares \in Nat, amount \in Nat,
           shares <= account[m].remainingBetShares,
           amount <= account[m].remainingBetPayout
    PROVE  [account[m] EXCEPT !.remainingBetShares = @ - shares,
                              !.remainingBetPayout = @ - amount] \in MatchAccount
<1> DEFINE s == account[m].remainingBetShares - shares
           p == account[m].remainingBetPayout - amount
<1>1. account[m] \in MatchAccount /\ s \in Nat /\ p \in Nat
  BY DEF MatchAccount
<1> HIDE DEF s, p
<1>2. [account[m] EXCEPT !.remainingBetShares = s, !.remainingBetPayout = p]
          \in MatchAccount
  BY <1>1 DEF MatchAccount
<1> QED  BY <1>2 DEF s, p

\* x * y / d, rounded down, of natural numbers.
LEMMA QuotientNat ==
    ASSUME NEW x, NEW y, NEW d, x \in Nat, y \in Nat, d \in Nat, d # 0
    PROVE  (x * y) \div d \in Nat
<1> DEFINE z == x * y
<1>1. z \in Nat
  OBVIOUS
<1> HIDE DEF z
<1>2. z \div d \in Nat
  BY <1>1
<1> QED  BY <1>2 DEF z

LEMMA BetShareType ==
    ASSUME TypeInv, NEW m \in Matches, NEW shares, shares \in Nat,
           account[m].status = "Settled", account[m].winner \in Seats,
           ~Refunded(m)
    PROVE  BetShare(m, shares) \in Nat
<1> DEFINE pool == outcomePool[<<m, account[m].winner>>]
           fee == FeeOn(account[m].betPool - pool, account[m].terms.feeBps)
<1>1. /\ pool \in Nat /\ pool # 0 /\ pool <= account[m].betPool
      /\ account[m].betPool \in Nat /\ account[m].remainingBetPayout \in Nat
  BY DEF TypeInv, TypeOK, PoolOK, MatchAccount, Refunded
<1>2. account[m].terms.feeBps \in Nat /\ account[m].terms.feeBps <= 10000
  BY DEF TypeInv, TermsOK, Terms
<1>3. account[m].betPool - pool \in Nat
  BY <1>1
<1> HIDE DEF pool
<1>4. fee \in Nat /\ fee <= account[m].betPool - pool
  BY <1>2, <1>3, FeeBounds
<1> HIDE DEF fee
<1>5. account[m].betPool - fee \in Nat
  BY <1>1, <1>4
<1>6. (shares * (account[m].betPool - fee)) \div pool \in Nat
  BY <1>1, <1>5, QuotientNat
<1> QED  BY <1>1, <1>6 DEF BetShare, fee, pool

\* A settled match has a winner: with it, what a claim pays is an amount.
WinnerOK ==
    \A m \in Matches : account[m].status = "Settled" => account[m].winner \in Seats

LEMMA TypeClaimBet ==
    ASSUME TypeInv, WinnerOK, NEW m \in Matches, NEW a \in Accounts, ClaimBet(m, a)
    PROVE  TypeInv'
<1>1. /\ account \in [Matches -> MatchAccount]
      /\ account[m].terms.token \in TokenIds
  BY DEF ClaimBet, ClaimBetRefund, ClaimBetPayout, Refunded, TypeInv, TypeOK,
         TermsOK, Terms
<1>2. /\ account' \in [Matches -> MatchAccount]
      /\ balance' \in [TokenIds -> Nat]
      /\ \A n \in Matches : /\ account'[n].terms = account[n].terms
                            /\ account'[n].status = account[n].status
                            /\ account'[n].betPool = account[n].betPool
  <2>1. CASE ClaimBetRefund(m, a)
    <3>1. totalBets[<<m, a>>] \in Nat
      BY DEF TypeInv, TypeOK
    <3> QED  BY <1>1, <2>1, <3>1, PayType DEF ClaimBetRefund, TypeInv
  <2>2. CASE ClaimBetPayout(m, a)
    <3> DEFINE shares == bets[<<m, account[m].winner, a>>]
               amount == BetShare(m, shares)
    <3>1. /\ account[m].status = "Settled" /\ ~Refunded(m)
          /\ account[m].winner \in Seats
      BY <2>2 DEF ClaimBetPayout, WinnerOK
    <3>2. shares \in Nat
      BY <3>1 DEF TypeInv, TypeOK
    <3> HIDE DEF shares
    <3>3. amount \in Nat
      BY <3>1, <3>2, BetShareType
    <3> HIDE DEF amount
    <3>4. /\ shares <= account[m].remainingBetShares
          /\ amount <= account[m].remainingBetPayout
          /\ Pay(account[m].terms.token, amount)
          /\ account' = [account EXCEPT
                           ![m] = [account[m] EXCEPT
                                     !.remainingBetShares = @ - shares,
                                     !.remainingBetPayout = @ - amount]]
      BY <1>1, <2>2 DEF ClaimBetPayout, shares, amount, MatchAccount
    <3>5. account' \in [Matches -> MatchAccount]
      BY <1>1, <3>2, <3>3, <3>4, PayoutAccount
    <3>6. balance' \in [TokenIds -> Nat]
      BY <1>1, <3>3, <3>4, PayType DEF TypeInv
    <3> QED  BY <1>1, <3>4, <3>5, <3>6 DEF MatchAccount
  <2> QED  BY <2>1, <2>2 DEF ClaimBet
<1>3. betClaimed' \subseteq Matches \X Accounts
  BY DEF ClaimBet, TypeInv, TypeOK
<1>4. TypeOK'
  BY <1>2, <1>3 DEF ClaimBet, TypeInv, TypeOK, adminVars, seatVars, tokenVars
<1>5. \A n \in Matches, x \in Seats :
          outcomePool'[<<n, x>>] - outcomePool[<<n, x>>] <=
              account'[n].betPool - account[n].betPool
  BY <1>1, <1>2 DEF ClaimBet, TypeInv, TypeOK, MatchAccount
<1> QED  BY <1>2, <1>4, <1>5, TypeStep

LEMMA TypeWithdraw ==
    ASSUME TypeInv, NEW t \in TokenIds, NEW a \in Accounts, Withdraw(t, a)
    PROVE  TypeInv'
<1>1. claimable[<<t, a>>] \in Nat
  BY DEF TypeInv, TypeOK
<1>2. balance' \in [TokenIds -> Nat]
  BY <1>1, PayType DEF Withdraw, TypeInv
<1>3. claimable' \in [TokenIds \X Accounts -> Nat]
  BY DEF Withdraw, TypeInv, TypeOK
<1>4. TypeOK'
  BY <1>2, <1>3
     DEF Withdraw, TypeInv, TypeOK, adminVars, seatVars, betVars, tokenVars
<1> QED  BY <1>4, TypeFrame DEF Withdraw, betVars

LEMMA TypeToken ==
    ASSUME TypeInv, Token PROVE TypeInv'
<1>1. PICK auth \in Authorizations :
          \/ CancelAuthorization(auth)
          \/ \E amount \in Amounts : DirectTransfer(auth, amount)
  BY DEF Token
<1>2. auth[1] \in TokenIds
  BY DEF Authorizations
<1>3. used' \subseteq Authorizations
  BY <1>1 DEF CancelAuthorization, DirectTransfer, TypeInv, TypeOK
<1>4. balance' \in [TokenIds -> Nat] /\ arrived' \in [Authorizations -> Nat]
  <2>1. balance \in [TokenIds -> Nat] /\ arrived \in [Authorizations -> Nat]
    BY DEF TypeInv, TypeOK
  <2>2. CASE CancelAuthorization(auth)
    BY <2>1, <2>2 DEF CancelAuthorization
  <2>3. ASSUME NEW amount \in Amounts, DirectTransfer(auth, amount)
        PROVE  balance' \in [TokenIds -> Nat] /\ arrived' \in [Authorizations -> Nat]
    <3>1. amount \in Nat
      BY ChoiceAssumption
    <3> QED  BY <1>2, <2>1, <2>3, <3>1, BalanceGrows DEF DirectTransfer
  <2> QED  BY <1>1, <2>2, <2>3
<1>5. UNCHANGED <<adminVars, now, account, seatVars, betVars, claimable, credited>>
  BY <1>1 DEF CancelAuthorization, DirectTransfer
<1>6. TypeOK'
  BY <1>3, <1>4, <1>5 DEF TypeInv, TypeOK, adminVars, seatVars, betVars
<1> QED  BY <1>5, <1>6, TypeFrame DEF betVars

LEMMA TypeTick ==
    ASSUME TypeInv, Tick PROVE TypeInv'
<1>1. TypeOK'
  BY DEF Tick, TypeInv, TypeOK, adminVars, seatVars, betVars, tokenVars
<1> QED  BY <1>1, TypeFrame DEF Tick, betVars

(***************************************************************************)
(* Every step that changes a match is a call on that match.                *)
(***************************************************************************)
LEMMA TypeNext ==
    ASSUME TypeInv, WinnerOK, [Next]_vars PROVE TypeInv'
<1>1. ASSUME NEW m \in Matches, Deposit(m) PROVE TypeInv'
  <2>1. ASSUME NEW s \in Seats, NEW p \in Accounts, NEW key \in Keys \cup {p},
               \/ Stake(m, s, p, key)
               \/ ClaimSeatFor(m, s, p, key)
               \/ \E nonce \in Nonces :
                     \/ StakeWithAuthorization(m, s, p, key, nonce)
                     \/ RecoverAuthorizedStake(m, s, p, key, nonce)
        PROVE  TypeInv'
    <3>1. key \in Accounts
      BY OfficerAssumption
    <3> QED  BY <2>1, <3>1, TypeEntry
  <2> QED  BY <1>1, <2>1, TypeBounty, TypeBet DEF Deposit
<1>2. ASSUME NEW m \in Matches, Decide(m) PROVE TypeInv'
  BY <1>2, TypeCreate, TypeController, TypeStatus, TypeSettle DEF Decide
<1>3. ASSUME NEW m \in Matches, NEW a \in Accounts, Claim(m, a) PROVE TypeInv'
  BY <1>3, TypeRefund, TypeClaimBet DEF Claim
<1>4. CASE UNCHANGED vars
  <2>1. TypeOK'
    BY <1>4 DEF vars, TypeInv, TypeOK, adminVars, seatVars, betVars, tokenVars
  <2> QED  BY <1>4, <2>1, TypeFrame DEF vars, betVars
<1> QED
  BY <1>1, <1>2, <1>3, <1>4, TypeGovernance, TypeWithdraw, TypeToken, TypeTick
  DEF Next

(***************************************************************************)
(* The life of a match: absent, funding, locked, then settled or voided.   *)
(***************************************************************************)
LEMMA MatchSteps ==
    ASSUME TypeInv, [Next]_vars, NEW n \in Matches
    PROVE  \/ /\ account'[n].status = account[n].status
              /\ account'[n].winner = account[n].winner
              /\ account'[n].resultHash = account[n].resultHash
           \/ /\ account[n].status \in {"Absent", "Funding", "Locked"}
              /\ account'[n].status \in {"Funding", "Locked", "Voided"}
           \/ /\ account[n].status = "Locked"
              /\ account'[n].status = "Settled" /\ account'[n].winner \in Seats
<1>1. account \in [Matches -> MatchAccount]
  BY DEF TypeInv, TypeOK
<1> DEFINE Same == /\ account'[n].status = account[n].status
                   /\ account'[n].winner = account[n].winner
                   /\ account'[n].resultHash = account[n].resultHash
           Moved == /\ account[n].status \in {"Absent", "Funding", "Locked"}
                    /\ account'[n].status \in {"Funding", "Locked", "Voided"}
           Won == /\ account[n].status = "Locked"
                  /\ account'[n].status = "Settled" /\ account'[n].winner \in Seats
<1>2. ASSUME NEW m \in Matches, Deposit(m) PROVE Same
  <2>1. \A s \in Seats, p \in Accounts : \A key \in Keys \cup {p} :
            Seat(m, s, p, key) => Same
    BY <1>1 DEF Seat, MatchAccount
  <2>2. \A p \in Accounts, x \in Amounts : FundBounty(m, p, x) => Same
    BY <1>1 DEF FundBounty, MatchAccount
  <2>3. \A s \in Seats, p \in Accounts, x \in Amounts : PlaceBet(m, s, p, x) => Same
    BY <1>1 DEF PlaceBet, MatchAccount
  <2> HIDE DEF Same
  <2> QED  BY <1>2, <2>1, <2>2, <2>3, ZenonT(40)
           DEF Deposit, Stake, ClaimSeatFor, StakeWithAuthorization,
               RecoverAuthorizedStake
<1>3. ASSUME NEW m \in Matches, Decide(m) PROVE Same \/ Moved \/ Won
  <2>1. ASSUME NEW t \in TermsChoices, CreateMatch(m, t) PROVE Same \/ Moved
    BY <1>1, <2>1 DEF CreateMatch, MatchAccount
  <2>2. ASSUME NEW s \in Seats, NEW key \in Keys, SetController(m, s, key) PROVE Same
    BY <2>2 DEF SetController
  <2>3. CASE Lock(m)
    BY <1>1, <2>3 DEF Lock, MatchAccount
  <2>4. ASSUME NEW w \in Seats, NEW hash \in Hashes, Settle(m, w, hash)
        PROVE  Same \/ Won
    BY <1>1, <2>4 DEF Settle, MatchAccount
  <2>5. ASSUME NEW a \in Accounts, VoidMatch(m, a) PROVE Same \/ Moved
    BY <1>1, <2>5 DEF VoidMatch, MatchAccount
  <2> QED  BY <1>3, <2>1, <2>2, <2>3, <2>4, <2>5 DEF Decide
<1>4. ASSUME NEW m \in Matches, NEW a \in Accounts, Claim(m, a) PROVE Same
  BY <1>1, <1>4 DEF Claim, ClaimRefund, ClaimBet, ClaimBetRefund, ClaimBetPayout,
                    MatchAccount
<1>5. ASSUME UNCHANGED account PROVE Same
  BY <1>5
<1> HIDE DEF Same, Moved, Won
<1>6. Governance \/ Token \/ Tick \/ UNCHANGED vars => Same
  BY <1>5 DEF Governance, SetToken, SetResolver, SetPaused, AcceptOwnership, notAdmin,
              Token, CancelAuthorization, DirectTransfer, Tick, vars
<1>7. \A t \in TokenIds, a \in Accounts : Withdraw(t, a) => Same
  BY <1>5 DEF Withdraw
<1>8. Same \/ Moved \/ Won
  BY <1>2, <1>3, <1>4, <1>6, <1>7 DEF Next
<1> QED  BY <1>8 DEF Same, Moved, Won

LEMMA WinnerNext ==
    ASSUME TypeInv, WinnerOK, [Next]_vars PROVE WinnerOK'
BY MatchSteps DEF WinnerOK

LEMMA Typed == Spec => [](TypeInv /\ WinnerOK)
<1>1. Init => TypeInv /\ WinnerOK
  <2>1. Init => WinnerOK
    BY DEF Init, WinnerOK, NoMatch
  <2> QED  BY <2>1, TypeInit
<1>2. TypeInv /\ WinnerOK /\ [Next]_vars => (TypeInv /\ WinnerOK)'
  BY TypeNext, WinnerNext
<1> QED  BY <1>1, <1>2, PTL DEF Spec

(***************************************************************************)
(* In every reachable state the variables have their types: no balance,    *)
(* share or credit the contract computes is ever negative, whatever the    *)
(* stakes, fees, royalties and bets.                                       *)
(***************************************************************************)
THEOREM TypeCorrect == Spec => []TypeOK
<1>1. TypeInv => TypeOK
  BY DEF TypeInv
<1> QED  BY <1>1, Typed, PTL

(***************************************************************************)
(* Who owns a seat changes only while deposits are open or at creation.    *)
(***************************************************************************)
LEMMA OwnersKept ==
    ASSUME TypeInv, [Next]_vars, NEW n \in Matches, NEW x \in Seats,
           account[n].status \in {"Settled", "Voided"}
    PROVE  recipient'[<<n, x>>] = recipient[<<n, x>>]
<1>1. recipient \in [Matches \X Seats -> Accounts \cup {NoOne}]
  BY DEF TypeInv, TypeOK
<1>2. CASE UNCHANGED recipient
  BY <1>2
<1>3. ASSUME NEW m \in Matches, NEW s \in Seats, NEW p \in Accounts, NEW key,
             Funding(m), Seat(m, s, p, key)
      PROVE  recipient'[<<n, x>>] = recipient[<<n, x>>]
  BY <1>1, <1>3 DEF Seat, Funding
<1>4. ASSUME NEW m \in Matches, NEW t \in TermsChoices, CreateMatch(m, t)
      PROVE  recipient'[<<n, x>>] = recipient[<<n, x>>]
  BY <1>1, <1>4 DEF CreateMatch
<1>5. ASSUME NEW m \in Matches, Deposit(m)
      PROVE  recipient'[<<n, x>>] = recipient[<<n, x>>]
  <2>1. ASSUME NEW s \in Seats, NEW p \in Accounts, NEW key,
               \/ Stake(m, s, p, key)
               \/ ClaimSeatFor(m, s, p, key)
               \/ \E nonce \in Nonces :
                     \/ StakeWithAuthorization(m, s, p, key, nonce)
                     \/ RecoverAuthorizedStake(m, s, p, key, nonce)
        PROVE  recipient'[<<n, x>>] = recipient[<<n, x>>]
    <3>1. Funding(m) /\ Seat(m, s, p, key)
      BY <2>1 DEF Stake, ClaimSeatFor, StakeWithAuthorization,
                  RecoverAuthorizedStake, AuthorizedEntry
    <3> QED  BY <1>3, <3>1
  <2>2. ASSUME NEW p \in Accounts, NEW amount \in Amounts, FundBounty(m, p, amount)
        PROVE  recipient'[<<n, x>>] = recipient[<<n, x>>]
    BY <2>2 DEF FundBounty
  <2>3. ASSUME NEW s \in Seats, NEW p \in Accounts, NEW amount \in Amounts,
               PlaceBet(m, s, p, amount)
        PROVE  recipient'[<<n, x>>] = recipient[<<n, x>>]
    BY <2>3 DEF PlaceBet, seatVars
  <2> QED  BY <1>5, <2>1, <2>2, <2>3 DEF Deposit
<1>6. ASSUME NEW m \in Matches, Decide(m) \/ \E a \in Accounts : Claim(m, a)
      PROVE  recipient'[<<n, x>>] = recipient[<<n, x>>]
  BY <1>2, <1>4, <1>6
     DEF Decide, SetController, Lock, Settle, VoidMatch, Claim, ClaimRefund, ClaimBet,
         seatVars
<1>7. Governance \/ Token \/ Tick \/ UNCHANGED vars => UNCHANGED recipient
  BY DEF Governance, SetToken, SetResolver, SetPaused, AcceptOwnership, notAdmin,
         Token, CancelAuthorization, DirectTransfer, Tick, vars, seatVars
<1>8. \A t \in TokenIds, a \in Accounts : Withdraw(t, a) => UNCHANGED recipient
  BY DEF Withdraw, seatVars
<1> QED  BY <1>2, <1>5, <1>6, <1>7, <1>8 DEF Next

(***************************************************************************)
(* A settled or voided match is final.                                     *)
(***************************************************************************)
THEOREM DecisionsAreFinal == Spec => DecisionIsFinal
<1>1. ASSUME TypeInv, [Next]_vars, NEW m \in Matches PROVE Final(m)
  <2> SUFFICES ASSUME account[m].status \in {"Settled", "Voided"}
               PROVE  /\ account'[m].status = account[m].status
                      /\ account'[m].winner = account[m].winner
                      /\ account'[m].resultHash = account[m].resultHash
                      /\ \A s \in Seats : recipient'[<<m, s>>] = recipient[<<m, s>>]
    BY DEF Final
  <2>1. \A s \in Seats : recipient'[<<m, s>>] = recipient[<<m, s>>]
    BY <1>1, OwnersKept
  <2> QED  BY <1>1, <2>1, MatchSteps
<1>2. TypeInv /\ [Next]_vars => [\A m \in Matches : Final(m)]_vars
  BY <1>1
<1> QED  BY <1>2, Typed, PTL DEF Spec, DecisionIsFinal
-----------------------------------------------------------------------------
(***************************************************************************)
(* Theorems about who sits where in the escrow contract, and what a seat   *)
(* has paid, for any finite sets of matches, seats and accounts and in     *)
(* whatever order the four entry calls arrive.                             *)
(***************************************************************************)

(***************************************************************************)
(* The strengthening.  OneSeatEach is not inductive: the code looks at     *)
(* _seated, not at the owners, so the invariant says that every owner is   *)
(* in it.  LockedIsFullyPaid is not either: lock compares a counter, so    *)
(* the invariant says that the counter counts the paid seats.              *)
(***************************************************************************)
\* Before its creation a match has no seats and no money.
Untouched(m) ==
    /\ account[m].paidSeats = 0 /\ account[m].prizePool = 0
    /\ PaidSeats(m) = {}
    /\ \A s \in Seats : recipient[<<m, s>>] = NoOne

\* Only the match's own seats are owned, and only owned seats are paid.
SeatsOwned(m) ==
    /\ \A s \in Seats : recipient[<<m, s>>] # NoOne => s \in account[m].terms.seats
    /\ \A s \in PaidSeats(m) : recipient[<<m, s>>] # NoOne

\* Every owner of a seat of an open match is remembered, and owns one.
OwnersSeated(m) ==
    account[m].terms.open =>
        /\ \A s \in Seats : recipient[<<m, s>>] # NoOne =>
                                <<m, recipient[<<m, s>>]>> \in seated
        /\ \A s1, s2 \in Seats :
              s1 # s2 /\ recipient[<<m, s1>>] # NoOne
              => recipient[<<m, s1>>] # recipient[<<m, s2>>]

\* The counter counts, and the prize pool holds what was counted.
SeatsCounted(m) ==
    /\ account[m].paidSeats = Cardinality(PaidSeats(m))
    /\ account[m].terms.stake * account[m].paidSeats <= account[m].prizePool

\* lock counted every due seat.
LockedFull(m) ==
    account[m].status \in {"Locked", "Settled"} =>
        Cardinality(DueSeats(m)) <= account[m].paidSeats

SeatsOK(m) ==
    IF account[m].status = "Absent" THEN Untouched(m)
    ELSE SeatsOwned(m) /\ OwnersSeated(m) /\ SeatsCounted(m) /\ LockedFull(m)

SeatsInv == \A m \in Matches : SeatsOK(m)

(***************************************************************************)
(* The seats a match has are finitely many, and so are the paid ones.      *)
(***************************************************************************)
LEMMA PaidFinite ==
    ASSUME NEW m \in Matches
    PROVE  /\ IsFiniteSet(PaidSeats(m)) /\ Cardinality(PaidSeats(m)) \in Nat
<1>1. PaidSeats(m) \in SUBSET Seats
  BY DEF PaidSeats
<1> QED  BY <1>1, FiniteAssumption, FS_Subset, FS_CardinalityType

(***************************************************************************)
(* A step that leaves the seats of n alone, and moves its status only the  *)
(* way the contract does, keeps everything said about them.                *)
(***************************************************************************)
SameSeats(n) ==
    /\ \A s \in Seats : recipient'[<<n, s>>] = recipient[<<n, s>>]
    /\ \A s \in Seats : <<n, s>> \in staked' <=> <<n, s>> \in staked
    /\ \A p \in Accounts : <<n, p>> \in seated => <<n, p>> \in seated'

SameBooks(n) ==
    /\ account'[n].terms = account[n].terms
    /\ account'[n].paidSeats = account[n].paidSeats
    /\ account[n].prizePool <= account'[n].prizePool

Moves(n) ==
    \/ /\ account'[n].status = account[n].status
       /\ account[n].status = "Absent" =>
              account'[n].prizePool = account[n].prizePool
    \/ account[n].status \in {"Funding", "Locked"} /\ account'[n].status = "Voided"
    \/ account[n].status = "Locked" /\ account'[n].status = "Settled"
    \/ /\ account[n].status = "Funding" /\ account'[n].status = "Locked"
       /\ Cardinality(DueSeats(n)) <= account[n].paidSeats

LEMMA SeatsUndisturbed ==
    ASSUME TypeInv, TypeInv', NEW n \in Matches, SeatsOK(n),
           SameSeats(n), SameBooks(n), Moves(n)
    PROVE  SeatsOK(n)'
<1>1. PaidSeats(n)' = PaidSeats(n)
  BY DEF PaidSeats, SameSeats
<1>2. \A s \in Seats : recipient'[<<n, s>>] = recipient[<<n, s>>]
  BY DEF SameSeats
<1>3. CASE account[n].status = "Absent"
  <2>1. account'[n].status = "Absent" /\ account'[n].prizePool = account[n].prizePool
    BY <1>3 DEF Moves
  <2> QED  BY <1>1, <1>2, <1>3, <2>1 DEF SeatsOK, Untouched, SameBooks
<1>4. CASE account[n].status # "Absent"
  <2>1. account'[n].status # "Absent"
    BY <1>4 DEF Moves
  <2>2. SeatsOwned(n) /\ OwnersSeated(n) /\ SeatsCounted(n) /\ LockedFull(n)
    BY <1>4 DEF SeatsOK
  <2>3. account'[n].terms = account[n].terms
    BY DEF SameBooks
  <2>4. SeatsOwned(n)'
    BY <1>1, <1>2, <2>2, <2>3 DEF SeatsOwned, PaidSeats
  <2>5. OwnersSeated(n)'
    <3>1. \A s \in Seats : recipient[<<n, s>>] \in Accounts \cup {NoOne}
      BY DEF TypeInv, TypeOK
    <3>2. \A p \in Accounts : <<n, p>> \in seated => <<n, p>> \in seated'
      BY DEF SameSeats
    <3> QED  BY <1>2, <2>2, <2>3, <3>1, <3>2 DEF OwnersSeated
  <2>6. SeatsCounted(n)'
    <3>1. account[n].terms \in Terms
      BY <1>4 DEF TypeInv, TermsOK
    <3>2. /\ account[n].terms.stake \in Nat /\ account[n].paidSeats \in Nat
          /\ account[n].prizePool \in Nat /\ account'[n].prizePool \in Nat
      BY <3>1 DEF TypeInv, TypeOK, MatchAccount, Terms
    <3> DEFINE paid == account[n].terms.stake * account[n].paidSeats
    <3>3. paid \in Nat /\ paid <= account[n].prizePool
      BY <2>2, <3>2 DEF SeatsCounted
    <3>4. account'[n].terms.stake * account'[n].paidSeats = paid
      BY <2>3 DEF SameBooks
    <3> HIDE DEF paid
    <3>5. paid <= account'[n].prizePool
      BY <3>2, <3>3 DEF SameBooks
    <3> QED  BY <1>1, <2>2, <3>4, <3>5 DEF SeatsCounted, SameBooks
  <2>7. LockedFull(n)'
    <3>1. DueSeats(n)' = DueSeats(n)
      BY <1>4, <2>1, <2>3 DEF DueSeats
    <3> QED  BY <2>2, <3>1 DEF LockedFull, SameBooks, Moves
  <2> QED  BY <2>1, <2>4, <2>5, <2>6, <2>7 DEF SeatsOK
<1> QED  BY <1>3, <1>4

(***************************************************************************)
(* The account of m changes only in the fields a call assigns, and those   *)
(* of other matches not at all.                                            *)
(***************************************************************************)
LEMMA SeatsOfOthers ==
    ASSUME NEW n \in Matches, account'[n] = account[n], TypeInv
    PROVE  SameBooks(n) /\ Moves(n)
BY DEF SameBooks, Moves, TypeInv, TypeOK, MatchAccount

LEMMA SeatsCreate ==
    ASSUME TypeInv, TypeInv', SeatsInv, NEW m \in Matches, NEW t \in TermsChoices,
           CreateMatch(m, t), NEW n \in Matches
    PROVE  SeatsOK(n)'
<1>1. /\ account \in [Matches -> MatchAccount]
      /\ recipient \in [Matches \X Seats -> Accounts \cup {NoOne}]
  BY DEF TypeInv, TypeOK
<1>2. CASE n # m
  <2>1. account'[n] = account[n]
    BY <1>1, <1>2 DEF CreateMatch
  <2>2. SameSeats(n)
    BY <1>1, <1>2 DEF CreateMatch, SameSeats
  <2> QED  BY <2>1, <2>2, SeatsOfOthers, SeatsUndisturbed DEF SeatsInv
<1>3. CASE n = m
  <2>1. Untouched(m)
    BY DEF SeatsInv, SeatsOK, CreateMatch
  <2>2. /\ account'[m].status = "Funding" /\ account'[m].terms = t
        /\ account'[m].paidSeats = 0 /\ account'[m].prizePool = 0
    BY <1>1, <2>1 DEF CreateMatch, MatchAccount, Untouched
  <2>3. \A s \in Seats : recipient'[<<m, s>>] =
                             IF s \in t.seats THEN t.recipients[s] ELSE NoOne
    BY <1>1, <2>1 DEF CreateMatch, Untouched
  <2>4. PaidSeats(m)' = {}
    BY <2>1 DEF PaidSeats, CreateMatch, Untouched
  <2>5. SeatsOwned(m)'
    BY <2>2, <2>3, <2>4 DEF SeatsOwned
  <2>6. OwnersSeated(m)'
    <3>1. t.open => \A s \in Seats : recipient'[<<m, s>>] = NoOne
      <4>1. \A s \in t.seats : t.open <=> t.recipients[s] = NoOne
        BY DEF CreateMatch, ValidTerms
      <4> QED  BY <2>3, <4>1
    <3> QED  BY <2>2, <3>1 DEF OwnersSeated
  <2>7. SeatsCounted(m)'
    <3>1. t.stake \in Nat
      BY ChoiceAssumption DEF Terms
    <3> QED  BY <2>2, <2>4, <3>1, FS_EmptySet DEF SeatsCounted
  <2>8. LockedFull(m)'
    BY <2>2 DEF LockedFull
  <2> QED  BY <1>3, <2>2, <2>5, <2>6, <2>7, <2>8 DEF SeatsOK
<1> QED  BY <1>2, <1>3

(***************************************************************************)
(* Taking seat s of m keeps the seats of every match as they must be.      *)
(***************************************************************************)
LEMMA SeatsTaken ==
    ASSUME TypeInv, TypeInv', SeatsInv, NEW m \in Matches, NEW s \in Seats,
           NEW p \in Accounts, NEW key, account[m].status = "Funding",
           Seat(m, s, p, key), NEW n \in Matches
    PROVE  SeatsOK(n)'
<1>1. /\ account \in [Matches -> MatchAccount]
      /\ recipient \in [Matches \X Seats -> Accounts \cup {NoOne}]
  BY DEF TypeInv, TypeOK
<1>2. CASE n # m
  <2>1. account'[n] = account[n]
    BY <1>1, <1>2 DEF Seat
  <2>2. SameSeats(n)
    BY <1>1, <1>2 DEF Seat, SameSeats
  <2> QED  BY <2>1, <2>2, SeatsOfOthers, SeatsUndisturbed DEF SeatsInv
<1>3. CASE n = m
  <2> DEFINE t == account[m].terms
  <2>1. t \in Terms /\ SeatsOwned(m) /\ OwnersSeated(m) /\ SeatsCounted(m)
    BY DEF SeatsInv, SeatsOK, TypeInv, TermsOK
  <2>2. /\ t.stake \in Nat /\ account[m].paidSeats \in Nat
        /\ account[m].prizePool \in Nat
    BY <1>1, <2>1 DEF MatchAccount, Terms
  <2>3. /\ account'[m].status = "Funding" /\ account'[m].terms = t
        /\ account'[m].paidSeats = account[m].paidSeats + 1
        /\ account'[m].prizePool = account[m].prizePool + t.stake
    BY <1>1 DEF Seat, MatchAccount
  <2>4. \/ /\ t.open /\ s \in t.seats /\ recipient[<<m, s>>] = NoOne
           /\ <<m, p>> \notin seated /\ seated' = seated \cup {<<m, p>>}
           /\ recipient' = [recipient EXCEPT ![<<m, s>>] = p]
        \/ ~t.open /\ recipient[<<m, s>>] = p /\ UNCHANGED <<recipient, seated>>
    BY DEF Seat
  <2>5. p # NoOne
    BY NoOneAssumption
  <2>6. PaidSeats(m)' = PaidSeats(m) \cup {s} /\ s \notin PaidSeats(m)
    BY DEF Seat, PaidSeats
  <2>7. SeatsOwned(m)'
    BY <1>1, <2>1, <2>3, <2>4, <2>5, <2>6 DEF SeatsOwned, PaidSeats
  <2>8. OwnersSeated(m)'
    <3> SUFFICES ASSUME t.open PROVE OwnersSeated(m)'
      BY <2>3 DEF OwnersSeated
    <3>1. /\ recipient[<<m, s>>] = NoOne /\ <<m, p>> \notin seated
          /\ seated' = seated \cup {<<m, p>>}
          /\ recipient' = [recipient EXCEPT ![<<m, s>>] = p]
      BY <2>4
    <3>2. \A r \in Seats : recipient'[<<m, r>>] =
                               IF r = s THEN p ELSE recipient[<<m, r>>]
      BY <1>1, <3>1
    <3>3. \A r \in Seats : recipient'[<<m, r>>] # NoOne
                               => <<m, recipient'[<<m, r>>]>> \in seated'
      BY <2>1, <3>1, <3>2 DEF OwnersSeated
    <3>4. \A r \in Seats : recipient[<<m, r>>] # NoOne => recipient[<<m, r>>] # p
      BY <2>1, <3>1 DEF OwnersSeated
    <3>5. \A r1, r2 \in Seats : r1 # r2 /\ recipient'[<<m, r1>>] # NoOne
                                   => recipient'[<<m, r1>>] # recipient'[<<m, r2>>]
      BY <2>1, <2>5, <3>2, <3>4 DEF OwnersSeated
    <3> QED  BY <3>3, <3>5 DEF OwnersSeated
  <2>9. SeatsCounted(m)'
    <3>1. Cardinality(PaidSeats(m)') = account[m].paidSeats + 1
      BY <2>1, <2>6, PaidFinite, FS_AddElement, ZenonT(40) DEF SeatsCounted
    <3>2. t.stake * (account[m].paidSeats + 1) <= account[m].prizePool + t.stake
      BY <2>1, <2>2 DEF SeatsCounted
    <3> QED  BY <2>3, <3>1, <3>2 DEF SeatsCounted
  <2>10. LockedFull(m)'
    BY <2>3 DEF LockedFull
  <2> QED  BY <1>3, <2>3, <2>7, <2>8, <2>9, <2>10 DEF SeatsOK
<1> QED  BY <1>2, <1>3

(***************************************************************************)
(* Every other call leaves the seats alone.                                *)
(***************************************************************************)
LEMMA SeatsMoneyOnly ==
    ASSUME TypeInv, NEW m \in Matches, NEW n \in Matches,
           \/ \E a \in Accounts, x \in Amounts : FundBounty(m, a, x)
           \/ \E s \in Seats, a \in Accounts, x \in Amounts : PlaceBet(m, s, a, x)
           \/ \E a \in Accounts : Claim(m, a)
    PROVE  SameSeats(n) /\ SameBooks(n) /\ Moves(n)
<1>1. account \in [Matches -> MatchAccount]
  BY DEF TypeInv, TypeOK
<1>2. account[n].prizePool \in Nat
  BY <1>1 DEF MatchAccount
<1>3. ASSUME NEW a \in Accounts, NEW x \in Amounts, FundBounty(m, a, x)
      PROVE  SameSeats(n) /\ SameBooks(n) /\ Moves(n)
  <2>1. SameSeats(n)
    BY <1>3 DEF FundBounty, SameSeats
  <2>2. account[m].status = "Funding" /\ x \in Nat
    BY <1>3, ChoiceAssumption DEF FundBounty, Funding
  <2>3. /\ account'[n].terms = account[n].terms
        /\ account'[n].paidSeats = account[n].paidSeats
        /\ account'[n].status = account[n].status
        /\ account'[n].prizePool =
               IF n = m THEN account[n].prizePool + x ELSE account[n].prizePool
    BY <1>1, <1>3 DEF FundBounty, MatchAccount
  <2> QED  BY <1>2, <2>1, <2>2, <2>3 DEF SameBooks, Moves
<1>4. ASSUME \/ \E s \in Seats, a \in Accounts, x \in Amounts : PlaceBet(m, s, a, x)
             \/ \E a \in Accounts : Claim(m, a)
      PROVE  SameSeats(n) /\ SameBooks(n) /\ Moves(n)
  <2>1. SameSeats(n)
    BY <1>4 DEF PlaceBet, Claim, ClaimRefund, ClaimBet, seatVars, SameSeats
  <2>2. /\ account'[n].terms = account[n].terms
        /\ account'[n].paidSeats = account[n].paidSeats
        /\ account'[n].status = account[n].status
        /\ account'[n].prizePool = account[n].prizePool
    <3> DEFINE Kept == /\ account'[n].terms = account[n].terms
                       /\ account'[n].paidSeats = account[n].paidSeats
                       /\ account'[n].status = account[n].status
                       /\ account'[n].prizePool = account[n].prizePool
    <3>1. ASSUME NEW s \in Seats, NEW a \in Accounts, NEW x \in Amounts,
                 PlaceBet(m, s, a, x)
          PROVE  Kept
      BY <1>1, <3>1 DEF PlaceBet, MatchAccount
    <3>2. \A a \in Accounts : ClaimRefund(m, a) \/ ClaimBetRefund(m, a) => Kept
      BY DEF ClaimRefund, ClaimBetRefund
    <3>3. ASSUME NEW a \in Accounts, ClaimBetPayout(m, a) PROVE Kept
      BY <1>1, <3>3 DEF ClaimBetPayout, MatchAccount
    <3> HIDE DEF Kept
    <3>4. Kept
      BY <1>4, <3>1, <3>2, <3>3 DEF Claim, ClaimBet
    <3> QED  BY <3>4 DEF Kept
  <2> QED  BY <1>2, <2>1, <2>2 DEF SameBooks, Moves
<1> QED  BY <1>3, <1>4

LEMMA SeatsStatus ==
    ASSUME TypeInv, NEW m \in Matches, NEW n \in Matches,
           \/ Lock(m)
           \/ \E w \in Seats, hash \in Hashes : Settle(m, w, hash)
           \/ \E caller \in Accounts : VoidMatch(m, caller)
           \/ \E s \in Seats, key \in Keys : SetController(m, s, key)
    PROVE  SameSeats(n) /\ SameBooks(n) /\ Moves(n)
<1>1. account \in [Matches -> MatchAccount]
  BY DEF TypeInv, TypeOK
<1>2. account[n].prizePool \in Nat /\ account[n].paidSeats \in Nat
  BY <1>1 DEF MatchAccount
<1>3. SameSeats(n)
  BY DEF Lock, Settle, VoidMatch, SetController, seatVars, SameSeats
<1> DEFINE Kept == /\ account'[n].terms = account[n].terms
                   /\ account'[n].paidSeats = account[n].paidSeats
                   /\ account'[n].prizePool = account[n].prizePool
<1>4. ASSUME Lock(m) PROVE Kept /\ Moves(n)
  <2>1. Cardinality(DueSeats(m)) <= account[m].paidSeats
    <3>1. account[m].paidSeats \in Nat
      BY <1>1 DEF MatchAccount
    <3> QED  BY <1>4, <3>1, FS_EmptySet DEF Lock, DueSeats
  <2> QED  BY <1>1, <1>4, <2>1 DEF Lock, Moves, MatchAccount
<1>5. ASSUME NEW w \in Seats, NEW hash \in Hashes, Settle(m, w, hash)
      PROVE  Kept /\ Moves(n)
  <2>1. Kept
    BY <1>1, <1>5, ZenonT(40) DEF Settle, MatchAccount
  <2>2. /\ account[m].status = "Locked" /\ account'[m].status = "Settled"
        /\ n # m => account'[n] = account[n]
    BY <1>1, <1>5 DEF Settle, MatchAccount
  <2>3. Moves(n)
    <3>1. CASE n = m
      BY <2>2, <3>1 DEF Moves
    <3>2. CASE n # m
      BY <2>2, <3>2 DEF Moves
    <3> QED  BY <3>1, <3>2
  <2> QED  BY <2>1, <2>3
<1>6. ASSUME NEW a \in Accounts, VoidMatch(m, a) PROVE Kept /\ Moves(n)
  <2>1. Kept
    BY <1>1, <1>6 DEF VoidMatch, MatchAccount
  <2>2. /\ account[m].status \in {"Funding", "Locked"}
        /\ account'[m].status = "Voided"
        /\ n # m => account'[n] = account[n]
    BY <1>1, <1>6 DEF VoidMatch, MatchAccount
  <2>3. Moves(n)
    <3>1. CASE n = m
      BY <2>2, <3>1 DEF Moves
    <3>2. CASE n # m
      BY <2>2, <3>2 DEF Moves
    <3> QED  BY <3>1, <3>2
  <2> QED  BY <2>1, <2>3
<1>7. \A s \in Seats, key \in Keys : SetController(m, s, key) => Kept /\ Moves(n)
  BY DEF SetController, Moves
<1> HIDE DEF Kept
<1>8. Kept /\ Moves(n)
  BY <1>4, <1>5, <1>6, <1>7
<1> QED  BY <1>2, <1>3, <1>8 DEF Kept, SameBooks

LEMMA SeatsQuiet ==
    ASSUME TypeInv, NEW n \in Matches, UNCHANGED <<account, recipient, staked, seated>>
    PROVE  SameSeats(n) /\ SameBooks(n) /\ Moves(n)
BY SeatsOfOthers DEF SameSeats

LEMMA SeatsNext ==
    ASSUME TypeInv, TypeInv', SeatsInv, [Next]_vars PROVE SeatsInv'
<1> SUFFICES ASSUME NEW n \in Matches PROVE SeatsOK(n)'
  BY DEF SeatsInv
<1>1. SeatsOK(n)
  BY DEF SeatsInv
<1>2. ASSUME NEW m \in Matches, NEW s \in Seats, NEW p \in Accounts, NEW key,
             \/ Stake(m, s, p, key)
             \/ ClaimSeatFor(m, s, p, key)
             \/ \E nonce \in Nonces :
                   \/ StakeWithAuthorization(m, s, p, key, nonce)
                   \/ RecoverAuthorizedStake(m, s, p, key, nonce)
      PROVE  SeatsOK(n)'
  <2>1. account[m].status = "Funding" /\ Seat(m, s, p, key)
    BY <1>2 DEF Stake, ClaimSeatFor, StakeWithAuthorization,
                RecoverAuthorizedStake, AuthorizedEntry, Funding
  <2> QED  BY <2>1, SeatsTaken
<1>3. ASSUME NEW m \in Matches, Deposit(m) PROVE SeatsOK(n)'
  BY <1>1, <1>2, <1>3, SeatsMoneyOnly, SeatsUndisturbed DEF Deposit
<1>4. ASSUME NEW m \in Matches, Decide(m) PROVE SeatsOK(n)'
  BY <1>1, <1>4, SeatsCreate, SeatsStatus, SeatsUndisturbed DEF Decide
<1>5. ASSUME NEW m \in Matches, NEW a \in Accounts, Claim(m, a) PROVE SeatsOK(n)'
  BY <1>1, <1>5, SeatsMoneyOnly, SeatsUndisturbed
<1>6. ASSUME \/ Governance
             \/ \E t \in TokenIds, a \in Accounts : Withdraw(t, a)
             \/ Token
             \/ Tick
             \/ UNCHANGED vars
      PROVE  SeatsOK(n)'
  <2>1. UNCHANGED <<account, recipient, staked, seated>>
    BY <1>6 DEF Governance, SetToken, SetResolver, SetPaused, AcceptOwnership,
                notAdmin, Withdraw, Token, CancelAuthorization, DirectTransfer,
                Tick, vars, seatVars
  <2> QED  BY <1>1, <2>1, SeatsQuiet, SeatsUndisturbed
<1> QED  BY <1>3, <1>4, <1>5, <1>6 DEF Next

LEMMA SeatsInit == Init => SeatsInv
BY DEF Init, NoMatch, SeatsInv, SeatsOK, Untouched, PaidSeats

LEMMA Seated == Spec => [](TypeInv /\ SeatsInv)
<1>1. TypeInv /\ TypeInv' /\ SeatsInv /\ [Next]_vars => SeatsInv'
  BY SeatsNext
<1> QED  BY <1>1, SeatsInit, Typed, PTL DEF Spec

(***************************************************************************)
(* In an open match one address never owns two seats.                      *)
(***************************************************************************)
THEOREM OneSeatForEach == Spec => []OneSeatEach
<1>1. SeatsInv => OneSeatEach
  BY DEF SeatsInv, SeatsOK, OwnersSeated, OneSeatEach
<1> QED  BY <1>1, Seated, PTL

(***************************************************************************)
(* A staked or open match is locked, and settled, only with every seat     *)
(* owned and paid for, and its prize pool holds all their stakes.          *)
(***************************************************************************)
THEOREM LockedPotsAreWhole == Spec => []LockedIsFullyPaid
<1>1. ASSUME TypeInv, SeatsInv PROVE LockedIsFullyPaid
  <2> SUFFICES ASSUME NEW m \in Matches,
                      account[m].status \in {"Locked", "Settled"},
                      account[m].terms.stake # 0 \/ account[m].terms.open
               PROVE  /\ \A s \in account[m].terms.seats :
                            <<m, s>> \in staked /\ recipient[<<m, s>>] # NoOne
                      /\ account[m].prizePool >=
                            account[m].terms.stake * Cardinality(account[m].terms.seats)
    BY DEF LockedIsFullyPaid
  <2> DEFINE t == account[m].terms
  <2>1. SeatsOwned(m) /\ SeatsCounted(m) /\ LockedFull(m) /\ t \in Terms
    BY <1>1 DEF SeatsInv, SeatsOK, TypeInv, TermsOK
  <2>2. IsFiniteSet(t.seats) /\ Cardinality(t.seats) \in Nat
    <3>1. t.seats \in SUBSET Seats
      BY <2>1 DEF Terms
    <3> QED  BY <3>1, FiniteAssumption, FS_Subset, FS_CardinalityType
  <2>3. PaidSeats(m) \subseteq t.seats
    BY <2>1 DEF SeatsOwned, PaidSeats
  <2>4. Cardinality(t.seats) <= account[m].paidSeats
    BY <2>1 DEF LockedFull, DueSeats
  <2>5. Cardinality(PaidSeats(m)) <= Cardinality(t.seats)
    BY <2>2, <2>3, FS_Subset
  <2>6. Cardinality(PaidSeats(m)) = Cardinality(t.seats)
    BY <2>1, <2>2, <2>4, <2>5, PaidFinite DEF SeatsCounted
  <2>7. PaidSeats(m) = t.seats
    BY <2>2, <2>3, <2>6, FS_Subset
  <2>8. \A s \in t.seats : <<m, s>> \in staked /\ recipient[<<m, s>>] # NoOne
    BY <2>1, <2>7 DEF SeatsOwned, PaidSeats
  <2>9. account[m].paidSeats = Cardinality(t.seats)
    BY <2>1, <2>6 DEF SeatsCounted
  <2>10. t.stake * Cardinality(t.seats) <= account[m].prizePool
    BY <2>1, <2>9 DEF SeatsCounted
  <2>11. t.stake \in Nat /\ account[m].prizePool \in Nat
    BY <1>1, <2>1 DEF Terms, TypeInv, TypeOK, MatchAccount
  <2> DEFINE pot == t.stake * Cardinality(t.seats)
  <2>12. pot \in Nat /\ pot <= account[m].prizePool
    BY <2>2, <2>10, <2>11
  <2> HIDE DEF pot
  <2>13. account[m].prizePool >= pot
    BY <2>11, <2>12
  <2> QED  BY <2>8, <2>13 DEF pot
<1>2. TypeInv /\ SeatsInv => LockedIsFullyPaid
  BY <1>1
<1> QED  BY <1>2, Seated, PTL

------------------------------------------------------------------------------
(***************************************************************************)
(* The contract keeps the promise of EscrowMatch: whatever is done to the  *)
(* other matches, every step of it is, seen from one match, a step of      *)
(* EscrowMatch or no step at all.                                          *)
(***************************************************************************)

(***************************************************************************)
(* Seen from match n nothing happens if its account keeps its decision and *)
(* its terms, and its seats stay as they are.                              *)
(***************************************************************************)
Unseen(n) ==
    /\ account'[n].status = account[n].status
    /\ account'[n].terms = account[n].terms
    /\ account'[n].winner = account[n].winner
    /\ account'[n].resultHash = account[n].resultHash
    /\ \A s \in Seats : recipient'[<<n, s>>] = recipient[<<n, s>>]
    /\ \A s \in Seats : <<n, s>> \in staked' <=> <<n, s>> \in staked

Promised(n) == [OneMatch(n)!Next]_(OneMatch(n)!chain)

LEMMA UnseenStutters ==
    ASSUME NEW n \in Matches, Unseen(n) PROVE Promised(n)
<1>1. /\ [s \in Seats |-> recipient[<<n, s>>]]' = [s \in Seats |-> recipient[<<n, s>>]]
      /\ PaidSeats(n)' = PaidSeats(n) /\ DueSeats(n)' = DueSeats(n)
  BY DEF Unseen, PaidSeats, DueSeats
<1> QED  BY <1>1 DEF Unseen, Promised, OneMatch!chain

(***************************************************************************)
(* A creation reserves the seats that its terms name, and decides which    *)
(* ones must be paid.                                                      *)
(***************************************************************************)
LEMMA CreatePromised ==
    ASSUME TypeInv, TypeInv', SeatsInv, NEW m \in Matches, NEW t \in TermsChoices,
           CreateMatch(m, t), NEW n \in Matches
    PROVE  Promised(n)
<1>1. /\ account \in [Matches -> MatchAccount]
      /\ recipient \in [Matches \X Seats -> Accounts \cup {NoOne}]
      /\ recipient' \in [Matches \X Seats -> Accounts \cup {NoOne}]
  BY DEF TypeInv, TypeOK
<1>2. CASE n # m
  BY <1>1, <1>2, UnseenStutters DEF CreateMatch, Unseen
<1>3. CASE n = m
  <2>1. PICK reserved \in [Seats -> Accounts \cup {NoOne}] :
            reserved = [s \in Seats |-> recipient[<<m, s>>]]'
    BY <1>1
  <2>2. PICK due \in SUBSET Seats : due = DueSeats(m)'
    <3>1. account'[m].status # "Absent" => account'[m].terms \in Terms
      BY DEF TypeInv, TermsOK
    <3>2. DueSeats(m)' \in SUBSET Seats
      BY <3>1 DEF DueSeats, Terms
    <3> QED  BY <3>2
  <2>3. /\ account[m].status = "Absent" /\ account'[m].status = "Funding"
        /\ account'[m].winner = account[m].winner
        /\ account'[m].resultHash = account[m].resultHash
    BY <1>1 DEF CreateMatch, MatchAccount
  <2>4. PaidSeats(m)' = PaidSeats(m)
    BY DEF CreateMatch, PaidSeats
  <2>5. OneMatch(m)!Create(reserved, due)
    BY <2>1, <2>2, <2>3, <2>4 DEF OneMatch!Create
  <2>6. OneMatch(m)!Next
    BY <2>5 DEF OneMatch!Next
  <2> QED  BY <1>3, <2>6 DEF Promised
<1> QED  BY <1>2, <1>3

(***************************************************************************)
(* The four entry calls take a seat.                                       *)
(***************************************************************************)
LEMMA SeatPromised ==
    ASSUME TypeInv, NEW m \in Matches, NEW s \in Seats, NEW p \in Accounts, NEW key,
           account[m].status = "Funding", Seat(m, s, p, key), NEW n \in Matches
    PROVE  Promised(n)
<1>1. /\ account \in [Matches -> MatchAccount]
      /\ recipient \in [Matches \X Seats -> Accounts \cup {NoOne}]
  BY DEF TypeInv, TypeOK
<1>2. recipient[<<m, s>>] \in {NoOne, p} /\ recipient' = [recipient EXCEPT ![<<m, s>>] = p]
  BY <1>1 DEF Seat
<1>3. /\ account'[m].status = account[m].status
      /\ account'[m].terms = account[m].terms
      /\ account'[m].winner = account[m].winner
      /\ account'[m].resultHash = account[m].resultHash
      /\ \A k \in Matches \ {m} : account'[k] = account[k]
  BY <1>1 DEF Seat, MatchAccount
<1>4. staked' = staked \cup {<<m, s>>} /\ <<m, s>> \notin staked
  BY DEF Seat
<1>5. CASE n # m
  BY <1>1, <1>2, <1>3, <1>4, <1>5, UnseenStutters DEF Unseen
<1>6. CASE n = m
  <2> DEFINE own == [x \in Seats |-> recipient[<<m, x>>]]
             own2 == [x \in Seats |-> recipient'[<<m, x>>]]
  <2>1. own2 = [own EXCEPT ![s] = p] /\ own[s] \in {NoOne, p}
    BY <1>1, <1>2
  <2>2. PaidSeats(m)' = PaidSeats(m) \cup {s} /\ s \notin PaidSeats(m)
    BY <1>4 DEF PaidSeats
  <2>3. DueSeats(m)' = DueSeats(m)
    BY <1>3 DEF DueSeats
  <2>4. OneMatch(m)!TakeSeat(s, p)
    BY <1>3, <2>1, <2>2, <2>3 DEF OneMatch!TakeSeat
  <2>5. OneMatch(m)!Next
    BY <2>4 DEF OneMatch!Next
  <2> QED  BY <1>6, <2>5 DEF Promised
<1> QED  BY <1>5, <1>6

(***************************************************************************)
(* lock compares a counter with a number of seats; since it counts the     *)
(* paid seats, and only seats of the match are paid, all of them are.      *)
(***************************************************************************)
LEMMA DueArePaid ==
    ASSUME TypeInv, SeatsInv, NEW m \in Matches, Lock(m)
    PROVE  DueSeats(m) \subseteq PaidSeats(m)
<1> DEFINE t == account[m].terms
<1>1. SeatsOwned(m) /\ SeatsCounted(m) /\ t \in Terms
  BY DEF Lock, SeatsInv, SeatsOK, TypeInv, TermsOK
<1>2. CASE t.stake # 0 \/ t.open
  <2>1. t.seats \in SUBSET Seats
    BY <1>1 DEF Terms
  <2>2. IsFiniteSet(t.seats)
    BY <2>1, FiniteAssumption, FS_Subset
  <2>3. PaidSeats(m) \subseteq t.seats
    BY <1>1 DEF SeatsOwned, PaidSeats
  <2>4. Cardinality(PaidSeats(m)) = Cardinality(t.seats)
    BY <1>1, <1>2 DEF Lock, SeatsCounted
  <2>5. PaidSeats(m) = t.seats
    BY <2>2, <2>3, <2>4, FS_Subset
  <2> QED  BY <2>5 DEF DueSeats
<1>3. CASE ~(t.stake # 0 \/ t.open)
  BY <1>3 DEF DueSeats
<1> QED  BY <1>2, <1>3

LEMMA DecisionPromised ==
    ASSUME TypeInv, SeatsInv, NEW m \in Matches, NEW n \in Matches,
           \/ Lock(m)
           \/ \E w \in Seats, hash \in Hashes : Settle(m, w, hash)
           \/ \E caller \in Accounts : VoidMatch(m, caller)
           \/ \E s \in Seats, key \in Keys : SetController(m, s, key)
    PROVE  Promised(n)
<1>1. account \in [Matches -> MatchAccount]
  BY DEF TypeInv, TypeOK
<1>2. /\ recipient' = recipient /\ staked' = staked
      /\ \A k \in Matches \ {m} : account'[k] = account[k]
      /\ account'[m].terms = account[m].terms
  <2> DEFINE Kept == /\ recipient' = recipient /\ staked' = staked
                     /\ \A k \in Matches \ {m} : account'[k] = account[k]
                     /\ account'[m].terms = account[m].terms
  <2>1. Lock(m) => Kept
    BY <1>1 DEF Lock, seatVars, MatchAccount
  <2>2. ASSUME NEW w \in Seats, NEW hash \in Hashes, Settle(m, w, hash) PROVE Kept
    BY <1>1, <2>2 DEF Settle, seatVars, MatchAccount
  <2>3. ASSUME NEW caller \in Accounts, VoidMatch(m, caller) PROVE Kept
    BY <1>1, <2>3 DEF VoidMatch, seatVars, MatchAccount
  <2>4. \A s \in Seats, key \in Keys : SetController(m, s, key) => Kept
    BY DEF SetController
  <2> HIDE DEF Kept
  <2>5. Kept
    BY <2>1, <2>2, <2>3, <2>4
  <2> QED  BY <2>5 DEF Kept
<1>3. CASE n # m
  BY <1>2, <1>3, UnseenStutters DEF Unseen
<1>4. [x \in Seats |-> recipient[<<m, x>>]]' = [x \in Seats |-> recipient[<<m, x>>]]
  BY <1>2
<1>5. PaidSeats(m)' = PaidSeats(m)
  BY <1>2 DEF PaidSeats
<1>6. account[m].status # "Absent" /\ account'[m].status # "Absent"
         => DueSeats(m)' = DueSeats(m)
  BY <1>2 DEF DueSeats
<1>7. ASSUME Lock(m) PROVE Promised(m)
  <2>1. /\ account[m].status = "Funding" /\ account'[m].status = "Locked"
        /\ account'[m].winner = account[m].winner
        /\ account'[m].resultHash = account[m].resultHash
    BY <1>1, <1>7 DEF Lock, MatchAccount
  <2>2. OneMatch(m)!Lock
    BY <1>4, <1>5, <1>6, <1>7, <2>1, DueArePaid DEF OneMatch!Lock
  <2> QED  BY <2>2 DEF Promised, OneMatch!Next
<1>8. ASSUME NEW w \in Seats, NEW hash \in Hashes, Settle(m, w, hash) PROVE Promised(m)
  <2>1. /\ account[m].status = "Locked" /\ account'[m].status = "Settled"
        /\ account'[m].winner = w /\ account'[m].resultHash = hash
        /\ recipient[<<m, w>>] # NoOne
    BY <1>1, <1>8 DEF Settle, MatchAccount
  <2>2. OneMatch(m)!Settle(w, hash)
    BY <1>4, <1>5, <1>6, <2>1 DEF OneMatch!Settle
  <2> QED  BY <2>2 DEF Promised, OneMatch!Next
<1>9. ASSUME NEW caller \in Accounts, VoidMatch(m, caller) PROVE Promised(m)
  <2>1. /\ account[m].status \in {"Funding", "Locked"} /\ account'[m].status = "Voided"
        /\ account'[m].winner = account[m].winner
        /\ account'[m].resultHash = account[m].resultHash
    BY <1>1, <1>9 DEF VoidMatch, MatchAccount
  <2>2. OneMatch(m)!Void
    BY <1>4, <1>5, <1>6, <2>1 DEF OneMatch!Void
  <2> QED  BY <2>2 DEF Promised, OneMatch!Next
<1>10. ASSUME NEW s \in Seats, NEW key \in Keys, SetController(m, s, key) PROVE Promised(m)
  BY <1>2, <1>10, UnseenStutters DEF SetController, Unseen
<1> QED  BY <1>3, <1>7, <1>8, <1>9, <1>10

(***************************************************************************)
(* Money in and money out are not seen.                                    *)
(***************************************************************************)
LEMMA MoneyUnseen ==
    ASSUME TypeInv, NEW m \in Matches, NEW n \in Matches,
           \/ \E a \in Accounts, x \in Amounts : FundBounty(m, a, x)
           \/ \E s \in Seats, a \in Accounts, x \in Amounts : PlaceBet(m, s, a, x)
           \/ \E a \in Accounts : Claim(m, a)
    PROVE  Promised(n)
<1>1. account \in [Matches -> MatchAccount]
  BY DEF TypeInv, TypeOK
<1>2. UNCHANGED <<recipient, staked>>
  BY DEF FundBounty, PlaceBet, Claim, ClaimRefund, ClaimBet, seatVars
<1> DEFINE Kept == /\ account'[n].status = account[n].status
                   /\ account'[n].terms = account[n].terms
                   /\ account'[n].winner = account[n].winner
                   /\ account'[n].resultHash = account[n].resultHash
<1>3. ASSUME NEW a \in Accounts, NEW x \in Amounts, FundBounty(m, a, x) PROVE Kept
  BY <1>1, <1>3 DEF FundBounty, MatchAccount
<1>4. ASSUME NEW s \in Seats, NEW a \in Accounts, NEW x \in Amounts, PlaceBet(m, s, a, x)
      PROVE  Kept
  BY <1>1, <1>4 DEF PlaceBet, MatchAccount
<1>5. \A a \in Accounts : ClaimRefund(m, a) \/ ClaimBetRefund(m, a) => Kept
  BY DEF ClaimRefund, ClaimBetRefund
<1>6. ASSUME NEW a \in Accounts, ClaimBetPayout(m, a) PROVE Kept
  BY <1>1, <1>6 DEF ClaimBetPayout, MatchAccount
<1> HIDE DEF Kept
<1>7. Kept
  BY <1>3, <1>4, <1>5, <1>6 DEF Claim, ClaimBet
<1>8. Unseen(n)
  BY <1>2, <1>7 DEF Kept, Unseen
<1> QED  BY <1>8, UnseenStutters

LEMMA StepPromised ==
    ASSUME TypeInv, TypeInv', SeatsInv, [Next]_vars
    PROVE  \A n \in Matches : Promised(n)
<1> SUFFICES ASSUME NEW n \in Matches PROVE Promised(n)
  OBVIOUS
<1>1. ASSUME NEW m \in Matches, NEW s \in Seats, NEW p \in Accounts, NEW key,
             \/ Stake(m, s, p, key)
             \/ ClaimSeatFor(m, s, p, key)
             \/ \E nonce \in Nonces :
                   \/ StakeWithAuthorization(m, s, p, key, nonce)
                   \/ RecoverAuthorizedStake(m, s, p, key, nonce)
      PROVE  Promised(n)
  <2>1. account[m].status = "Funding" /\ Seat(m, s, p, key)
    BY <1>1 DEF Stake, ClaimSeatFor, StakeWithAuthorization,
                RecoverAuthorizedStake, AuthorizedEntry, Funding
  <2> QED  BY <2>1, SeatPromised
<1>2. ASSUME NEW m \in Matches, Deposit(m) PROVE Promised(n)
  BY <1>1, <1>2, MoneyUnseen DEF Deposit
<1>3. ASSUME NEW m \in Matches, Decide(m) PROVE Promised(n)
  BY <1>3, CreatePromised, DecisionPromised DEF Decide
<1>4. ASSUME NEW m \in Matches, NEW a \in Accounts, Claim(m, a) PROVE Promised(n)
  BY <1>4, MoneyUnseen
<1>5. ASSUME \/ Governance
             \/ \E t \in TokenIds, a \in Accounts : Withdraw(t, a)
             \/ Token
             \/ Tick
             \/ UNCHANGED vars
      PROVE  Promised(n)
  <2>1. UNCHANGED <<account, recipient, staked>>
    BY <1>5 DEF Governance, SetToken, SetResolver, SetPaused, AcceptOwnership,
                notAdmin, Withdraw, Token, CancelAuthorization, DirectTransfer,
                Tick, vars, seatVars
  <2> QED  BY <2>1, UnseenStutters DEF Unseen
<1> QED  BY <1>2, <1>3, <1>4, <1>5 DEF Next

(***************************************************************************)
(* Each match behaves as EscrowMatch allows, whatever is done to the       *)
(* others: seats are taken once, a match is locked with all due seats      *)
(* paid, and decided once.                                                 *)
(***************************************************************************)
THEOREM MatchesBehaveAsPromised == Spec => EachMatchAsPromised
<1>1. Init => \A m \in Matches : OneMatch(m)!Init
  BY DEF Init, NoMatch, OneMatch!Init, PaidSeats, DueSeats
<1>2. TypeInv /\ TypeInv' /\ SeatsInv /\ [Next]_vars
         => \A m \in Matches : [OneMatch(m)!Next]_(OneMatch(m)!chain)
  BY StepPromised DEF Promised
<1> QED  BY <1>1, <1>2, Seated, PTL DEF Spec, EachMatchAsPromised
-----------------------------------------------------------------------------
(***************************************************************************)
(* Theorems about the spectator pools of the escrow contract: what is left *)
(* of a payout always covers the winning shares that are still unclaimed,  *)
(* and nothing stays behind, for any bets, fees and order of the claims.   *)
(***************************************************************************)

(***************************************************************************)
(* The strengthening.  Neither property is inductive: a claim looks at its *)
(* own shares and at two counters.  The invariant says what the pools and  *)
(* counters add up to, that nobody has claimed before the decision, and    *)
(* that what is left of the payout covers the unclaimed shares at the rate *)
(* at which the whole payout covers the winning pool.                      *)
(***************************************************************************)
BetsOn(m, s) == [a \in Accounts |-> bets[<<m, s, a>>]]
BetsOf(m) == [a \in Accounts |-> totalBets[<<m, a>>]]

BetsCounted(m) ==
    /\ account[m].betPool = Total(BetsOf(m))
    /\ \A s \in Seats : outcomePool[<<m, s>>] = Total(BetsOn(m, s))

Undecided == {"Absent", "Funding", "Locked"}
NothingClaimed(m) ==
    account[m].status \in Undecided => \A a \in Accounts : <<m, a>> \notin betClaimed

WinningPool(m) == outcomePool[<<m, account[m].winner>>]
Payout(m) ==
    account[m].betPool - FeeOn(account[m].betPool - WinningPool(m), account[m].terms.feeBps)

PayoutCovers(m) ==
    account[m].status = "Settled" /\ WinningPool(m) # 0 =>
        /\ account[m].remainingBetShares = Total(UnclaimedShares(m))
        /\ account[m].remainingBetShares * Payout(m)
               <= WinningPool(m) * account[m].remainingBetPayout
        /\ account[m].remainingBetShares = 0 => account[m].remainingBetPayout = 0

PoolOf(m) == BetsCounted(m) /\ NothingClaimed(m) /\ PayoutCovers(m)
PoolInv == \A m \in Matches : PoolOf(m)

(***************************************************************************)
(* Division of natural numbers.                                            *)
(***************************************************************************)
LEMMA QuotientBounds ==
    ASSUME NEW z \in Nat, NEW d \in Nat, d # 0
    PROVE  /\ z \div d \in Nat
           /\ d * (z \div d) <= z
           /\ z < d * ((z \div d) + 1)
OBVIOUS

LEMMA Cancel ==
    ASSUME NEW d \in Nat, NEW x \in Nat, NEW y \in Nat, d # 0, d * x <= d * y
    PROVE  x <= y
OBVIOUS

LEMMA Scale ==
    ASSUME NEW d \in Nat, NEW x \in Nat, NEW y \in Nat, x <= y
    PROVE  d * x \in Nat /\ d * y \in Nat /\ d * x <= d * y
OBVIOUS

LEMMA LargestQuotient ==
    ASSUME NEW z \in Nat, NEW d \in Nat, NEW s \in Nat, d # 0, d * s <= z
    PROVE  s <= z \div d
<1> DEFINE q == z \div d
<1>1. q \in Nat /\ z < d * (q + 1)
  BY QuotientBounds
<1> HIDE DEF q
<1>2. d * s < d * (q + 1)
  BY <1>1
<1>3. s < q + 1
  BY <1>1, <1>2
<1> QED  BY <1>1, <1>3 DEF q

(***************************************************************************)
(* A rounded share of s units in a pool of p units that pays n is at least *)
(* the principal, is covered by what is left (y, for r unclaimed units),   *)
(* and leaves the other unclaimed units covered.                           *)
(***************************************************************************)
LEMMA ShareOfPayout ==
    ASSUME NEW s \in Nat, NEW p \in Nat, NEW n \in Nat, NEW r \in Nat, NEW y \in Nat,
           p # 0, p <= n, s <= r, r * n <= p * y
    PROVE  /\ (s * n) \div p \in Nat
           /\ s <= (s * n) \div p
           /\ (s * n) \div p <= y
           /\ (r - s) * n <= p * (y - (s * n) \div p)
<1> DEFINE z == s * n
           q == z \div p
<1>1. z \in Nat /\ p * s <= z
  <2>1. s * p <= s * n
    BY Scale
  <2>2. s * p = p * s
    OBVIOUS
  <2> QED  BY <2>1, <2>2
<1>2. z <= r * n /\ r * n \in Nat /\ p * y \in Nat
  <2>1. n * s <= n * r
    BY Scale
  <2>2. n * s = s * n /\ n * r = r * n
    OBVIOUS
  <2> QED  BY <2>1, <2>2
<1>3. (r - s) * n = r * n - z
  OBVIOUS
<1> HIDE DEF z
<1>4. q \in Nat /\ p * q <= z /\ s <= q
  BY <1>1, QuotientBounds, LargestQuotient
<1> HIDE DEF q
<1>5. p * q <= p * y
  BY <1>1, <1>2, <1>4
<1>6. q <= y
  BY <1>4, <1>5, Cancel
<1>7. p * (y - q) = p * y - p * q
  BY <1>4
<1>8. p * q \in Nat
  BY <1>4
<1>9. r * n - z <= p * y - p * q
  BY <1>1, <1>2, <1>4, <1>8
<1> USE DEF q, z
<1> QED  BY <1>3, <1>4, <1>6, <1>7, <1>9

(***************************************************************************)
(* Sheets of amounts have their types.                                     *)
(***************************************************************************)
LEMMA BetSheets ==
    ASSUME TypeOK, NEW m \in Matches
    PROVE  /\ BetsOf(m) \in [Accounts -> Nat]
           /\ \A s \in Seats : BetsOn(m, s) \in [Accounts -> Nat]
           /\ account[m].winner \in Seats => UnclaimedShares(m) \in [Accounts -> Nat]
           /\ UnclaimedBets(m) \in [Accounts -> Nat]
<1>1. /\ totalBets \in [Matches \X Accounts -> Nat]
      /\ bets \in [Matches \X Seats \X Accounts -> Nat]
  BY DEF TypeOK
<1> QED  BY <1>1 DEF BetsOf, BetsOn, UnclaimedShares, UnclaimedBets, When

LEMMA PayoutType ==
    ASSUME TypeInv, WinnerOK, NEW m \in Matches, account[m].status = "Settled"
    PROVE  /\ account[m].winner \in Seats
           /\ WinningPool(m) \in Nat /\ Payout(m) \in Nat
           /\ WinningPool(m) <= Payout(m) /\ Payout(m) <= account[m].betPool
           /\ account[m].remainingBetShares \in Nat
           /\ account[m].remainingBetPayout \in Nat
<1>1. account[m].winner \in Seats
  BY DEF WinnerOK
<1> DEFINE pool == WinningPool(m)
           fee == FeeOn(account[m].betPool - pool, account[m].terms.feeBps)
<1>2. /\ pool \in Nat /\ pool <= account[m].betPool
      /\ account[m].betPool \in Nat
      /\ account[m].remainingBetShares \in Nat
      /\ account[m].remainingBetPayout \in Nat
  BY <1>1 DEF TypeInv, TypeOK, PoolOK, MatchAccount, WinningPool
<1>3. account[m].terms.feeBps \in Nat /\ account[m].terms.feeBps <= 10000
  BY DEF TypeInv, TermsOK, Terms
<1> HIDE DEF pool
<1>4. account[m].betPool - pool \in Nat
  BY <1>2
<1>5. fee \in Nat /\ fee <= account[m].betPool - pool
  BY <1>3, <1>4, FeeBounds
<1>6. Payout(m) = account[m].betPool - fee
  BY DEF Payout, pool
<1> HIDE DEF fee
<1>7. Payout(m) \in Nat /\ pool <= Payout(m) /\ Payout(m) <= account[m].betPool
  BY <1>2, <1>5, <1>6
<1> QED  BY <1>1, <1>2, <1>7 DEF pool

LEMMA RefundedWhen ==
    ASSUME NEW m \in Matches, account[m].status = "Settled"
    PROVE  Refunded(m) <=> WinningPool(m) = 0
BY DEF Refunded, WinningPool

(***************************************************************************)
(* A match whose pool a step leaves alone; its status moves at most before *)
(* the decision, or to void.                                               *)
(***************************************************************************)
SameBets(n) ==
    /\ \A s \in Seats, a \in Accounts : bets'[<<n, s, a>>] = bets[<<n, s, a>>]
    /\ \A a \in Accounts : totalBets'[<<n, a>>] = totalBets[<<n, a>>]
    /\ \A s \in Seats : outcomePool'[<<n, s>>] = outcomePool[<<n, s>>]
    /\ account'[n].betPool = account[n].betPool

SameClaims(n) == \A a \in Accounts : <<n, a>> \in betClaimed' <=> <<n, a>> \in betClaimed

SameDecision(n) ==
    \/ /\ account'[n].status = account[n].status
       /\ account'[n].winner = account[n].winner
       /\ account'[n].terms = account[n].terms
       /\ account'[n].remainingBetShares = account[n].remainingBetShares
       /\ account'[n].remainingBetPayout = account[n].remainingBetPayout
    \/ account[n].status \in Undecided /\ account'[n].status \in Undecided \cup {"Voided"}

LEMMA BetsKept ==
    ASSUME NEW n \in Matches, SameBets(n)
    PROVE  /\ BetsOf(n)' = BetsOf(n)
           /\ \A s \in Seats : BetsOn(n, s)' = BetsOn(n, s)
           /\ BetsCounted(n) => BetsCounted(n)'
<1>1. BetsOf(n)' = BetsOf(n) /\ \A s \in Seats : BetsOn(n, s)' = BetsOn(n, s)
  BY DEF SameBets, BetsOf, BetsOn
<1> QED  BY <1>1 DEF SameBets, BetsCounted

LEMMA PoolUndisturbed ==
    ASSUME TypeInv, WinnerOK, NEW n \in Matches, PoolOf(n),
           SameBets(n), SameClaims(n), SameDecision(n)
    PROVE  PoolOf(n)'
<1>1. BetsCounted(n)'
  BY BetsKept DEF PoolOf
<1>2. NothingClaimed(n)'
  BY DEF PoolOf, NothingClaimed, SameClaims, SameDecision, Undecided
<1>3. PayoutCovers(n)'
  <2> SUFFICES ASSUME account'[n].status = "Settled", WinningPool(n)' # 0
               PROVE  PayoutCovers(n)'
    BY DEF PayoutCovers
  <2>1. /\ account[n].status = "Settled"
        /\ account'[n].winner = account[n].winner
        /\ account'[n].terms = account[n].terms
        /\ account'[n].remainingBetShares = account[n].remainingBetShares
        /\ account'[n].remainingBetPayout = account[n].remainingBetPayout
    BY DEF SameDecision, Undecided
  <2>2. account[n].winner \in Seats
    BY <2>1 DEF WinnerOK
  <2>3. WinningPool(n)' = WinningPool(n) /\ Payout(n)' = Payout(n)
    BY <2>1, <2>2 DEF WinningPool, Payout, SameBets
  <2>4. UnclaimedShares(n)' = UnclaimedShares(n)
    BY <2>1, <2>2 DEF UnclaimedShares, SameBets, SameClaims, When
  <2> QED  BY <2>1, <2>3, <2>4 DEF PoolOf, PayoutCovers
<1> QED  BY <1>1, <1>2, <1>3 DEF PoolOf

(***************************************************************************)
(* Calls on other matches, governance, withdrawals, the token, the clock.  *)
(***************************************************************************)
LEMMA PoolElsewhere ==
    ASSUME NEW n \in Matches, UNCHANGED betVars, account'[n] = account[n]
    PROVE  SameBets(n) /\ SameClaims(n) /\ SameDecision(n)
BY DEF betVars, SameBets, SameClaims, SameDecision

(***************************************************************************)
(* Seats, bounties, creation, lock, void, controllers and refunds.         *)
(***************************************************************************)
LEMMA PoolSeat ==
    ASSUME TypeInv, NEW m \in Matches, NEW n \in Matches, UNCHANGED betVars,
           \/ \E s \in Seats, p \in Accounts, key \in Accounts : Seat(m, s, p, key)
           \/ \E a \in Accounts, x \in Amounts : FundBounty(m, a, x)
    PROVE  SameBets(n) /\ SameClaims(n) /\ SameDecision(n)
<1>1. account \in [Matches -> MatchAccount]
  BY DEF TypeInv, TypeOK
<1>2. ASSUME NEW s \in Seats, NEW p \in Accounts, NEW key \in Accounts, Seat(m, s, p, key)
      PROVE  account'[n].betPool = account[n].betPool /\ SameDecision(n)
  BY <1>1, <1>2 DEF Seat, MatchAccount, SameDecision
<1>3. ASSUME NEW a \in Accounts, NEW x \in Amounts, FundBounty(m, a, x)
      PROVE  account'[n].betPool = account[n].betPool /\ SameDecision(n)
  BY <1>1, <1>3 DEF FundBounty, MatchAccount, SameDecision
<1> QED  BY <1>2, <1>3 DEF betVars, SameBets, SameClaims

LEMMA PoolStatus ==
    ASSUME TypeInv, NEW m \in Matches, NEW n \in Matches,
           \/ \E t \in TermsChoices : CreateMatch(m, t)
           \/ Lock(m)
           \/ \E caller \in Accounts : VoidMatch(m, caller)
           \/ \E s \in Seats, key \in Keys : SetController(m, s, key)
           \/ \E a \in Accounts : ClaimRefund(m, a)
    PROVE  SameBets(n) /\ SameClaims(n) /\ SameDecision(n)
<1>1. account \in [Matches -> MatchAccount]
  BY DEF TypeInv, TypeOK
<1>2. UNCHANGED betVars
  BY DEF CreateMatch, Lock, VoidMatch, SetController, ClaimRefund
<1> DEFINE Kept == account'[n].betPool = account[n].betPool /\ SameDecision(n)
<1>3. ASSUME NEW t \in TermsChoices, CreateMatch(m, t) PROVE Kept
  BY <1>1, <1>3 DEF CreateMatch, MatchAccount, SameDecision, Undecided
<1>4. CASE Lock(m)
  <2>1. Kept
    BY <1>1, <1>4 DEF Lock, MatchAccount, SameDecision, Undecided
  <2> QED  BY <1>2, <2>1 DEF betVars, SameBets, SameClaims
<1>5. ASSUME NEW a \in Accounts, VoidMatch(m, a) PROVE Kept
  BY <1>1, <1>5 DEF VoidMatch, MatchAccount, SameDecision, Undecided
<1>6. \A s \in Seats, key \in Keys : SetController(m, s, key) => Kept
  BY DEF SetController, SameDecision
<1>7. \A a \in Accounts : ClaimRefund(m, a) => Kept
  BY DEF ClaimRefund, SameDecision
<1> HIDE DEF Kept
<1>8. Kept \/ Lock(m)
  BY <1>3, <1>5, <1>6, <1>7
<1> QED  BY <1>2, <1>4, <1>8 DEF Kept, betVars, SameBets, SameClaims

(***************************************************************************)
(* A bet is counted in the pool, for its bettor and for its outcome.       *)
(***************************************************************************)
LEMMA PoolBet ==
    ASSUME TypeInv, TypeInv', WinnerOK, PoolInv, NEW m \in Matches, NEW s \in Seats,
           NEW p \in Accounts, NEW x \in Amounts, PlaceBet(m, s, p, x),
           NEW n \in Matches
    PROVE  PoolOf(n)'
<1>1. /\ account \in [Matches -> MatchAccount]
      /\ totalBets \in [Matches \X Accounts -> Nat]
      /\ bets \in [Matches \X Seats \X Accounts -> Nat]
      /\ outcomePool \in [Matches \X Seats -> Nat]
      /\ x \in Nat
  BY ChoiceAssumption DEF TypeInv, TypeOK
<1>2. /\ bets' = [bets EXCEPT ![<<m, s, p>>] = @ + x]
      /\ totalBets' = [totalBets EXCEPT ![<<m, p>>] = @ + x]
      /\ outcomePool' = [outcomePool EXCEPT ![<<m, s>>] = @ + x]
      /\ account' = [account EXCEPT ![m].betPool = @ + x]
      /\ account[m].status = "Funding" /\ UNCHANGED betClaimed
  BY DEF PlaceBet, Funding
<1>3. /\ totalBets' \in [Matches \X Accounts -> Nat]
      /\ bets' \in [Matches \X Seats \X Accounts -> Nat]
  BY DEF TypeInv, TypeOK
<1>4. CASE n # m
  <2>1. account'[n] = account[n]
    BY <1>1, <1>2, <1>4
  <2>2. SameBets(n) /\ SameClaims(n) /\ SameDecision(n)
    BY <1>1, <1>2, <1>4, <2>1 DEF SameBets, SameClaims, SameDecision
  <2> QED  BY <2>2, PoolUndisturbed DEF PoolInv
<1>5. CASE n = m
  <2>1. /\ account'[m].betPool = account[m].betPool + x
        /\ account'[m].status = "Funding"
    BY <1>1, <1>2 DEF MatchAccount
  <2>2. PoolOf(m)
    BY DEF PoolInv
  <2>3. Total(BetsOf(m)') = Total(BetsOf(m)) + x
    <3>1. BetsOf(m) \in [Accounts -> Nat] /\ BetsOf(m)' \in [Accounts -> Nat]
      BY <1>1, <1>3 DEF BetsOf
    <3>2. /\ \A a \in Accounts \ {p} : BetsOf(m)'[a] = BetsOf(m)[a]
          /\ BetsOf(m)'[p] = BetsOf(m)[p] + x
      BY <1>1, <1>2 DEF BetsOf
    <3>3. Total(BetsOf(m)') = Total(BetsOf(m)) - BetsOf(m)[p] + BetsOf(m)'[p]
      BY <3>1, <3>2, TotalChange, FiniteAssumption
    <3>4. Total(BetsOf(m)) \in Nat /\ BetsOf(m)[p] \in Nat
      BY <3>1, TotalBounds, FiniteAssumption
    <3> QED  BY <1>1, <3>2, <3>3, <3>4
  <2>4. ASSUME NEW r \in Seats PROVE outcomePool'[<<m, r>>] = Total(BetsOn(m, r)')
    <3>1. BetsOn(m, r) \in [Accounts -> Nat] /\ BetsOn(m, r)' \in [Accounts -> Nat]
      BY <1>1, <1>3 DEF BetsOn
    <3>2. outcomePool[<<m, r>>] = Total(BetsOn(m, r))
      BY <2>2 DEF PoolOf, BetsCounted
    <3>3. CASE r # s
      <4>1. BetsOn(m, r)' = BetsOn(m, r) /\ outcomePool'[<<m, r>>] = outcomePool[<<m, r>>]
        BY <1>1, <1>2, <3>3 DEF BetsOn
      <4> QED  BY <3>2, <4>1
    <3>4. CASE r = s
      <4>1. /\ \A a \in Accounts \ {p} : BetsOn(m, s)'[a] = BetsOn(m, s)[a]
            /\ BetsOn(m, s)'[p] = BetsOn(m, s)[p] + x
            /\ outcomePool'[<<m, s>>] = outcomePool[<<m, s>>] + x
        BY <1>1, <1>2 DEF BetsOn
      <4>2. Total(BetsOn(m, s)') =
                Total(BetsOn(m, s)) - BetsOn(m, s)[p] + BetsOn(m, s)'[p]
        BY <3>1, <3>4, <4>1, TotalChange, FiniteAssumption
      <4>3. Total(BetsOn(m, s)) \in Nat /\ BetsOn(m, s)[p] \in Nat
        BY <3>1, <3>4, TotalBounds, FiniteAssumption
      <4> QED  BY <1>1, <3>2, <3>4, <4>1, <4>2, <4>3
    <3> QED  BY <3>3, <3>4
  <2>5. BetsCounted(m)'
    BY <2>1, <2>2, <2>3, <2>4 DEF BetsCounted, PoolOf
  <2>6. NothingClaimed(m)'
    BY <1>2, <2>2 DEF PoolOf, NothingClaimed, Undecided
  <2>7. PayoutCovers(m)'
    BY <2>1 DEF PayoutCovers
  <2> QED  BY <1>5, <2>5, <2>6, <2>7 DEF PoolOf
<1> QED  BY <1>4, <1>5

(***************************************************************************)
(* Settlement: the payout is set aside for the winning pool.               *)
(***************************************************************************)
LEMMA PoolSettle ==
    ASSUME TypeInv, TypeInv', WinnerOK, PoolInv, NEW m \in Matches, NEW w \in Seats,
           NEW hash \in Hashes, Settle(m, w, hash), NEW n \in Matches
    PROVE  PoolOf(n)'
<1>1. account \in [Matches -> MatchAccount]
  BY DEF TypeInv, TypeOK
<1>2. UNCHANGED <<bets, totalBets, outcomePool, betClaimed>>
  BY DEF Settle, betVars
<1>3. CASE n # m
  <2>1. account'[n] = account[n]
    BY <1>1, <1>3 DEF Settle
  <2> QED  BY <1>2, <2>1, PoolElsewhere, PoolUndisturbed DEF PoolInv, betVars
<1>4. CASE n = m
  <2>1. /\ account[m].status = "Locked" /\ account'[m].status = "Settled"
        /\ account'[m].winner = w /\ account'[m].terms = account[m].terms
        /\ account'[m].betPool = account[m].betPool
        /\ account'[m].remainingBetShares = outcomePool[<<m, w>>]
        /\ account'[m].remainingBetPayout = account[m].betPool - BetFee(m, w)
    BY <1>1 DEF Settle, MatchAccount
  <2>2. PoolOf(m)
    BY DEF PoolInv
  <2>3. BetsCounted(m)'
    BY <1>2, <2>1, <2>2, BetsKept DEF SameBets, PoolOf
  <2>4. NothingClaimed(m)'
    BY <2>1 DEF NothingClaimed, Undecided
  <2>5. PayoutCovers(m)'
    <3> SUFFICES ASSUME outcomePool[<<m, w>>] # 0 PROVE PayoutCovers(m)'
      BY <1>2, <2>1 DEF PayoutCovers, WinningPool
    <3>1. WinningPool(m)' = outcomePool[<<m, w>>]
      BY <1>2, <2>1 DEF WinningPool
    <3>2. Payout(m)' = account'[m].remainingBetPayout
      BY <2>1, <3>1 DEF Payout, BetFee
    <3>3. UnclaimedShares(m)' = BetsOn(m, w)
      <4>1. \A a \in Accounts : <<m, a>> \notin betClaimed
        BY <2>1, <2>2 DEF PoolOf, NothingClaimed, Undecided
      <4> QED  BY <1>2, <2>1, <4>1 DEF UnclaimedShares, BetsOn, When
    <3>4. outcomePool[<<m, w>>] = Total(BetsOn(m, w))
      BY <2>2 DEF PoolOf, BetsCounted
    <3>5. /\ account'[m].remainingBetShares * Payout(m)'
                 <= WinningPool(m)' * account'[m].remainingBetPayout
      <4> DEFINE x == outcomePool[<<m, w>>] * account'[m].remainingBetPayout
      <4>1. x \in Int
        BY <1>4 DEF TypeInv, TypeOK, MatchAccount
      <4>2. /\ account'[m].remainingBetShares * Payout(m)' = x
            /\ WinningPool(m)' * account'[m].remainingBetPayout = x
        BY <2>1, <3>1, <3>2
      <4> HIDE DEF x
      <4> QED  BY <4>1, <4>2
    <3> QED  BY <2>1, <3>1, <3>2, <3>3, <3>4, <3>5 DEF PayoutCovers
  <2> QED  BY <1>4, <2>3, <2>4, <2>5 DEF PoolOf
<1> QED  BY <1>3, <1>4

(***************************************************************************)
(* A claim.  The claimant's shares leave the unclaimed ones, the rounded   *)
(* share leaves the payout; the last claim empties both counters.          *)
(***************************************************************************)
LEMMA PoolClaimed ==
    ASSUME TypeInv, TypeInv', WinnerOK, PoolInv, NEW m \in Matches, NEW a \in Accounts,
           ClaimBet(m, a), ClaimBetPayout(m, a)
    PROVE  PayoutCovers(m)'
<1> DEFINE w == account[m].winner
           shares == bets[<<m, w, a>>]
           amount == BetShare(m, shares)
           left == account[m].remainingBetShares
           money == account[m].remainingBetPayout
           pool == WinningPool(m)
           pay == Payout(m)
<1>1. /\ account[m].status = "Settled" /\ pool # 0
      /\ w \in Seats /\ pool \in Nat /\ pay \in Nat /\ pool <= pay
      /\ left \in Nat /\ money \in Nat /\ shares \in Nat
  BY PayoutType, RefundedWhen DEF ClaimBetPayout, TypeInv, TypeOK
<1>2. /\ account \in [Matches -> MatchAccount]
      /\ shares # 0 /\ shares <= left /\ amount <= money
      /\ account' = [account EXCEPT ![m].remainingBetShares = @ - shares,
                                    ![m].remainingBetPayout = @ - amount]
      /\ UNCHANGED <<bets, totalBets, outcomePool>>
      /\ betClaimed' = betClaimed \cup {<<m, a>>} /\ <<m, a>> \notin betClaimed
  BY DEF ClaimBet, ClaimBetPayout, TypeInv, TypeOK
<1>3. /\ account'[m].status = "Settled" /\ account'[m].winner = w
      /\ account'[m].terms = account[m].terms
      /\ account'[m].betPool = account[m].betPool
      /\ account'[m].remainingBetShares = left - shares
      /\ account'[m].remainingBetPayout = money - amount
  BY <1>1, <1>2 DEF MatchAccount
<1>4. WinningPool(m)' = pool /\ Payout(m)' = pay
  BY <1>2, <1>3 DEF WinningPool, Payout
<1>5. /\ left = Total(UnclaimedShares(m)) /\ left * pay <= pool * money
  BY <1>1 DEF PoolInv, PoolOf, PayoutCovers
<1>6. account'[m].remainingBetShares = Total(UnclaimedShares(m)')
  <2> DEFINE f == UnclaimedShares(m)
             g == UnclaimedShares(m)'
  <2>1. f \in [Accounts -> Nat] /\ f[a] = shares
    BY <1>1, <1>2, BetSheets DEF TypeInv, UnclaimedShares, When
  <2>2. g \in [Accounts -> Nat] /\ g[a] = 0 /\ \A b \in Accounts \ {a} : g[b] = f[b]
    <3>1. g = [b \in Accounts |-> When(<<m, b>> \notin betClaimed', bets[<<m, w, b>>])]
      BY <1>2, <1>3 DEF UnclaimedShares, When
    <3>2. bets \in [Matches \X Seats \X Accounts -> Nat]
      BY DEF TypeInv, TypeOK
    <3> QED  BY <1>1, <1>2, <3>1, <3>2 DEF When, UnclaimedShares
  <2> HIDE DEF f, g
  <2>3. Total(g) = Total(f) - f[a] + g[a]
    BY <2>1, <2>2, TotalChange, FiniteAssumption
  <2>4. Total(f) = left
    BY <1>5 DEF f
  <2> QED  BY <1>1, <1>3, <2>1, <2>2, <2>3, <2>4 DEF g
<1>7. CASE shares = left
  <2>1. amount = money
    BY <1>7 DEF BetShare
  <2>2. account'[m].remainingBetShares = 0 /\ account'[m].remainingBetPayout = 0
    BY <1>1, <1>3, <1>7, <2>1
  <2>3. 0 * pay <= pool * 0
    BY <1>1
  <2> QED  BY <1>4, <1>6, <2>2, <2>3 DEF PayoutCovers
<1>8. CASE shares # left
  <2>1. amount = (shares * pay) \div pool
    BY <1>8 DEF BetShare, Payout, WinningPool
  <2> HIDE DEF w, shares, amount, left, money, pool, pay
  <2>2. (left - shares) * pay <= pool * (money - amount)
    BY <1>1, <1>2, <1>5, <2>1, ShareOfPayout
  <2>3. left - shares # 0
    BY <1>1, <1>8
  <2> QED  BY <1>3, <1>4, <1>6, <2>2, <2>3 DEF PayoutCovers
<1> QED  BY <1>7, <1>8

LEMMA PoolClaimBet ==
    ASSUME TypeInv, TypeInv', WinnerOK, PoolInv, NEW m \in Matches, NEW a \in Accounts,
           ClaimBet(m, a), NEW n \in Matches
    PROVE  PoolOf(n)'
<1>1. /\ account \in [Matches -> MatchAccount]
      /\ UNCHANGED <<bets, totalBets, outcomePool>>
      /\ betClaimed' = betClaimed \cup {<<m, a>>}
  BY DEF ClaimBet, TypeInv, TypeOK
<1>2. \/ ClaimBetPayout(m, a)
      \/ account' = account /\ Refunded(m)
  BY DEF ClaimBet, ClaimBetRefund
<1>3. /\ account'[n].betPool = account[n].betPool
      /\ account'[n].status = account[n].status
  BY <1>1, <1>2 DEF ClaimBetPayout, MatchAccount
<1>4. CASE n # m
  <2>1. account'[n] = account[n]
    BY <1>1, <1>2, <1>4 DEF ClaimBetPayout
  <2>2. SameBets(n) /\ SameClaims(n) /\ SameDecision(n)
    BY <1>1, <1>4, <2>1 DEF SameBets, SameClaims, SameDecision
  <2> QED  BY <2>2, PoolUndisturbed DEF PoolInv
<1>5. CASE n = m
  <2>1. BetsCounted(m)'
    BY <1>1, <1>3, <1>5, BetsKept DEF SameBets, PoolInv, PoolOf
  <2>2. NothingClaimed(m)'
    BY <1>2, <1>3, <1>5 DEF NothingClaimed, Undecided, Refunded, ClaimBetPayout
  <2>3. PayoutCovers(m)'
    <3>1. CASE account' = account /\ Refunded(m)
      BY <1>1, <3>1 DEF PayoutCovers, Refunded, WinningPool
    <3> QED  BY <1>2, <3>1, PoolClaimed
  <2> QED  BY <1>5, <2>1, <2>2, <2>3 DEF PoolOf
<1> QED  BY <1>4, <1>5

LEMMA PoolNext ==
    ASSUME TypeInv, TypeInv', WinnerOK, PoolInv, [Next]_vars PROVE PoolInv'
<1> SUFFICES ASSUME NEW n \in Matches PROVE PoolOf(n)'
  BY DEF PoolInv
<1>1. PoolOf(n)
  BY DEF PoolInv
<1>2. ASSUME NEW m \in Matches, NEW s \in Seats, NEW p \in Accounts,
             NEW key \in Keys \cup {p},
             \/ Stake(m, s, p, key)
             \/ ClaimSeatFor(m, s, p, key)
             \/ \E nonce \in Nonces :
                   \/ StakeWithAuthorization(m, s, p, key, nonce)
                   \/ RecoverAuthorizedStake(m, s, p, key, nonce)
      PROVE  PoolOf(n)'
  <2>1. key \in Accounts
    BY OfficerAssumption
  <2>2. Seat(m, s, p, key) /\ UNCHANGED betVars
    BY <1>2 DEF Stake, ClaimSeatFor, StakeWithAuthorization, RecoverAuthorizedStake
  <2> QED  BY <1>1, <2>1, <2>2, PoolSeat, PoolUndisturbed
<1>3. ASSUME NEW m \in Matches, NEW a \in Accounts, NEW x \in Amounts,
             FundBounty(m, a, x)
      PROVE  PoolOf(n)'
  <2>1. UNCHANGED betVars
    BY <1>3 DEF FundBounty
  <2> QED  BY <1>1, <1>3, <2>1, PoolSeat, PoolUndisturbed
<1>4. ASSUME NEW m \in Matches, Deposit(m) PROVE PoolOf(n)'
  BY <1>2, <1>3, <1>4, PoolBet DEF Deposit
<1>5. ASSUME NEW m \in Matches, Decide(m) PROVE PoolOf(n)'
  BY <1>1, <1>5, PoolStatus, PoolSettle, PoolUndisturbed DEF Decide
<1>6. ASSUME NEW m \in Matches, NEW a \in Accounts, Claim(m, a) PROVE PoolOf(n)'
  BY <1>1, <1>6, PoolStatus, PoolClaimBet, PoolUndisturbed DEF Claim
<1>7. ASSUME \/ Governance
             \/ \E t \in TokenIds, a \in Accounts : Withdraw(t, a)
             \/ Token
             \/ Tick
             \/ UNCHANGED vars
      PROVE  PoolOf(n)'
  <2>1. UNCHANGED betVars /\ account' = account
    BY <1>7 DEF Governance, SetToken, SetResolver, SetPaused, AcceptOwnership,
                notAdmin, Withdraw, Token, CancelAuthorization, DirectTransfer,
                Tick, vars
  <2> QED  BY <1>1, <2>1, PoolElsewhere, PoolUndisturbed
<1> QED  BY <1>4, <1>5, <1>6, <1>7 DEF Next

LEMMA PoolInit == Init => PoolInv
<1> SUFFICES ASSUME Init, NEW m \in Matches PROVE PoolOf(m)
  BY DEF PoolInv
<1>1. account[m] = NoMatch /\ betClaimed = {}
  BY DEF Init
<1>2. Total(BetsOf(m)) = 0
  <2>1. BetsOf(m) \in [Accounts -> Nat] /\ \A a \in Accounts : BetsOf(m)[a] = 0
    BY DEF Init, BetsOf
  <2> QED  BY <2>1, TotalZero, FiniteAssumption
<1>3. ASSUME NEW s \in Seats PROVE outcomePool[<<m, s>>] = Total(BetsOn(m, s))
  <2>1. BetsOn(m, s) \in [Accounts -> Nat] /\ \A a \in Accounts : BetsOn(m, s)[a] = 0
    BY DEF Init, BetsOn
  <2>2. outcomePool[<<m, s>>] = 0
    BY DEF Init
  <2> QED  BY <2>1, <2>2, TotalZero, FiniteAssumption
<1> QED  BY <1>1, <1>2, <1>3
         DEF NoMatch, PoolOf, BetsCounted, NothingClaimed, PayoutCovers

LEMMA Pooled == Spec => [](TypeInv /\ WinnerOK /\ PoolInv)
<1>1. TypeInv /\ TypeInv' /\ WinnerOK /\ PoolInv /\ [Next]_vars => PoolInv'
  BY PoolNext
<1> QED  BY <1>1, PoolInit, Typed, PTL DEF Spec

(***************************************************************************)
(* Nothing of a payout stays behind when the last winning share is claimed.*)
(***************************************************************************)
THEOREM PayoutsAreExhausted == Spec => []PayoutIsExhausted
<1>1. ASSUME PoolInv PROVE PayoutIsExhausted
  BY <1>1, RefundedWhen DEF PoolInv, PoolOf, PayoutCovers, PayoutIsExhausted
<1> QED  BY <1>1, Pooled, PTL

(***************************************************************************)
(* A winning bettor is owed at least the principal, and whoever claimed    *)
(* before, what is left of the payout covers the claim.                    *)
(***************************************************************************)
THEOREM SharesAreCovered == Spec => []EveryShareIsCovered
<1>1. ASSUME TypeInv, WinnerOK, PoolInv PROVE EveryShareIsCovered
  <2> SUFFICES ASSUME NEW m \in Matches, NEW a \in Accounts,
                      account[m].status = "Settled", ~Refunded(m),
                      UnclaimedShares(m)[a] # 0
               PROVE  /\ UnclaimedShares(m)[a] <= account[m].remainingBetShares
                      /\ UnclaimedShares(m)[a] <= BetShare(m, UnclaimedShares(m)[a])
                      /\ BetShare(m, UnclaimedShares(m)[a]) <= account[m].remainingBetPayout
    BY DEF EveryShareIsCovered
  <2> DEFINE shares == UnclaimedShares(m)[a]
             left == account[m].remainingBetShares
             money == account[m].remainingBetPayout
             pool == WinningPool(m)
             pay == Payout(m)
  <2>1. /\ pool # 0 /\ pool \in Nat /\ pay \in Nat /\ pool <= pay
        /\ left \in Nat /\ money \in Nat
    BY <1>1, PayoutType, RefundedWhen
  <2>2. /\ left = Total(UnclaimedShares(m)) /\ left * pay <= pool * money
    BY <1>1, <2>1 DEF PoolInv, PoolOf, PayoutCovers
  <2>3. shares \in Nat /\ shares <= left
    <3>1. UnclaimedShares(m) \in [Accounts -> Nat]
      BY <1>1, PayoutType, BetSheets DEF TypeInv
    <3> QED  BY <2>2, <3>1, TotalBounds, FiniteAssumption
  <2>4. BetShare(m, shares) = IF shares = left THEN money ELSE (shares * pay) \div pool
    BY DEF BetShare, Payout, WinningPool
  <2>5. left <= money
    <3> HIDE DEF left, money, pool, pay
    <3>1. left * pool <= left * pay /\ left * pool \in Nat /\ left * pay \in Nat
      BY <2>1, Scale
    <3>2. pool * left = left * pool /\ pool * money \in Nat
      BY <2>1
    <3>3. pool * left <= pool * money
      BY <2>2, <3>1, <3>2
    <3> QED  BY <2>1, <3>3, Cancel
  <2> HIDE DEF shares, left, money, pool, pay
  <2>6. shares <= (shares * pay) \div pool /\ (shares * pay) \div pool <= money
    BY <2>1, <2>2, <2>3, ShareOfPayout
  <2>7. shares <= BetShare(m, shares) /\ BetShare(m, shares) <= money
    BY <2>1, <2>3, <2>4, <2>5, <2>6
  <2> QED  BY <2>3, <2>7 DEF shares, left, money
<1> QED  BY <1>1, Pooled, PTL
-----------------------------------------------------------------------------
(***************************************************************************)
(* Theorems about the money of the escrow contract: to the last unit, and  *)
(* per token, it holds what it owes and what came in by mistake, for any   *)
(* matches, stakes, fees, royalties, bets and transfers.                   *)
(***************************************************************************)

(***************************************************************************)
(* The strengthening.  A void turns what a match owes from its two pools   *)
(* into single refunds, so the invariant says that the prize pool is what  *)
(* it would refund (PoolInv says it of the bets); a creation must not find *)
(* money in a match; and a nonce that the token has not used has neither   *)
(* brought nor backed anything.                                            *)
(***************************************************************************)
StakesCounted(m) ==
    account[m].status # "Voided" => account[m].prizePool = Total(Refundable(m))

Empty(m) ==
    account[m].status = "Absent" =>
        account[m].prizePool = 0 /\ account[m].betPool = 0

NoncesOK == \A x \in Authorizations : x \notin used => x \notin credited /\ arrived[x] = 0

MoneyInv ==
    /\ \A m \in Matches : StakesCounted(m) /\ Empty(m)
    /\ NoncesOK
    /\ Solvent

(***************************************************************************)
(* The sheets that Solvent adds up.                                        *)
(***************************************************************************)
Sheets ==
    /\ \A t \in TokenIds : /\ ClaimableIn(t) \in [Accounts -> Nat]
                           /\ LiabilityIn(t) \in [Matches -> Nat]
                           /\ StrayIn(t) \in [Accounts \X Nonces -> Nat]
                           /\ Total(ClaimableIn(t)) \in Nat
                           /\ Total(LiabilityIn(t)) \in Nat
                           /\ Total(StrayIn(t)) \in Nat
    /\ \A m \in Matches : /\ Liability(m) \in Nat
                          /\ Refundable(m) \in [Accounts -> Nat]
                          /\ UnclaimedBets(m) \in [Accounts -> Nat]
                          /\ Total(Refundable(m)) \in Nat
                          /\ Total(UnclaimedBets(m)) \in Nat

LEMMA PairsFinite == IsFiniteSet(Accounts \X Nonces)
BY FiniteAssumption, FS_Product

LEMMA SheetsTyped == TypeInv => Sheets
<1> SUFFICES ASSUME TypeInv PROVE Sheets
  OBVIOUS
<1>1. ASSUME NEW m \in Matches
      PROVE  /\ Liability(m) \in Nat
             /\ Refundable(m) \in [Accounts -> Nat]
             /\ UnclaimedBets(m) \in [Accounts -> Nat]
             /\ Total(Refundable(m)) \in Nat
             /\ Total(UnclaimedBets(m)) \in Nat
  <2>1. Refundable(m) \in [Accounts -> Nat]
    BY DEF Refundable, TypeInv, TypeOK
  <2>2. UnclaimedBets(m) \in [Accounts -> Nat]
    BY BetSheets DEF TypeInv
  <2>3. Total(Refundable(m)) \in Nat /\ Total(UnclaimedBets(m)) \in Nat
    BY <2>1, <2>2, TotalBounds, FiniteAssumption
  <2>4. /\ account[m].status \in Status /\ account[m].prizePool \in Nat
        /\ account[m].betPool \in Nat /\ account[m].remainingBetPayout \in Nat
    BY DEF TypeInv, TypeOK, MatchAccount
  <2>5. Liability(m) \in Nat
    BY <2>3, <2>4 DEF Liability, Status
  <2> QED  BY <2>1, <2>2, <2>3, <2>5
<1>2. ASSUME NEW t \in TokenIds
      PROVE  /\ ClaimableIn(t) \in [Accounts -> Nat]
             /\ LiabilityIn(t) \in [Matches -> Nat]
             /\ StrayIn(t) \in [Accounts \X Nonces -> Nat]
  <2>1. ClaimableIn(t) \in [Accounts -> Nat]
    BY DEF ClaimableIn, TypeInv, TypeOK
  <2>2. LiabilityIn(t) \in [Matches -> Nat]
    BY <1>1 DEF LiabilityIn, When
  <2>3. StrayIn(t) \in [Accounts \X Nonces -> Nat]
    <3>1. \A x \in Accounts \X Nonces : arrived[<<t, x[1], x[2]>>] \in Nat
      BY DEF TypeInv, TypeOK, Authorizations
    <3> QED  BY <3>1 DEF StrayIn, When
  <2> QED  BY <2>1, <2>2, <2>3
<1>3. \A t \in TokenIds : /\ Total(ClaimableIn(t)) \in Nat
                          /\ Total(LiabilityIn(t)) \in Nat
                          /\ Total(StrayIn(t)) \in Nat
  BY <1>2, TotalBounds, FiniteAssumption, PairsFinite
<1> QED  BY <1>1, <1>2, <1>3 DEF Sheets

\* The same of the state after a step.
LEMMA SheetsTypedNext == TypeInv' => Sheets'
BY SheetsTyped, PTL

(***************************************************************************)
(* A match that a call does not concern owes what it owed.                 *)
(***************************************************************************)
Apart(n) ==
    /\ account'[n] = account[n]
    /\ \A a \in Accounts : /\ refundable'[<<n, a>>] = refundable[<<n, a>>]
                           /\ totalBets'[<<n, a>>] = totalBets[<<n, a>>]
                           /\ <<n, a>> \in betClaimed' <=> <<n, a>> \in betClaimed
    /\ \A s \in Seats : outcomePool'[<<n, s>>] = outcomePool[<<n, s>>]

LEMMA ApartOwes ==
    ASSUME WinnerOK, NEW n \in Matches, Apart(n)
    PROVE  /\ Liability(n)' = Liability(n)
           /\ Refundable(n)' = Refundable(n)
           /\ \A t \in TokenIds : LiabilityIn(t)'[n] = LiabilityIn(t)[n]
<1>1. Refundable(n)' = Refundable(n) /\ UnclaimedBets(n)' = UnclaimedBets(n)
  BY DEF Apart, Refundable, UnclaimedBets, When
<1>2. Refunded(n)' <=> Refunded(n)
  BY DEF Apart, Refunded, WinnerOK
<1>3. Liability(n)' = Liability(n)
  BY <1>1, <1>2 DEF Apart, Liability
<1>4. \A t \in TokenIds : LiabilityIn(t)'[n] = LiabilityIn(t)[n]
  BY <1>3 DEF Apart, LiabilityIn, When
<1> QED  BY <1>1, <1>3, <1>4

(***************************************************************************)
(* A call on one match keeps the contract solvent when what it adds to the *)
(* balance is what it adds to the debts of that match, to the claimable    *)
(* amounts and to the stray transfers.                                     *)
(***************************************************************************)
LEMMA BooksBalance ==
    ASSUME NEW b1 \in Nat, NEW b2 \in Nat, NEW c1 \in Nat, NEW c2 \in Nat,
           NEW l1 \in Nat, NEW l2 \in Nat, NEW s1 \in Nat, NEW s2 \in Nat,
           NEW d1 \in Nat, NEW d2 \in Nat,
           b1 = c1 + l1 + s1, l2 = l1 - d1 + d2,
           b2 - b1 = (d2 - d1) + (c2 - c1) + (s2 - s1)
    PROVE  b2 = c2 + l2 + s2
OBVIOUS

LEMMA CallBalances ==
    ASSUME Sheets, Sheets', balance \in [TokenIds -> Nat], balance' \in [TokenIds -> Nat],
           WinnerOK, Solvent, NEW m \in Matches, \A n \in Matches \ {m} : Apart(n),
           \A t \in TokenIds :
               balance'[t] - balance[t] =
                   (LiabilityIn(t)'[m] - LiabilityIn(t)[m])
                 + (Total(ClaimableIn(t)') - Total(ClaimableIn(t)))
                 + (Total(StrayIn(t)') - Total(StrayIn(t)))
    PROVE  Solvent'
<1> SUFFICES ASSUME NEW t \in TokenIds
             PROVE  balance'[t] = Total(ClaimableIn(t)') + Total(LiabilityIn(t)')
                                    + Total(StrayIn(t)')
  BY DEF Solvent
<1> DEFINE f == LiabilityIn(t)
           g == LiabilityIn(t)'
<1>1. f \in [Matches -> Nat] /\ g \in [Matches -> Nat]
  BY DEF Sheets
<1>2. \A n \in Matches \ {m} : g[n] = f[n]
  BY ApartOwes
<1>3. /\ balance[t] = Total(ClaimableIn(t)) + Total(f) + Total(StrayIn(t))
      /\ balance'[t] - balance[t] = (g[m] - f[m])
                 + (Total(ClaimableIn(t)') - Total(ClaimableIn(t)))
                 + (Total(StrayIn(t)') - Total(StrayIn(t)))
  BY DEF Solvent
<1>4. /\ Total(ClaimableIn(t)) \in Nat /\ Total(ClaimableIn(t)') \in Nat
      /\ Total(StrayIn(t)) \in Nat /\ Total(StrayIn(t)') \in Nat
      /\ Total(f) \in Nat /\ Total(g) \in Nat
      /\ balance[t] \in Nat /\ balance'[t] \in Nat
  BY DEF Sheets
<1> HIDE DEF f, g
<1>5. Total(g) = Total(f) - f[m] + g[m]
  BY <1>1, <1>2, TotalChange, FiniteAssumption
<1>6. f[m] \in Nat /\ g[m] \in Nat
  BY <1>1
<1>7. balance'[t] = Total(ClaimableIn(t)') + Total(g) + Total(StrayIn(t)')
  BY <1>3, <1>4, <1>5, <1>6, BooksBalance
<1> QED  BY <1>7 DEF g

\* What is left to show of a call on match m.
LEMMA MoneyCall ==
    ASSUME WinnerOK, MoneyInv, NEW m \in Matches, \A n \in Matches \ {m} : Apart(n),
           StakesCounted(m)', Empty(m)', NoncesOK', Solvent'
    PROVE  MoneyInv'
<1> SUFFICES ASSUME NEW n \in Matches PROVE StakesCounted(n)' /\ Empty(n)'
  BY DEF MoneyInv
<1>1. CASE n = m
  BY <1>1
<1>2. CASE n # m
  <2>1. account'[n] = account[n] /\ Refundable(n)' = Refundable(n)
    BY <1>2, ApartOwes DEF Apart
  <2> QED  BY <2>1 DEF MoneyInv, StakesCounted, Empty
<1> QED  BY <1>1, <1>2

(***************************************************************************)
(* What a match owes it owes in the token of its terms.                    *)
(***************************************************************************)
LEMMA DebtChange ==
    ASSUME Sheets, Sheets', NEW m \in Matches, NEW t \in TokenIds,
           account[m].status # "Absent", account'[m].status # "Absent",
           account'[m].terms = account[m].terms
    PROVE  LiabilityIn(t)'[m] - LiabilityIn(t)[m] =
               IF t = account[m].terms.token THEN Liability(m)' - Liability(m) ELSE 0
<1>1. /\ LiabilityIn(t)[m] = IF t = account[m].terms.token THEN Liability(m) ELSE 0
      /\ LiabilityIn(t)'[m] = IF t = account[m].terms.token THEN Liability(m)' ELSE 0
  BY DEF LiabilityIn, When
<1>2. Liability(m) \in Nat /\ Liability(m)' \in Nat
  BY DEF Sheets
<1> QED  BY <1>1, <1>2

\* A call that moves x units of its token, and changes debts of its match alone.
LEMMA PlainCall ==
    ASSUME TypeInv, TypeInv', WinnerOK, MoneyInv, NEW m \in Matches,
           \A n \in Matches \ {m} : Apart(n),
           account[m].status # "Absent", account'[m].status # "Absent",
           account'[m].terms = account[m].terms,
           StakesCounted(m)', NoncesOK',
           NEW x \in Int, Liability(m)' = Liability(m) + x,
           \A t \in TokenIds :
               /\ balance'[t] = balance[t] + IF t = account[m].terms.token THEN x ELSE 0
               /\ ClaimableIn(t)' = ClaimableIn(t)
               /\ StrayIn(t)' = StrayIn(t)
    PROVE  MoneyInv'
<1>1. Sheets /\ Sheets'
  BY SheetsTyped, SheetsTypedNext
<1>2. balance \in [TokenIds -> Nat] /\ balance' \in [TokenIds -> Nat]
  BY DEF TypeInv, TypeOK
<1>3. ASSUME NEW t \in TokenIds
      PROVE  balance'[t] - balance[t] =
                   (LiabilityIn(t)'[m] - LiabilityIn(t)[m])
                 + (Total(ClaimableIn(t)') - Total(ClaimableIn(t)))
                 + (Total(StrayIn(t)') - Total(StrayIn(t)))
  <2> DEFINE d == IF t = account[m].terms.token THEN x ELSE 0
  <2>1. LiabilityIn(t)'[m] - LiabilityIn(t)[m] = d
    <3>1. Liability(m) \in Nat /\ Liability(m)' - Liability(m) = x
      BY <1>1 DEF Sheets
    <3> QED  BY <1>1, <3>1, DebtChange
  <2>2. /\ Total(ClaimableIn(t)') - Total(ClaimableIn(t)) = 0
        /\ Total(StrayIn(t)') - Total(StrayIn(t)) = 0
    BY <1>1 DEF Sheets
  <2>3. balance[t] \in Nat /\ balance'[t] = balance[t] + d /\ d \in Int
    BY <1>2
  <2> HIDE DEF d
  <2> QED  BY <2>1, <2>2, <2>3
<1>4. Solvent'
  BY <1>1, <1>2, <1>3, CallBalances DEF MoneyInv
<1>5. Empty(m)'
  BY DEF Empty
<1> QED  BY <1>4, <1>5, MoneyCall

\* Sheets of what a call does not touch.
LEMMA SameSheets ==
    ASSUME NEW t \in TokenIds
    PROVE  /\ UNCHANGED claimable => ClaimableIn(t)' = ClaimableIn(t)
           /\ UNCHANGED <<credited, arrived>> => StrayIn(t)' = StrayIn(t)
BY DEF ClaimableIn, StrayIn, When

LEMMA SameNonces ==
    ASSUME MoneyInv, UNCHANGED tokenVars PROVE NoncesOK'
BY DEF MoneyInv, NoncesOK, tokenVars

(***************************************************************************)
(* A refund sheet grows by what one account pays in.                       *)
(***************************************************************************)
LEMMA RefundGrows ==
    ASSUME TypeInv, TypeInv', NEW m \in Matches, NEW p \in Accounts, NEW x \in Nat,
           refundable' = [refundable EXCEPT ![<<m, p>>] = @ + x]
    PROVE  Total(Refundable(m)') = Total(Refundable(m)) + x
<1>1. Refundable(m) \in [Accounts -> Nat] /\ Refundable(m)' \in [Accounts -> Nat]
  BY SheetsTyped, SheetsTypedNext DEF Sheets
<1>2. /\ \A a \in Accounts \ {p} : Refundable(m)'[a] = Refundable(m)[a]
      /\ Refundable(m)'[p] = Refundable(m)[p] + x
  BY DEF Refundable, TypeInv, TypeOK
<1>3. Total(Refundable(m)') = Total(Refundable(m)) - Refundable(m)[p] + Refundable(m)'[p]
  BY <1>1, <1>2, TotalChange, FiniteAssumption
<1>4. Total(Refundable(m)) \in Nat /\ Refundable(m)[p] \in Nat
  BY <1>1, TotalBounds, FiniteAssumption
<1> QED  BY <1>2, <1>3, <1>4

(***************************************************************************)
(* Deposits.                                                               *)
(***************************************************************************)
LEMMA SeatBooks ==
    ASSUME TypeInv, TypeInv', MoneyInv, NEW m \in Matches, NEW s \in Seats,
           NEW p \in Accounts, NEW key, account[m].status = "Funding",
           Seat(m, s, p, key), UNCHANGED betVars
    PROVE  /\ \A n \in Matches \ {m} : Apart(n)
           /\ account'[m].status = "Funding" /\ account'[m].terms = account[m].terms
           /\ account[m].terms.stake \in Nat /\ account[m].terms.token \in TokenIds
           /\ Liability(m)' = Liability(m) + account[m].terms.stake
           /\ StakesCounted(m)'
<1> DEFINE x == account[m].terms.stake
<1>1. /\ account \in [Matches -> MatchAccount]
      /\ refundable \in [Matches \X Accounts -> Nat]
  BY DEF TypeInv, TypeOK
<1>2. x \in Nat /\ account[m].terms.token \in TokenIds
  BY DEF TypeInv, TermsOK, Terms
<1>3. /\ account' = [account EXCEPT ![m].paidSeats = @ + 1, ![m].prizePool = @ + x]
      /\ refundable' = [refundable EXCEPT ![<<m, p>>] = @ + x]
  BY DEF Seat
<1> HIDE DEF x
<1>4. /\ account'[m].status = "Funding" /\ account'[m].terms = account[m].terms
      /\ account'[m].betPool = account[m].betPool
      /\ account'[m].prizePool = account[m].prizePool + x
  BY <1>1, <1>3 DEF MatchAccount
<1>5. \A n \in Matches \ {m} : Apart(n)
  BY <1>1, <1>3 DEF Apart, betVars
<1>6. account[m].prizePool \in Nat /\ account[m].betPool \in Nat
  BY <1>1 DEF MatchAccount
<1>7. Liability(m)' = Liability(m) + x
  BY <1>2, <1>4, <1>6 DEF Liability
<1>8. StakesCounted(m)'
  BY <1>2, <1>3, <1>4, RefundGrows DEF MoneyInv, StakesCounted
<1> QED  BY <1>2, <1>4, <1>5, <1>7, <1>8 DEF x

\* stake, claimSeatFor and stakeWithAuthorization: the stake comes in.
LEMMA MoneyStake ==
    ASSUME TypeInv, TypeInv', WinnerOK, MoneyInv, NEW m \in Matches, NEW s \in Seats,
           NEW p \in Accounts, NEW key,
           \/ Stake(m, s, p, key)
           \/ ClaimSeatFor(m, s, p, key)
           \/ \E nonce \in Nonces : StakeWithAuthorization(m, s, p, key, nonce)
    PROVE  MoneyInv'
<1> DEFINE x == account[m].terms.stake
           token == account[m].terms.token
<1>1. account[m].status = "Funding" /\ Seat(m, s, p, key) /\ UNCHANGED betVars
  BY DEF Stake, ClaimSeatFor, StakeWithAuthorization, AuthorizedEntry, Funding
<1>2. /\ \A n \in Matches \ {m} : Apart(n)
      /\ account'[m].status = "Funding" /\ account'[m].terms = account[m].terms
      /\ x \in Nat /\ token \in TokenIds
      /\ Liability(m)' = Liability(m) + x
      /\ StakesCounted(m)'
  BY <1>1, SeatBooks
<1>3. balance \in [TokenIds -> Nat]
  BY DEF TypeInv, TypeOK
<1>4. \A t \in TokenIds : balance'[t] = balance[t] + IF t = token THEN x ELSE 0
  <2>1. CASE balance' = [balance EXCEPT ![token] = @ + x]
    BY <1>2, <1>3, <2>1
  <2>2. CASE x = 0 /\ balance' = balance
    BY <1>2, <1>3, <2>2
  <2> QED  BY <2>1, <2>2 DEF Stake, ClaimSeatFor, StakeWithAuthorization
<1>5. \A t \in TokenIds : ClaimableIn(t)' = ClaimableIn(t)
  BY SameSheets DEF Stake, ClaimSeatFor, StakeWithAuthorization
<1>6. (\A t \in TokenIds : StrayIn(t)' = StrayIn(t)) /\ NoncesOK'
  <2>1. CASE Stake(m, s, p, key) \/ ClaimSeatFor(m, s, p, key)
    <3>1. UNCHANGED tokenVars
      BY <2>1 DEF Stake, ClaimSeatFor
    <3> QED  BY <3>1, SameSheets, SameNonces DEF tokenVars
  <2>2. ASSUME NEW nonce \in Nonces, StakeWithAuthorization(m, s, p, key, nonce)
        PROVE  (\A t \in TokenIds : StrayIn(t)' = StrayIn(t)) /\ NoncesOK'
    <3> DEFINE auth == <<token, p, nonce>>
    <3>1. /\ auth \in Authorizations /\ auth \notin used /\ used' = used \cup {auth}
          /\ credited' = credited \cup {auth} /\ arrived' = arrived
      BY <1>2, <2>2 DEF StakeWithAuthorization, AuthorizedEntry, Authorizations
    <3>2. arrived[auth] = 0 /\ NoncesOK
      BY <3>1 DEF MoneyInv, NoncesOK
    <3>3. NoncesOK'
      BY <3>1, <3>2 DEF NoncesOK
    <3>4. ASSUME NEW t \in TokenIds PROVE StrayIn(t)' = StrayIn(t)
      <4>1. \A y \in Accounts \X Nonces :
                When(<<t, y[1], y[2]>> \notin credited', arrived[<<t, y[1], y[2]>>]) =
                When(<<t, y[1], y[2]>> \notin credited, arrived[<<t, y[1], y[2]>>])
        BY <3>1, <3>2 DEF When
      <4> QED  BY <3>1, <4>1 DEF StrayIn
    <3> QED  BY <3>3, <3>4
  <2> QED  BY <2>1, <2>2
<1> HIDE DEF x, token
<1> QED  BY <1>1, <1>2, <1>4, <1>5, <1>6, PlainCall DEF x, token

\* recoverAuthorizedStake: the stake came in before; it strays no longer.
LEMMA MoneyRecover ==
    ASSUME TypeInv, TypeInv', WinnerOK, MoneyInv, NEW m \in Matches, NEW s \in Seats,
           NEW p \in Accounts, NEW key, NEW nonce \in Nonces,
           RecoverAuthorizedStake(m, s, p, key, nonce)
    PROVE  MoneyInv'
<1> DEFINE x == account[m].terms.stake
           token == account[m].terms.token
           auth == <<token, p, nonce>>
<1>1. /\ account[m].status = "Funding" /\ Seat(m, s, p, key)
      /\ auth \notin credited /\ credited' = credited \cup {auth}
      /\ auth \in used /\ arrived[auth] = x
      /\ UNCHANGED <<betVars, claimable, used, arrived, balance>>
  BY DEF RecoverAuthorizedStake, AuthorizedEntry, Funding
<1>2. /\ \A n \in Matches \ {m} : Apart(n)
      /\ account'[m].status = "Funding" /\ account'[m].terms = account[m].terms
      /\ x \in Nat /\ token \in TokenIds
      /\ Liability(m)' = Liability(m) + x
      /\ StakesCounted(m)'
  BY <1>1, SeatBooks
<1>3. Sheets /\ Sheets' /\ balance \in [TokenIds -> Nat]
  BY SheetsTyped, SheetsTypedNext DEF TypeInv, TypeOK
<1>4. NoncesOK'
  BY <1>1 DEF MoneyInv, NoncesOK
<1>5. ASSUME NEW t \in TokenIds
      PROVE  Total(StrayIn(t)') - Total(StrayIn(t)) = IF t = token THEN -x ELSE 0
  <2> DEFINE f == StrayIn(t)
             g == StrayIn(t)'
             y == <<p, nonce>>
  <2>1. f \in [Accounts \X Nonces -> Nat] /\ g \in [Accounts \X Nonces -> Nat]
    BY <1>3 DEF Sheets
  <2>2. Total(f) \in Nat /\ Total(g) \in Nat
    BY <1>3 DEF Sheets
  <2>3. CASE t = token
    <3>1. f[y] = x /\ g[y] = 0
      BY <1>1, <2>3 DEF StrayIn, When
    <3>2. \A z \in (Accounts \X Nonces) \ {y} : g[z] = f[z]
      BY <1>1 DEF StrayIn, When
    <3> HIDE DEF f, g, y
    <3>3. y \in Accounts \X Nonces
      BY DEF y
    <3>4. Total(g) = Total(f) - f[y] + g[y]
      BY <2>1, <3>2, <3>3, TotalChange, PairsFinite
    <3>5. Total(g) - Total(f) = -x
      BY <1>2, <2>2, <3>1, <3>4
    <3> QED  BY <2>3, <3>5 DEF f, g
  <2>4. CASE t # token
    <3>1. g = f
      BY <1>1, <2>4 DEF StrayIn, When
    <3> HIDE DEF f, g
    <3>2. Total(g) - Total(f) = 0
      BY <2>2, <3>1
    <3> QED  BY <2>4, <3>2 DEF f, g
  <2> QED  BY <2>3, <2>4
<1>6. ASSUME NEW t \in TokenIds
      PROVE  balance'[t] - balance[t] =
                   (LiabilityIn(t)'[m] - LiabilityIn(t)[m])
                 + (Total(ClaimableIn(t)') - Total(ClaimableIn(t)))
                 + (Total(StrayIn(t)') - Total(StrayIn(t)))
  <2>1. LiabilityIn(t)'[m] - LiabilityIn(t)[m] = IF t = token THEN x ELSE 0
    <3>1. Liability(m) \in Nat /\ Liability(m)' - Liability(m) = x
      BY <1>2, <1>3 DEF Sheets
    <3> QED  BY <1>1, <1>2, <1>3, <3>1, DebtChange
  <2>2. Total(ClaimableIn(t)') - Total(ClaimableIn(t)) = 0
    BY <1>1, <1>3, SameSheets DEF Sheets
  <2>3. balance'[t] - balance[t] = 0
    BY <1>1, <1>3
  <2> HIDE DEF x, token
  <2> QED  BY <1>2, <1>5, <2>1, <2>2, <2>3
<1>7. Solvent'
  BY <1>1, <1>2, <1>3, <1>6, CallBalances DEF MoneyInv
<1>8. Empty(m)'
  BY <1>2 DEF Empty
<1> QED  BY <1>2, <1>4, <1>7, <1>8, MoneyCall

LEMMA MoneyBounty ==
    ASSUME TypeInv, TypeInv', WinnerOK, MoneyInv, NEW m \in Matches,
           NEW p \in Accounts, NEW x \in Amounts, FundBounty(m, p, x)
    PROVE  MoneyInv'
<1> DEFINE token == account[m].terms.token
<1>1. /\ account \in [Matches -> MatchAccount]
      /\ refundable \in [Matches \X Accounts -> Nat]
      /\ balance \in [TokenIds -> Nat] /\ x \in Nat
  BY ChoiceAssumption DEF TypeInv, TypeOK
<1>2. /\ account[m].status = "Funding" /\ UNCHANGED <<betVars, claimable, tokenVars>>
      /\ account' = [account EXCEPT ![m].prizePool = @ + x]
      /\ refundable' = [refundable EXCEPT ![<<m, p>>] = @ + x]
      /\ balance' = [balance EXCEPT ![token] = @ + x]
  BY DEF FundBounty, Funding
<1>3. token \in TokenIds
  BY <1>2 DEF TypeInv, TermsOK, Terms
<1>4. /\ account'[m].status = "Funding" /\ account'[m].terms = account[m].terms
      /\ account'[m].betPool = account[m].betPool
      /\ account'[m].prizePool = account[m].prizePool + x
      /\ account[m].prizePool \in Nat /\ account[m].betPool \in Nat
  BY <1>1, <1>2 DEF MatchAccount
<1>5. \A n \in Matches \ {m} : Apart(n)
  BY <1>1, <1>2 DEF Apart, betVars
<1>6. Liability(m)' = Liability(m) + x
  BY <1>1, <1>2, <1>4 DEF Liability
<1>7. StakesCounted(m)'
  BY <1>1, <1>2, <1>4, RefundGrows DEF MoneyInv, StakesCounted
<1>8. /\ NoncesOK'
      /\ \A t \in TokenIds : ClaimableIn(t)' = ClaimableIn(t) /\ StrayIn(t)' = StrayIn(t)
  BY <1>2, SameNonces, SameSheets DEF tokenVars
<1>9. \A t \in TokenIds : balance'[t] = balance[t] + IF t = token THEN x ELSE 0
  BY <1>1, <1>2, <1>3
<1> HIDE DEF token
<1> QED  BY <1>1, <1>2, <1>4, <1>5, <1>6, <1>7, <1>8, <1>9, PlainCall DEF token

LEMMA MoneyBet ==
    ASSUME TypeInv, TypeInv', WinnerOK, MoneyInv, NEW m \in Matches, NEW s \in Seats,
           NEW p \in Accounts, NEW x \in Amounts, PlaceBet(m, s, p, x)
    PROVE  MoneyInv'
<1> DEFINE token == account[m].terms.token
<1>1. /\ account \in [Matches -> MatchAccount]
      /\ totalBets \in [Matches \X Accounts -> Nat]
      /\ outcomePool \in [Matches \X Seats -> Nat]
      /\ balance \in [TokenIds -> Nat] /\ x \in Nat
  BY ChoiceAssumption DEF TypeInv, TypeOK
<1>2. /\ account[m].status = "Funding"
      /\ UNCHANGED <<seatVars, betClaimed, claimable, tokenVars>>
      /\ account' = [account EXCEPT ![m].betPool = @ + x]
      /\ totalBets' = [totalBets EXCEPT ![<<m, p>>] = @ + x]
      /\ outcomePool' = [outcomePool EXCEPT ![<<m, s>>] = @ + x]
      /\ balance' = [balance EXCEPT ![token] = @ + x]
  BY DEF PlaceBet, Funding
<1>3. token \in TokenIds
  BY <1>2 DEF TypeInv, TermsOK, Terms
<1>4. /\ account'[m].status = "Funding" /\ account'[m].terms = account[m].terms
      /\ account'[m].prizePool = account[m].prizePool
      /\ account'[m].betPool = account[m].betPool + x
      /\ account[m].prizePool \in Nat /\ account[m].betPool \in Nat
  BY <1>1, <1>2 DEF MatchAccount
<1>5. \A n \in Matches \ {m} : Apart(n)
  BY <1>1, <1>2 DEF Apart, seatVars
<1>6. Liability(m)' = Liability(m) + x
  BY <1>1, <1>2, <1>4 DEF Liability
<1>7. StakesCounted(m)'
  <2>1. Refundable(m)' = Refundable(m)
    BY <1>2 DEF Refundable, seatVars
  <2> QED  BY <1>2, <1>4, <2>1 DEF MoneyInv, StakesCounted
<1>8. /\ NoncesOK'
      /\ \A t \in TokenIds : ClaimableIn(t)' = ClaimableIn(t) /\ StrayIn(t)' = StrayIn(t)
  BY <1>2, SameNonces, SameSheets DEF tokenVars
<1>9. \A t \in TokenIds : balance'[t] = balance[t] + IF t = token THEN x ELSE 0
  BY <1>1, <1>2, <1>3
<1> HIDE DEF token
<1>10. x \in Int /\ account[m].status # "Absent" /\ account'[m].status # "Absent"
  BY <1>1, <1>2, <1>4
<1> QED  BY <1>4, <1>5, <1>6, <1>7, <1>8, <1>9, <1>10, PlainCall DEF token

(***************************************************************************)
(* Calls that move no money: the books and sheets stay as they are.        *)
(***************************************************************************)
LEMMA MoneyCreate ==
    ASSUME TypeInv, TypeInv', WinnerOK, MoneyInv, NEW m \in Matches,
           NEW terms \in TermsChoices, CreateMatch(m, terms)
    PROVE  MoneyInv'
<1>1. /\ account \in [Matches -> MatchAccount] /\ balance \in [TokenIds -> Nat]
      /\ account' = [account EXCEPT ![m].terms = terms, ![m].status = "Funding"]
      /\ account[m].status = "Absent"
      /\ UNCHANGED <<refundable, betVars, claimable, tokenVars, balance>>
  BY DEF CreateMatch, TypeInv, TypeOK
<1>2. /\ account'[m].status = "Funding"
      /\ account'[m].prizePool = 0 /\ account'[m].betPool = 0
      /\ account[m].prizePool = 0
  BY <1>1 DEF MatchAccount, MoneyInv, Empty
<1>3. \A n \in Matches \ {m} : Apart(n)
  BY <1>1 DEF Apart, betVars
<1>4. Refundable(m)' = Refundable(m)
  BY <1>1 DEF Refundable
<1>5. StakesCounted(m)' /\ Empty(m)'
  BY <1>1, <1>2, <1>4 DEF MoneyInv, StakesCounted, Empty
<1>6. /\ NoncesOK'
      /\ \A t \in TokenIds : ClaimableIn(t)' = ClaimableIn(t) /\ StrayIn(t)' = StrayIn(t)
  BY <1>1, SameNonces, SameSheets DEF tokenVars
<1>7. Sheets /\ Sheets'
  BY SheetsTyped, SheetsTypedNext
<1>8. ASSUME NEW t \in TokenIds
      PROVE  balance'[t] - balance[t] =
                   (LiabilityIn(t)'[m] - LiabilityIn(t)[m])
                 + (Total(ClaimableIn(t)') - Total(ClaimableIn(t)))
                 + (Total(StrayIn(t)') - Total(StrayIn(t)))
  <2>1. LiabilityIn(t)[m] = 0
    BY <1>1 DEF LiabilityIn, When
  <2>2. LiabilityIn(t)'[m] = 0
    <3>1. Liability(m)' = 0
      BY <1>2 DEF Liability
    <3> QED  BY <3>1 DEF LiabilityIn, When
  <2>3. /\ Total(ClaimableIn(t)') - Total(ClaimableIn(t)) = 0
        /\ Total(StrayIn(t)') - Total(StrayIn(t)) = 0
    BY <1>6, <1>7 DEF Sheets
  <2>4. balance'[t] - balance[t] = 0
    BY <1>1
  <2> QED  BY <2>1, <2>2, <2>3, <2>4
<1>9. balance \in [TokenIds -> Nat] /\ balance' \in [TokenIds -> Nat] /\ Solvent
  BY <1>1 DEF MoneyInv
<1>10. Solvent'
  BY <1>3, <1>7, <1>8, <1>9, CallBalances
<1> QED  BY <1>3, <1>5, <1>6, <1>10, MoneyCall

\* lock; and voidMatch, which turns the two pools into refunds.
LEMMA MoneyStatus ==
    ASSUME TypeInv, TypeInv', WinnerOK, PoolInv, MoneyInv, NEW m \in Matches,
           Lock(m) \/ \E caller \in Accounts : VoidMatch(m, caller)
    PROVE  MoneyInv'
<1>1. account \in [Matches -> MatchAccount] /\ balance \in [TokenIds -> Nat]
  BY DEF TypeInv, TypeOK
<1>2. PICK new \in {"Locked", "Voided"} :
          /\ account[m].status \in {"Funding", "Locked"}
          /\ account' = [account EXCEPT ![m].status = new]
          /\ UNCHANGED <<seatVars, betVars, claimable, tokenVars, balance>>
  BY DEF Lock, VoidMatch
<1>3. /\ account'[m].status = new /\ account'[m].terms = account[m].terms
      /\ account'[m].betPool = account[m].betPool
      /\ account'[m].prizePool = account[m].prizePool
      /\ account[m].prizePool \in Nat /\ account[m].betPool \in Nat
  BY <1>1, <1>2 DEF MatchAccount
<1>4. \A n \in Matches \ {m} : Apart(n)
  BY <1>1, <1>2 DEF Apart, betVars, seatVars
<1>5. Refundable(m)' = Refundable(m) /\ UnclaimedBets(m)' = UnclaimedBets(m)
  BY <1>2 DEF Refundable, UnclaimedBets, When, seatVars, betVars
<1>6. account[m].prizePool = Total(Refundable(m))
  BY <1>2 DEF MoneyInv, StakesCounted
<1>7. account[m].betPool = Total(UnclaimedBets(m))
  <2>1. \A a \in Accounts : <<m, a>> \notin betClaimed
    BY <1>2 DEF PoolInv, PoolOf, NothingClaimed, Undecided
  <2>2. UnclaimedBets(m) = BetsOf(m)
    BY <2>1 DEF UnclaimedBets, BetsOf, When
  <2> QED  BY <2>2 DEF PoolInv, PoolOf, BetsCounted
<1>8. Liability(m)' = Liability(m) + 0
  <2>1. Liability(m) = account[m].prizePool + account[m].betPool
    BY <1>2 DEF Liability
  <2>2. Liability(m)' = account[m].prizePool + account[m].betPool
    BY <1>3, <1>5, <1>6, <1>7 DEF Liability
  <2> QED  BY <1>3, <2>1, <2>2
<1>9. StakesCounted(m)'
  BY <1>3, <1>5, <1>6 DEF StakesCounted
<1>10. /\ NoncesOK'
       /\ \A t \in TokenIds : ClaimableIn(t)' = ClaimableIn(t) /\ StrayIn(t)' = StrayIn(t)
  BY <1>2, SameNonces, SameSheets DEF tokenVars
<1>11. \A t \in TokenIds :
           balance'[t] = balance[t] + IF t = account[m].terms.token THEN 0 ELSE 0
  BY <1>1, <1>2
<1> QED  BY <1>2, <1>3, <1>4, <1>8, <1>9, <1>10, <1>11, PlainCall

(***************************************************************************)
(* Settlement: what it credits to the winner, the creators and the         *)
(* treasury is the prize pool and the fee on the bets, to the last unit.   *)
(***************************************************************************)
LEMMA OneHolder ==
    ASSUME NEW h \in Accounts, NEW x \in Nat
    PROVE  Total([a \in Accounts |-> When(a = h, x)]) = x
<1> DEFINE z == [a \in Accounts |-> 0]
           f == [a \in Accounts |-> When(a = h, x)]
<1>1. /\ z \in [Accounts -> Nat] /\ f \in [Accounts -> Nat]
      /\ z[h] = 0 /\ f[h] = x /\ \A a \in Accounts \ {h} : f[a] = z[a]
  BY DEF When
<1>2. Total(z) = 0
  BY TotalZero, FiniteAssumption
<1> HIDE DEF z, f
<1>3. Total(f) = Total(z) - z[h] + f[h]
  BY <1>1, TotalChange, FiniteAssumption
<1>4. Total(f) = x
  BY <1>1, <1>2, <1>3
<1> QED  BY <1>4 DEF f

LEMMA CreditsPaid ==
    ASSUME TypeInv, NEW m \in Matches, NEW w \in Seats, account[m].status = "Locked",
           recipient[<<m, w>>] # NoOne, Total(Royalties(m, w)) <= CreatorFee(m, w)
    PROVE  /\ [a \in Accounts |-> Credit(m, w, a)] \in [Accounts -> Nat]
           /\ Total([a \in Accounts |-> Credit(m, w, a)]) =
                  account[m].prizePool + BetFee(m, w)
<1> DEFINE t == account[m].terms
           prize == account[m].prizePool - PrizeFee(m)
           royal == Total(Royalties(m, w))
           rest == CreatorFee(m, w) - royal
           fees == PrizeFee(m) + BetFee(m, w) - CreatorFee(m, w)
           toWinner == [a \in Accounts |-> When(a = recipient[<<m, w>>], prize)]
           toCreator == [a \in Accounts |-> When(a = t.creator, rest)]
           toTreasury == [a \in Accounts |-> When(a = t.treasury, fees)]
           won == [a \in Accounts |-> toWinner[a] + Royalties(m, w)[a]]
           made == [a \in Accounts |-> won[a] + toCreator[a]]
           all == [a \in Accounts |-> Credit(m, w, a)]
<1>1. /\ PrizeFee(m) \in Nat /\ PrizeFee(m) <= account[m].prizePool
      /\ BetFee(m, w) \in Nat
      /\ CreatorFee(m, w) \in Nat
      /\ CreatorFee(m, w) <= PrizeFee(m) + BetFee(m, w)
      /\ t.creator = NoOne => CreatorFee(m, w) = 0
      /\ Royalties(m, w) \in [Accounts -> Nat]
  BY SettleAmounts
<1>2. royal \in Nat /\ royal <= CreatorFee(m, w)
  BY <1>1, TotalBounds, FiniteAssumption
<1>3. account[m].prizePool \in Nat
  BY DEF TypeInv, TypeOK, MatchAccount
<1>4. prize \in Nat /\ rest \in Nat /\ fees \in Nat
  BY <1>1, <1>2, <1>3
<1>5. /\ t.creator \in Accounts \cup {NoOne} /\ t.treasury \in Accounts
      /\ recipient[<<m, w>>] \in Accounts
  BY DEF TypeInv, TypeOK, TermsOK, Terms
<1>6. /\ toWinner \in [Accounts -> Nat] /\ toCreator \in [Accounts -> Nat]
      /\ toTreasury \in [Accounts -> Nat]
  BY <1>4 DEF When
<1>7. Total(toWinner) = prize /\ Total(toTreasury) = fees
  BY <1>4, <1>5, OneHolder
<1>8. Total(toCreator) = rest
  <2>1. CASE t.creator \in Accounts
    BY <1>4, <2>1, OneHolder
  <2>2. CASE t.creator = NoOne
    <3>1. rest = 0
      BY <1>1, <1>2, <2>2
    <3>2. \A a \in Accounts : toCreator[a] = 0
      BY <3>1 DEF When
    <3> HIDE DEF toCreator, rest
    <3> QED  BY <1>6, <3>1, <3>2, TotalZero, FiniteAssumption
  <2> QED  BY <1>5, <2>1, <2>2
<1>9. won \in [Accounts -> Nat] /\ made \in [Accounts -> Nat] /\ all \in [Accounts -> Nat]
  <2>1. all \in [Accounts -> Nat]
    BY CreditType
  <2> HIDE DEF toWinner, toCreator, toTreasury, all
  <2>2. won \in [Accounts -> Nat]
    BY <1>1, <1>6
  <2>3. made \in [Accounts -> Nat]
    BY <1>6, <2>2
  <2> QED  BY <2>1, <2>2, <2>3
<1>10. \A a \in Accounts : all[a] = made[a] + toTreasury[a]
  BY DEF Credit
<1>11. Total(won) = prize + royal
  <2>1. \A a \in Accounts : won[a] = toWinner[a] + Royalties(m, w)[a]
    OBVIOUS
  <2> HIDE DEF won, toWinner
  <2> QED  BY <1>1, <1>6, <1>7, <1>9, <2>1, TotalSum, FiniteAssumption
<1>12. Total(made) = Total(won) + rest
  <2>1. \A a \in Accounts : made[a] = won[a] + toCreator[a]
    OBVIOUS
  <2> HIDE DEF made, won, toCreator
  <2> QED  BY <1>6, <1>8, <1>9, <2>1, TotalSum, FiniteAssumption
<1>13. Total(all) = Total(made) + fees
  <2> HIDE DEF made, all, toTreasury
  <2> QED  BY <1>6, <1>7, <1>9, <1>10, TotalSum, FiniteAssumption
<1> HIDE DEF made, won, all
<1>14. Total(all) = account[m].prizePool + BetFee(m, w)
  BY <1>1, <1>2, <1>3, <1>11, <1>12, <1>13
<1> QED  BY <1>9, <1>14 DEF all

LEMMA MoneySettle ==
    ASSUME TypeInv, TypeInv', WinnerOK, PoolInv, MoneyInv, NEW m \in Matches,
           NEW w \in Seats, NEW hash \in Hashes, Settle(m, w, hash)
    PROVE  MoneyInv'
<1> DEFINE token == account[m].terms.token
           fee == BetFee(m, w)
           prize == account[m].prizePool
           credits == [a \in Accounts |-> Credit(m, w, a)]
<1>1. /\ account \in [Matches -> MatchAccount] /\ balance \in [TokenIds -> Nat]
      /\ claimable \in [TokenIds \X Accounts -> Nat]
  BY DEF TypeInv, TypeOK
<1>2. /\ account[m].status = "Locked" /\ recipient[<<m, w>>] # NoOne
      /\ Total(Royalties(m, w)) <= CreatorFee(m, w)
      /\ UNCHANGED <<seatVars, betVars, tokenVars, balance>>
      /\ claimable' = [x \in TokenIds \X Accounts |->
                         IF x[1] = token THEN claimable[x] + Credit(m, w, x[2])
                                         ELSE claimable[x]]
  BY DEF Settle
<1>3. /\ token \in TokenIds /\ prize \in Nat /\ account[m].betPool \in Nat
      /\ fee \in Nat /\ fee <= account[m].betPool
      /\ credits \in [Accounts -> Nat] /\ Total(credits) = prize + fee
  <2>1. fee \in Nat /\ fee + outcomePool[<<m, w>>] <= account[m].betPool
    BY <1>2, SettleAmounts
  <2>2. outcomePool[<<m, w>>] \in Nat /\ account[m].betPool \in Nat /\ prize \in Nat
    BY DEF TypeInv, TypeOK, MatchAccount
  <2>3. token \in TokenIds
    BY <1>2 DEF TypeInv, TermsOK, Terms
  <2> HIDE DEF fee
  <2>4. fee <= account[m].betPool
    BY <2>1, <2>2
  <2> QED  BY <1>2, <2>1, <2>2, <2>3, <2>4, CreditsPaid DEF fee
<1>4. /\ account'[m].status = "Settled" /\ account'[m].terms = account[m].terms
      /\ account'[m].winner = w /\ account'[m].prizePool = prize
      /\ account'[m].remainingBetPayout = account[m].betPool - fee
  BY <1>1 DEF Settle, MatchAccount
<1>5. \A n \in Matches \ {m} : Apart(n)
  BY <1>1, <1>2 DEF Settle, Apart, betVars, seatVars
<1>6. Liability(m) = prize + account[m].betPool
  BY <1>2 DEF Liability
<1>7. Liability(m)' = account[m].betPool - fee
  <2>1. \A a \in Accounts : <<m, a>> \notin betClaimed
    BY <1>2 DEF PoolInv, PoolOf, NothingClaimed, Undecided
  <2>2. UnclaimedBets(m)' = BetsOf(m)
    BY <1>2, <2>1 DEF UnclaimedBets, BetsOf, When, betVars
  <2>3. Total(UnclaimedBets(m)') = account[m].betPool
    BY <2>2 DEF PoolInv, PoolOf, BetsCounted
  <2>4. Refunded(m)' <=> outcomePool[<<m, w>>] = 0
    BY <1>2, <1>4 DEF Refunded, betVars
  <2>5. Refunded(m)' => fee = 0
    BY <2>4 DEF BetFee
  <2> HIDE DEF fee
  <2>6. Refunded(m)' => account[m].betPool = account[m].betPool - fee
    BY <1>3, <2>5
  <2> QED  BY <1>4, <2>3, <2>6 DEF Liability
<1>8. StakesCounted(m)'
  <2>1. Refundable(m)' = Refundable(m)
    BY <1>2 DEF Refundable, seatVars
  <2> QED  BY <1>2, <1>4, <2>1 DEF MoneyInv, StakesCounted
<1>9. NoncesOK' /\ \A t \in TokenIds : StrayIn(t)' = StrayIn(t)
  BY <1>2, SameNonces, SameSheets DEF tokenVars
<1>10. Sheets /\ Sheets'
  BY SheetsTyped, SheetsTypedNext
<1> HIDE DEF fee, prize, credits
<1>11. ASSUME NEW t \in TokenIds
       PROVE  Total(ClaimableIn(t)') - Total(ClaimableIn(t)) =
                  IF t = token THEN prize + fee ELSE 0
  <2> DEFINE f == ClaimableIn(t)
             g == ClaimableIn(t)'
  <2>1. f \in [Accounts -> Nat] /\ g \in [Accounts -> Nat] /\ Total(f) \in Nat
    BY <1>10 DEF Sheets
  <2>2. CASE t = token
    <3>1. \A a \in Accounts : g[a] = f[a] + credits[a]
      BY <1>2, <2>2 DEF ClaimableIn, credits
    <3> HIDE DEF f, g
    <3>2. Total(g) = Total(f) + Total(credits)
      BY <1>3, <2>1, <3>1, TotalSum, FiniteAssumption
    <3>3. Total(g) - Total(f) = prize + fee
      BY <1>3, <2>1, <3>2
    <3> QED  BY <2>2, <3>3 DEF f, g
  <2>3. CASE t # token
    <3>1. g = f
      BY <1>2, <2>3 DEF ClaimableIn
    <3> HIDE DEF f, g
    <3>2. Total(g) - Total(f) = 0
      BY <2>1, <3>1
    <3> QED  BY <2>3, <3>2 DEF f, g
  <2> QED  BY <2>2, <2>3
<1>12. ASSUME NEW t \in TokenIds
       PROVE  balance'[t] - balance[t] =
                   (LiabilityIn(t)'[m] - LiabilityIn(t)[m])
                 + (Total(ClaimableIn(t)') - Total(ClaimableIn(t)))
                 + (Total(StrayIn(t)') - Total(StrayIn(t)))
  <2>1. LiabilityIn(t)'[m] - LiabilityIn(t)[m] = IF t = token THEN -(prize + fee) ELSE 0
    <3>1. Liability(m)' - Liability(m) = -(prize + fee)
      BY <1>3, <1>6, <1>7
    <3> QED  BY <1>2, <1>4, <1>10, <3>1, DebtChange
  <2>2. Total(StrayIn(t)') - Total(StrayIn(t)) = 0
    BY <1>9, <1>10 DEF Sheets
  <2>3. balance'[t] - balance[t] = 0
    BY <1>1, <1>2
  <2> HIDE DEF token
  <2> QED  BY <1>3, <1>11, <2>1, <2>2, <2>3
<1>13. balance \in [TokenIds -> Nat] /\ balance' \in [TokenIds -> Nat] /\ Solvent
  BY <1>1, <1>2 DEF MoneyInv
<1>14. Solvent'
  BY <1>5, <1>10, <1>12, <1>13, CallBalances
<1>15. Empty(m)'
  BY <1>4 DEF Empty
<1> QED  BY <1>5, <1>8, <1>9, <1>14, <1>15, MoneyCall

(***************************************************************************)
(* Claims and withdrawals: what goes out is no longer owed.                *)
(***************************************************************************)
LEMMA MoneyRefund ==
    ASSUME TypeInv, TypeInv', WinnerOK, MoneyInv, NEW m \in Matches, NEW p \in Accounts,
           ClaimRefund(m, p)
    PROVE  MoneyInv'
<1> DEFINE token == account[m].terms.token
           x == refundable[<<m, p>>]
<1>1. /\ refundable \in [Matches \X Accounts -> Nat]
      /\ balance \in [TokenIds -> Nat] /\ x \in Nat
  BY DEF TypeInv, TypeOK
<1>2. /\ account[m].status = "Voided" /\ account' = account
      /\ refundable' = [refundable EXCEPT ![<<m, p>>] = 0]
      /\ balance' = [balance EXCEPT ![token] = @ - x]
      /\ UNCHANGED <<betVars, claimable, tokenVars>>
  BY DEF ClaimRefund, Pay
<1>3. token \in TokenIds
  BY <1>2 DEF TypeInv, TermsOK, Terms
<1>4. \A n \in Matches \ {m} : Apart(n)
  BY <1>1, <1>2 DEF Apart, betVars
<1>5. Sheets /\ Sheets'
  BY SheetsTyped, SheetsTypedNext
<1>6. Total(Refundable(m)') = Total(Refundable(m)) - x
  <2> DEFINE f == Refundable(m)
             g == Refundable(m)'
  <2>1. f \in [Accounts -> Nat] /\ g \in [Accounts -> Nat] /\ Total(f) \in Nat
    BY <1>5 DEF Sheets
  <2>2. f[p] = x /\ g[p] = 0 /\ \A a \in Accounts \ {p} : g[a] = f[a]
    BY <1>1, <1>2 DEF Refundable
  <2> HIDE DEF f, g, x
  <2>3. Total(g) = Total(f) - f[p] + g[p]
    BY <2>1, <2>2, TotalChange, FiniteAssumption
  <2>4. Total(g) = Total(f) - x
    BY <1>1, <2>1, <2>2, <2>3
  <2> QED  BY <2>4 DEF f, g
<1>7. Liability(m)' = Liability(m) + (-x)
  <2>1. UnclaimedBets(m)' = UnclaimedBets(m)
    BY <1>2 DEF UnclaimedBets, When, betVars
  <2>2. /\ Liability(m) = Total(Refundable(m)) + Total(UnclaimedBets(m))
        /\ Liability(m)' = Total(Refundable(m)') + Total(UnclaimedBets(m))
    BY <1>2, <2>1 DEF Liability
  <2>3. Total(Refundable(m)) \in Nat /\ Total(UnclaimedBets(m)) \in Nat
    BY <1>5 DEF Sheets
  <2> HIDE DEF x
  <2> QED  BY <1>1, <1>6, <2>2, <2>3
<1>8. StakesCounted(m)'
  BY <1>2 DEF StakesCounted
<1>9. /\ NoncesOK'
      /\ \A t \in TokenIds : ClaimableIn(t)' = ClaimableIn(t) /\ StrayIn(t)' = StrayIn(t)
  BY <1>2, SameNonces, SameSheets DEF tokenVars
<1>10. \A t \in TokenIds : balance'[t] = balance[t] + IF t = token THEN -x ELSE 0
  BY <1>1, <1>2, <1>3
<1>11. /\ -x \in Int /\ account[m].status # "Absent" /\ account'[m].status # "Absent"
       /\ account'[m].terms = account[m].terms
  BY <1>1, <1>2
<1> HIDE DEF token
<1> QED  BY <1>4, <1>7, <1>8, <1>9, <1>10, <1>11, PlainCall DEF token

\* What a claim of a bet pays, the match no longer owes.
LEMMA BetRepaid ==
    ASSUME TypeInv, TypeInv', WinnerOK, NEW m \in Matches, NEW p \in Accounts,
           ClaimBet(m, p), ClaimBetRefund(m, p)
    PROVE  Liability(m)' = Liability(m) + (-totalBets[<<m, p>>])
<1> DEFINE x == totalBets[<<m, p>>]
           f == UnclaimedBets(m)
           g == UnclaimedBets(m)'
<1>1. /\ account' = account /\ Refunded(m) /\ <<m, p>> \notin betClaimed
      /\ betClaimed' = betClaimed \cup {<<m, p>>}
      /\ UNCHANGED <<seatVars, totalBets, outcomePool>>
  BY DEF ClaimBet, ClaimBetRefund
<1>2. Sheets /\ Sheets'
  BY SheetsTyped, SheetsTypedNext
<1>3. f \in [Accounts -> Nat] /\ g \in [Accounts -> Nat] /\ Total(f) \in Nat
  BY <1>2 DEF Sheets
<1>4. f[p] = x /\ g[p] = 0 /\ \A a \in Accounts \ {p} : g[a] = f[a]
  BY <1>1 DEF UnclaimedBets, When
<1>5. x \in Nat
  BY DEF TypeInv, TypeOK
<1>6. Total(g) = Total(f) - x
  <2> HIDE DEF f, g, x
  <2>1. Total(g) = Total(f) - f[p] + g[p]
    BY <1>3, <1>4, TotalChange, FiniteAssumption
  <2> QED  BY <1>3, <1>4, <1>5, <2>1
<1>7. Refundable(m)' = Refundable(m) /\ Total(Refundable(m)) \in Nat
  BY <1>1, <1>2 DEF Refundable, seatVars, Sheets
<1>8. Refunded(m)'
  BY <1>1 DEF Refunded
<1>9. CASE account[m].status = "Voided"
  <2>1. /\ Liability(m) = Total(Refundable(m)) + Total(f)
        /\ Liability(m)' = Total(Refundable(m)) + Total(g)
    BY <1>1, <1>7, <1>9 DEF Liability
  <2> HIDE DEF f, g, x
  <2>2. Liability(m)' = Liability(m) + (-x)
    BY <1>3, <1>5, <1>6, <1>7, <2>1
  <2> QED  BY <2>2 DEF x
<1>10. CASE account[m].status = "Settled"
  <2>1. Liability(m) = Total(f) /\ Liability(m)' = Total(g)
    BY <1>1, <1>8, <1>10 DEF Liability
  <2> HIDE DEF f, g, x
  <2>2. Liability(m)' = Liability(m) + (-x)
    BY <1>3, <1>5, <1>6, <2>1
  <2> QED  BY <2>2 DEF x
<1> QED  BY <1>1, <1>9, <1>10 DEF Refunded

LEMMA BetPaid ==
    ASSUME TypeInv, WinnerOK, NEW m \in Matches, NEW p \in Accounts,
           ClaimBet(m, p), ClaimBetPayout(m, p)
    PROVE  LET x == BetShare(m, bets[<<m, account[m].winner, p>>]) IN
           x \in Nat /\ Liability(m)' = Liability(m) + (-x)
<1> DEFINE shares == bets[<<m, account[m].winner, p>>]
           x == BetShare(m, shares)
<1>1. /\ account \in [Matches -> MatchAccount]
      /\ account[m].status = "Settled" /\ ~Refunded(m) /\ account[m].winner \in Seats
      /\ account' = [account EXCEPT ![m].remainingBetShares = @ - shares,
                                    ![m].remainingBetPayout = @ - x]
      /\ UNCHANGED outcomePool
  BY DEF ClaimBet, ClaimBetPayout, WinnerOK, TypeInv, TypeOK
<1>2. shares \in Nat
  BY <1>1 DEF TypeInv, TypeOK
<1> HIDE DEF shares
<1>3. x \in Nat
  BY <1>1, <1>2, BetShareType
<1> HIDE DEF x
<1>4. /\ account'[m].status = "Settled" /\ account'[m].winner = account[m].winner
      /\ account'[m].remainingBetPayout = account[m].remainingBetPayout - x
      /\ account[m].remainingBetPayout \in Nat
  BY <1>1 DEF MatchAccount
<1>5. ~Refunded(m)'
  BY <1>1, <1>4 DEF Refunded
<1>6. Liability(m)' = Liability(m) + (-x)
  BY <1>1, <1>3, <1>4, <1>5 DEF Liability
<1> QED  BY <1>3, <1>6 DEF x, shares

LEMMA MoneyClaimBet ==
    ASSUME TypeInv, TypeInv', WinnerOK, MoneyInv, NEW m \in Matches, NEW p \in Accounts,
           ClaimBet(m, p)
    PROVE  MoneyInv'
<1> DEFINE token == account[m].terms.token
<1>1. /\ account \in [Matches -> MatchAccount] /\ balance \in [TokenIds -> Nat]
      /\ betClaimed' = betClaimed \cup {<<m, p>>}
      /\ UNCHANGED <<seatVars, totalBets, outcomePool, claimable, tokenVars>>
  BY DEF ClaimBet, TypeInv, TypeOK
<1>2. PICK x \in Nat : Liability(m)' = Liability(m) + (-x) /\ Pay(token, x)
  <2>1. CASE ClaimBetRefund(m, p)
    <3>1. totalBets[<<m, p>>] \in Nat
      BY DEF TypeInv, TypeOK
    <3> QED  BY <2>1, <3>1, BetRepaid DEF ClaimBetRefund
  <2>2. CASE ClaimBetPayout(m, p)
    BY <2>2, BetPaid DEF ClaimBetPayout
  <2> QED  BY <2>1, <2>2 DEF ClaimBet
<1>3. /\ account[m].status # "Absent" /\ account'[m].status # "Absent"
      /\ account'[m].terms = account[m].terms
      /\ account'[m].status = account[m].status
      /\ account'[m].prizePool = account[m].prizePool
      /\ \A n \in Matches \ {m} : account'[n] = account[n]
  <2>1. CASE ClaimBetRefund(m, p)
    BY <2>1 DEF ClaimBetRefund, Refunded
  <2>2. CASE ClaimBetPayout(m, p)
    BY <1>1, <2>2 DEF ClaimBetPayout, MatchAccount
  <2> QED  BY <2>1, <2>2 DEF ClaimBet
<1>4. token \in TokenIds
  BY <1>3 DEF TypeInv, TermsOK, Terms
<1>5. \A n \in Matches \ {m} : Apart(n)
  BY <1>1, <1>3 DEF Apart, seatVars
<1>6. StakesCounted(m)'
  <2>1. Refundable(m)' = Refundable(m)
    BY <1>1 DEF Refundable, seatVars
  <2> QED  BY <1>3, <2>1 DEF MoneyInv, StakesCounted
<1>7. /\ NoncesOK'
      /\ \A t \in TokenIds : ClaimableIn(t)' = ClaimableIn(t) /\ StrayIn(t)' = StrayIn(t)
  BY <1>1, SameNonces, SameSheets DEF tokenVars
<1>8. \A t \in TokenIds : balance'[t] = balance[t] + IF t = token THEN -x ELSE 0
  BY <1>1, <1>2, <1>4 DEF Pay
<1>9. -x \in Int
  OBVIOUS
<1> HIDE DEF token
<1> QED  BY <1>2, <1>3, <1>5, <1>6, <1>7, <1>8, <1>9, PlainCall DEF token

(***************************************************************************)
(* Steps outside the matches: withdrawals, the token, governance, time.    *)
(***************************************************************************)
LEMMA BooksShift ==
    ASSUME NEW b1 \in Nat, NEW b2 \in Nat, NEW c1 \in Nat, NEW c2 \in Nat, NEW l \in Nat,
           NEW s1 \in Nat, NEW s2 \in Nat,
           b1 = c1 + l + s1, b2 - b1 = (c2 - c1) + (s2 - s1)
    PROVE  b2 = c2 + l + s2
OBVIOUS

LEMMA MoneyOutside ==
    ASSUME TypeInv, TypeInv', WinnerOK, MoneyInv, UNCHANGED <<account, seatVars, betVars>>,
           NoncesOK',
           \A t \in TokenIds :
               balance'[t] - balance[t] =
                   (Total(ClaimableIn(t)') - Total(ClaimableIn(t)))
                 + (Total(StrayIn(t)') - Total(StrayIn(t)))
    PROVE  MoneyInv'
<1>1. Sheets /\ Sheets' /\ balance \in [TokenIds -> Nat] /\ balance' \in [TokenIds -> Nat]
  BY SheetsTyped, SheetsTypedNext DEF TypeInv, TypeOK
<1>2. \A n \in Matches : Apart(n)
  BY DEF Apart, seatVars, betVars
<1>3. \A n \in Matches : StakesCounted(n)' /\ Empty(n)'
  <2> SUFFICES ASSUME NEW n \in Matches PROVE StakesCounted(n)' /\ Empty(n)'
    OBVIOUS
  <2>1. Refundable(n)' = Refundable(n)
    BY <1>2, ApartOwes
  <2> QED  BY <2>1 DEF MoneyInv, StakesCounted, Empty
<1>4. Solvent'
  <2> SUFFICES ASSUME NEW t \in TokenIds
               PROVE  balance'[t] = Total(ClaimableIn(t)') + Total(LiabilityIn(t)')
                                      + Total(StrayIn(t)')
    BY DEF Solvent
  <2>1. LiabilityIn(t)' = LiabilityIn(t)
    <3>1. \A n \in Matches : LiabilityIn(t)'[n] = LiabilityIn(t)[n]
      BY <1>2, ApartOwes
    <3>2. LiabilityIn(t) \in [Matches -> Nat] /\ LiabilityIn(t)' \in [Matches -> Nat]
      BY <1>1 DEF Sheets
    <3> QED  BY <3>1, <3>2
  <2>2. balance[t] = Total(ClaimableIn(t)) + Total(LiabilityIn(t)) + Total(StrayIn(t))
    BY DEF MoneyInv, Solvent
  <2>3. /\ Total(ClaimableIn(t)) \in Nat /\ Total(ClaimableIn(t)') \in Nat
        /\ Total(StrayIn(t)) \in Nat /\ Total(StrayIn(t)') \in Nat
        /\ Total(LiabilityIn(t)) \in Nat
        /\ balance[t] \in Nat /\ balance'[t] \in Nat
    BY <1>1 DEF Sheets
  <2>4. balance'[t] - balance[t] = (Total(ClaimableIn(t)') - Total(ClaimableIn(t)))
                                     + (Total(StrayIn(t)') - Total(StrayIn(t)))
    OBVIOUS
  <2> DEFINE b1 == balance[t]
             b2 == balance'[t]
             c1 == Total(ClaimableIn(t))
             c2 == Total(ClaimableIn(t)')
             l1 == Total(LiabilityIn(t))
             l2 == Total(LiabilityIn(t)')
             s1 == Total(StrayIn(t))
             s2 == Total(StrayIn(t)')
  <2>5. /\ b1 \in Nat /\ b2 \in Nat /\ c1 \in Nat /\ c2 \in Nat /\ l1 \in Nat
        /\ s1 \in Nat /\ s2 \in Nat
    BY <2>3
  <2>6. l2 = l1
    BY <2>1
  <2>7. b1 = c1 + l1 + s1 /\ b2 - b1 = (c2 - c1) + (s2 - s1)
    BY <2>2, <2>4
  <2>8. SUFFICES b2 = c2 + l2 + s2
    OBVIOUS
  <2> HIDE DEF b1, b2, c1, c2, l1, l2, s1, s2
  <2> QED  BY <2>5, <2>6, <2>7, BooksShift
<1> QED  BY <1>3, <1>4 DEF MoneyInv

LEMMA MoneyWithdraw ==
    ASSUME TypeInv, TypeInv', WinnerOK, MoneyInv, NEW token \in TokenIds,
           NEW p \in Accounts, Withdraw(token, p)
    PROVE  MoneyInv'
<1> DEFINE x == claimable[<<token, p>>]
<1>1. /\ claimable \in [TokenIds \X Accounts -> Nat] /\ balance \in [TokenIds -> Nat]
      /\ balance' = [balance EXCEPT ![token] = @ - x]
      /\ claimable' = [claimable EXCEPT ![<<token, p>>] = 0]
      /\ UNCHANGED <<account, seatVars, betVars, tokenVars>>
  BY DEF Withdraw, Pay, TypeInv, TypeOK
<1>2. Sheets /\ Sheets' /\ x \in Nat
  BY <1>1, SheetsTyped, SheetsTypedNext
<1>3. NoncesOK' /\ \A t \in TokenIds : StrayIn(t)' = StrayIn(t)
  BY <1>1, SameNonces, SameSheets DEF tokenVars
<1>4. ASSUME NEW t \in TokenIds
      PROVE  balance'[t] - balance[t] =
                   (Total(ClaimableIn(t)') - Total(ClaimableIn(t)))
                 + (Total(StrayIn(t)') - Total(StrayIn(t)))
  <2> DEFINE f == ClaimableIn(t)
             g == ClaimableIn(t)'
  <2>1. f \in [Accounts -> Nat] /\ g \in [Accounts -> Nat] /\ Total(f) \in Nat
    BY <1>2 DEF Sheets
  <2>2. Total(StrayIn(t)') - Total(StrayIn(t)) = 0
    BY <1>2, <1>3 DEF Sheets
  <2>3. CASE t = token
    <3>1. f[p] = x /\ g[p] = 0 /\ \A a \in Accounts \ {p} : g[a] = f[a]
      BY <1>1, <2>3 DEF ClaimableIn
    <3>2. balance'[t] - balance[t] = -x
      BY <1>1, <1>2, <2>3
    <3> HIDE DEF f, g, x
    <3>3. Total(g) = Total(f) - f[p] + g[p]
      BY <2>1, <3>1, TotalChange, FiniteAssumption
    <3>4. Total(g) - Total(f) = -x
      BY <1>2, <2>1, <3>1, <3>3
    <3>5. balance'[t] - balance[t] = (Total(g) - Total(f))
                                     + (Total(StrayIn(t)') - Total(StrayIn(t)))
      BY <1>2, <2>2, <3>2, <3>4
    <3> QED  BY <3>5 DEF f, g
  <2>4. CASE t # token
    <3>1. g = f
      BY <1>1, <2>4 DEF ClaimableIn
    <3>2. balance'[t] - balance[t] = 0
      BY <1>1, <2>4
    <3> HIDE DEF f, g
    <3>3. Total(g) - Total(f) = 0
      BY <2>1, <3>1
    <3>4. balance'[t] - balance[t] = (Total(g) - Total(f))
                                     + (Total(StrayIn(t)') - Total(StrayIn(t)))
      BY <2>2, <3>2, <3>3
    <3> QED  BY <3>4 DEF f, g
  <2> QED  BY <2>3, <2>4
<1> QED  BY <1>1, <1>3, <1>4, MoneyOutside

\* A transfer that nobody asked for strays into the balance.
LEMMA MoneyTransfer ==
    ASSUME TypeInv, TypeInv', WinnerOK, MoneyInv, NEW auth \in Authorizations,
           NEW x \in Amounts, DirectTransfer(auth, x)
    PROVE  MoneyInv'
<1> DEFINE token == auth[1]
           y == <<auth[2], auth[3]>>
<1>1. /\ arrived \in [Authorizations -> Nat] /\ balance \in [TokenIds -> Nat] /\ x \in Nat
      /\ auth \notin used /\ used' = used \cup {auth}
      /\ arrived' = [arrived EXCEPT ![auth] = x]
      /\ balance' = [balance EXCEPT ![token] = @ + x]
      /\ UNCHANGED <<account, seatVars, betVars, claimable, credited>>
  BY ChoiceAssumption DEF DirectTransfer, TypeInv, TypeOK
<1>2. /\ token \in TokenIds /\ y \in Accounts \X Nonces
      /\ auth = <<token, auth[2], auth[3]>>
  BY DEF Authorizations
<1>3. auth \notin credited /\ arrived[auth] = 0 /\ NoncesOK
  BY <1>1 DEF MoneyInv, NoncesOK
<1>4. NoncesOK'
  BY <1>1, <1>3 DEF NoncesOK
<1>5. Sheets /\ Sheets'
  BY SheetsTyped, SheetsTypedNext
<1>6. \A t \in TokenIds : ClaimableIn(t)' = ClaimableIn(t)
  BY <1>1, SameSheets
<1>7. ASSUME NEW t \in TokenIds
      PROVE  balance'[t] - balance[t] =
                   (Total(ClaimableIn(t)') - Total(ClaimableIn(t)))
                 + (Total(StrayIn(t)') - Total(StrayIn(t)))
  <2> DEFINE f == StrayIn(t)
             g == StrayIn(t)'
  <2>1. f \in [Accounts \X Nonces -> Nat] /\ g \in [Accounts \X Nonces -> Nat]
        /\ Total(f) \in Nat
    BY <1>5 DEF Sheets
  <2>2. Total(ClaimableIn(t)') - Total(ClaimableIn(t)) = 0
    BY <1>5, <1>6 DEF Sheets
  <2>3. CASE t = token
    <3>1. f[y] = 0 /\ g[y] = x
      BY <1>1, <1>2, <1>3, <2>3 DEF StrayIn, When
    <3>2. \A z \in (Accounts \X Nonces) \ {y} : g[z] = f[z]
      <4> SUFFICES ASSUME NEW z \in (Accounts \X Nonces) \ {y} PROVE g[z] = f[z]
        OBVIOUS
      <4>1. <<t, z[1], z[2]>> # auth
        BY <1>2
      <4>2. arrived'[<<t, z[1], z[2]>>] = arrived[<<t, z[1], z[2]>>]
        BY <1>1, <4>1 DEF Authorizations
      <4> QED  BY <1>1, <4>2 DEF StrayIn, When
    <3>3. balance'[t] - balance[t] = x
      BY <1>1, <1>2, <2>3
    <3> HIDE DEF f, g, y
    <3>4. Total(g) = Total(f) - f[y] + g[y]
      BY <1>2, <2>1, <3>2, TotalChange, PairsFinite
    <3>5. Total(g) - Total(f) = x
      BY <1>1, <2>1, <3>1, <3>4
    <3>6. balance'[t] - balance[t] = (Total(ClaimableIn(t)') - Total(ClaimableIn(t)))
                                     + (Total(g) - Total(f))
      BY <1>1, <2>2, <3>3, <3>5
    <3> QED  BY <3>6 DEF f, g
  <2>4. CASE t # token
    <3>1. g = f
      <4>1. \A z \in Accounts \X Nonces : <<t, z[1], z[2]>> # auth
        BY <1>2, <2>4
      <4>2. \A z \in Accounts \X Nonces :
                arrived'[<<t, z[1], z[2]>>] = arrived[<<t, z[1], z[2]>>]
        BY <1>1, <4>1 DEF Authorizations
      <4> QED  BY <1>1, <4>2 DEF StrayIn, When
    <3>2. balance'[t] - balance[t] = 0
      BY <1>1, <2>4
    <3> HIDE DEF f, g
    <3>3. Total(g) - Total(f) = 0
      BY <2>1, <3>1
    <3>4. balance'[t] - balance[t] = (Total(ClaimableIn(t)') - Total(ClaimableIn(t)))
                                     + (Total(g) - Total(f))
      BY <2>2, <3>2, <3>3
    <3> QED  BY <3>4 DEF f, g
  <2> QED  BY <2>3, <2>4
<1> QED  BY <1>1, <1>4, <1>7, MoneyOutside

\* Governance, a cancelled nonce, the clock and stuttering move no money.
LEMMA MoneyQuiet ==
    ASSUME TypeInv, TypeInv', WinnerOK, MoneyInv,
           UNCHANGED <<account, seatVars, betVars, claimable, credited, arrived, balance>>,
           used \subseteq used'
    PROVE  MoneyInv'
<1>1. NoncesOK'
  BY DEF MoneyInv, NoncesOK
<1>2. Sheets /\ Sheets' /\ balance \in [TokenIds -> Nat]
  BY SheetsTyped, SheetsTypedNext DEF TypeInv, TypeOK
<1>3. \A t \in TokenIds :
          balance'[t] - balance[t] =
                   (Total(ClaimableIn(t)') - Total(ClaimableIn(t)))
                 + (Total(StrayIn(t)') - Total(StrayIn(t)))
  <2> SUFFICES ASSUME NEW t \in TokenIds
               PROVE  balance'[t] - balance[t] =
                          (Total(ClaimableIn(t)') - Total(ClaimableIn(t)))
                        + (Total(StrayIn(t)') - Total(StrayIn(t)))
    OBVIOUS
  <2>1. ClaimableIn(t)' = ClaimableIn(t) /\ StrayIn(t)' = StrayIn(t)
    BY SameSheets
  <2>2. /\ Total(ClaimableIn(t)) \in Nat /\ Total(StrayIn(t)) \in Nat
        /\ balance[t] \in Nat /\ balance'[t] = balance[t]
    BY <1>2 DEF Sheets
  <2> QED  BY <2>1, <2>2
<1> QED  BY <1>1, <1>3, MoneyOutside

(***************************************************************************)
(* The invariant, and the theorems.                                        *)
(***************************************************************************)
LEMMA MoneyNext ==
    ASSUME TypeInv, TypeInv', WinnerOK, PoolInv, MoneyInv, [Next]_vars PROVE MoneyInv'
<1>1. ASSUME NEW m \in Matches, Deposit(m) PROVE MoneyInv'
  BY <1>1, MoneyStake, MoneyRecover, MoneyBounty, MoneyBet DEF Deposit
<1>2. ASSUME NEW m \in Matches, NEW s \in Seats, NEW key \in Keys, SetController(m, s, key)
      PROVE  MoneyInv'
  <2>1. UNCHANGED <<account, refundable, betVars, claimable, tokenVars, balance>>
    BY <1>2 DEF SetController
  <2>2. \A n \in Matches : Apart(n)
    BY <2>1 DEF Apart, betVars
  <2>3. StakesCounted(m)' /\ Empty(m)'
    <3>1. Refundable(m)' = Refundable(m)
      BY <2>2, ApartOwes
    <3> QED  BY <2>1, <3>1 DEF MoneyInv, StakesCounted, Empty
  <2>4. NoncesOK'
    BY <2>1, SameNonces
  <2>5. Sheets /\ Sheets' /\ balance \in [TokenIds -> Nat]
    BY SheetsTyped, SheetsTypedNext DEF TypeInv, TypeOK
  <2>6. ASSUME NEW t \in TokenIds
        PROVE  balance'[t] - balance[t] =
                   (LiabilityIn(t)'[m] - LiabilityIn(t)[m])
                 + (Total(ClaimableIn(t)') - Total(ClaimableIn(t)))
                 + (Total(StrayIn(t)') - Total(StrayIn(t)))
    <3>1. /\ ClaimableIn(t)' = ClaimableIn(t) /\ StrayIn(t)' = StrayIn(t)
          /\ LiabilityIn(t)'[m] = LiabilityIn(t)[m]
      BY <2>1, <2>2, SameSheets, ApartOwes DEF tokenVars
    <3>2. /\ Total(ClaimableIn(t)) \in Nat /\ Total(StrayIn(t)) \in Nat
          /\ LiabilityIn(t)[m] \in Nat /\ balance[t] \in Nat /\ balance'[t] = balance[t]
      BY <2>1, <2>5 DEF Sheets
    <3> QED  BY <3>1, <3>2
  <2>7. Solvent'
    BY <2>1, <2>2, <2>5, <2>6, CallBalances DEF MoneyInv
  <2> QED  BY <2>2, <2>3, <2>4, <2>7, MoneyCall
<1>3. ASSUME NEW m \in Matches, Decide(m) PROVE MoneyInv'
  BY <1>2, <1>3, MoneyCreate, MoneyStatus, MoneySettle DEF Decide
<1>4. ASSUME NEW m \in Matches, NEW a \in Accounts, Claim(m, a) PROVE MoneyInv'
  BY <1>4, MoneyRefund, MoneyClaimBet DEF Claim
<1>5. CASE Governance \/ Tick \/ UNCHANGED vars
  <2>1. UNCHANGED <<account, seatVars, betVars, claimable, tokenVars, balance>>
    BY <1>5 DEF Governance, SetToken, SetResolver, SetPaused, AcceptOwnership, notAdmin,
                Tick, vars
  <2> QED  BY <2>1, MoneyQuiet DEF tokenVars
<1>6. CASE Token
  <2>1. ASSUME NEW auth \in Authorizations, CancelAuthorization(auth) PROVE MoneyInv'
    BY <2>1, MoneyQuiet DEF CancelAuthorization
  <2> QED  BY <1>6, <2>1, MoneyTransfer DEF Token
<1> QED  BY <1>1, <1>3, <1>4, <1>5, <1>6, MoneyWithdraw DEF Next

LEMMA MoneyInit == Init => MoneyInv
<1> SUFFICES ASSUME Init PROVE MoneyInv
  OBVIOUS
<1>1. TypeInv /\ Sheets
  BY TypeInit, SheetsTyped
<1>2. ASSUME NEW m \in Matches PROVE StakesCounted(m) /\ Empty(m)
  <2>1. \A a \in Accounts : Refundable(m)[a] = 0
    BY DEF Init, Refundable
  <2>2. Total(Refundable(m)) = 0
    BY <1>1, <2>1, TotalZero, FiniteAssumption DEF Sheets
  <2>3. account[m] = NoMatch
    BY DEF Init
  <2> QED  BY <2>2, <2>3 DEF NoMatch, StakesCounted, Empty
<1>3. NoncesOK
  BY DEF Init, NoncesOK
<1>4. ASSUME NEW t \in TokenIds
      PROVE  balance[t] = Total(ClaimableIn(t)) + Total(LiabilityIn(t)) + Total(StrayIn(t))
  <2>1. \A a \in Accounts : ClaimableIn(t)[a] = 0
    BY DEF Init, ClaimableIn
  <2>2. \A m \in Matches : LiabilityIn(t)[m] = 0
    BY DEF Init, NoMatch, LiabilityIn, When
  <2>3. \A x \in Accounts \X Nonces : StrayIn(t)[x] = 0
    BY DEF Init, StrayIn, When, Authorizations
  <2>4. Total(ClaimableIn(t)) = 0 /\ Total(LiabilityIn(t)) = 0 /\ Total(StrayIn(t)) = 0
    BY <1>1, <2>1, <2>2, <2>3, TotalZero, FiniteAssumption, PairsFinite DEF Sheets
  <2>5. balance[t] = 0
    BY DEF Init
  <2> QED  BY <2>4, <2>5
<1> QED  BY <1>2, <1>3, <1>4 DEF MoneyInv, Solvent

LEMMA Monied == Spec => [](TypeInv /\ WinnerOK /\ PoolInv /\ MoneyInv)
<1>1. TypeInv /\ TypeInv' /\ WinnerOK /\ PoolInv /\ MoneyInv /\ [Next]_vars => MoneyInv'
  BY MoneyNext
<1> QED  BY <1>1, MoneyInit, Pooled, PTL DEF Spec

(***************************************************************************)
(* Conservation: per token the contract holds, to the last unit, what it   *)
(* owes to seats, sponsors, bettors, winners, creators and the treasury,   *)
(* and the transfers that back no seat.                                    *)
(***************************************************************************)
THEOREM BooksAlwaysBalance == Spec => []Solvent
<1>1. MoneyInv => Solvent
  BY DEF MoneyInv
<1> QED  BY <1>1, Monied, PTL

(***************************************************************************)
(* What can be claimed can be paid: no transfer out of the contract lacks  *)
(* the balance, whoever was paid before.                                   *)
(***************************************************************************)
ClaimsArePayable ==
    /\ \A t \in TokenIds, a \in Accounts : claimable[<<t, a>>] <= balance[t]
    /\ \A m \in Matches : account[m].status # "Absent" =>
           Liability(m) <= balance[account[m].terms.token]

THEOREM NoClaimLacksMoney == Spec => []ClaimsArePayable
<1>1. ASSUME TypeInv, Solvent PROVE ClaimsArePayable
  <2>1. Sheets /\ balance \in [TokenIds -> Nat]
    BY <1>1, SheetsTyped DEF TypeInv, TypeOK
  <2>2. ASSUME NEW t \in TokenIds
        PROVE  Total(ClaimableIn(t)) <= balance[t] /\ Total(LiabilityIn(t)) <= balance[t]
    <3>1. balance[t] = Total(ClaimableIn(t)) + Total(LiabilityIn(t)) + Total(StrayIn(t))
      BY <1>1 DEF Solvent
    <3>2. /\ Total(ClaimableIn(t)) \in Nat /\ Total(LiabilityIn(t)) \in Nat
          /\ Total(StrayIn(t)) \in Nat /\ balance[t] \in Nat
      BY <2>1 DEF Sheets
    <3> QED  BY <3>1, <3>2
  <2>3. ASSUME NEW t \in TokenIds, NEW a \in Accounts PROVE claimable[<<t, a>>] <= balance[t]
    <3>1. ClaimableIn(t) \in [Accounts -> Nat] /\ ClaimableIn(t)[a] = claimable[<<t, a>>]
      BY <2>1 DEF Sheets, ClaimableIn
    <3>2. ClaimableIn(t)[a] <= Total(ClaimableIn(t)) /\ Total(ClaimableIn(t)) \in Nat
      BY <3>1, TotalBounds, FiniteAssumption
    <3>3. ClaimableIn(t)[a] \in Nat /\ balance[t] \in Nat
      BY <2>1, <3>1
    <3> QED  BY <2>2, <3>1, <3>2, <3>3
  <2>4. ASSUME NEW m \in Matches, account[m].status # "Absent"
        PROVE  Liability(m) <= balance[account[m].terms.token]
    <3> DEFINE t == account[m].terms.token
    <3>1. t \in TokenIds
      BY <1>1, <2>4 DEF TypeInv, TermsOK, Terms
    <3>2. LiabilityIn(t) \in [Matches -> Nat] /\ LiabilityIn(t)[m] = Liability(m)
      BY <2>1, <2>4, <3>1 DEF Sheets, LiabilityIn, When
    <3> HIDE DEF t
    <3>3. LiabilityIn(t)[m] <= Total(LiabilityIn(t)) /\ Total(LiabilityIn(t)) \in Nat
      BY <3>2, TotalBounds, FiniteAssumption
    <3>4. LiabilityIn(t)[m] \in Nat /\ balance[t] \in Nat
      BY <2>1, <3>1, <3>2
    <3>5. Liability(m) <= balance[t]
      BY <2>2, <3>1, <3>2, <3>3, <3>4
    <3> QED  BY <3>5 DEF t
  <2> QED  BY <2>3, <2>4 DEF ClaimsArePayable
<1>2. MoneyInv => Solvent
  BY DEF MoneyInv
<1> QED  BY <1>1, <1>2, Monied, PTL

(***************************************************************************)
(* Royalties are rounded down one by one, and the terms allot at most the  *)
(* whole, so what is left for the creator is never negative.               *)
(***************************************************************************)
RoyaltiesFit ==
    \A m \in Matches, w \in Seats :
        account[m].status = "Locked" => Total(Royalties(m, w)) <= CreatorFee(m, w)

LEMMA RoyaltiesBound ==
    ASSUME NEW c \in Nat, NEW b \in [Accounts -> Nat], Total(b) <= 10000,
           NEW f \in [Accounts -> Nat], \A a \in Accounts : f[a] = FeeOn(c, b[a])
    PROVE  Total(f) <= c
<1>1. ASSUME NEW a \in Accounts PROVE 10000 * f[a] <= c * b[a]
  <2> DEFINE y == c * b[a]
  <2>1. y \in Nat
    OBVIOUS
  <2>2. f[a] = y \div 10000
    BY DEF FeeOn
  <2> HIDE DEF y
  <2>3. 10000 * (y \div 10000) <= y
    BY <2>1
  <2> QED  BY <2>2, <2>3 DEF y
<1>2. 10000 * Total(f) <= c * Total(b)
  <2> DEFINE n == 10000
  <2>1. n \in Nat /\ \A a \in Accounts : n * f[a] <= c * b[a]
    BY <1>1
  <2> HIDE DEF n
  <2>2. n * Total(f) <= c * Total(b)
    BY <2>1, TotalShares, FiniteAssumption
  <2> QED  BY <2>2 DEF n
<1>3. Total(f) \in Nat /\ Total(b) \in Nat
  BY TotalBounds, FiniteAssumption
<1>4. c * Total(b) <= c * 10000
  BY <1>3
<1> DEFINE z == c * Total(b)
<1>5. z \in Nat /\ z <= c * 10000 /\ 10000 * Total(f) <= z
  BY <1>2, <1>3, <1>4
<1> HIDE DEF z
<1> QED  BY <1>3, <1>5

(***************************************************************************)
(* A locked match can be decided: the checked subtraction of the royalties *)
(* from the creator's part, the only one in settle that its terms do not   *)
(* rule out by themselves, never reverts.                                  *)
(***************************************************************************)
THEOREM SettlementIsCovered == Spec => []RoyaltiesFit
<1>1. ASSUME TypeInv PROVE RoyaltiesFit
  <2> SUFFICES ASSUME NEW m \in Matches, NEW w \in Seats, account[m].status = "Locked"
               PROVE  Total(Royalties(m, w)) <= CreatorFee(m, w)
    BY DEF RoyaltiesFit
  <2> DEFINE b == account[m].terms.royalties
  <2>1. b \in [Accounts -> Nat] /\ Total(b) <= 10000
    BY <1>1 DEF TypeInv, TermsOK, Terms
  <2>2. CreatorFee(m, w) \in Nat /\ Royalties(m, w) \in [Accounts -> Nat]
    BY <1>1, SettleAmounts
  <2>3. \A a \in Accounts : Royalties(m, w)[a] = FeeOn(CreatorFee(m, w), b[a])
    BY DEF Royalties
  <2> HIDE DEF b
  <2> QED  BY <2>1, <2>2, <2>3, RoyaltiesBound
<1>2. TypeInv => RoyaltiesFit
  BY <1>1
<1> QED  BY <1>2, Typed, PTL
=============================================================================
