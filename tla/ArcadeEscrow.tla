---------------------------- MODULE ArcadeEscrow ----------------------------
(***************************************************************************)
(* The ArcadeEscrow contract: single-winner prize pools and pari-mutuel    *)
(* spectator pools, held in one contract balance per token.                *)
(*                                                                         *)
(* Every external function is one action.  A transaction is atomic and     *)
(* one that reverts changes nothing, so a revert is a disabled action; the *)
(* checked subtractions of Solidity 0.8 are guards for the same reason.    *)
(* The token (ERC-20 with EIP-3009 authorizations) is external: a transfer *)
(* moves exactly its amount or reverts the call that makes it.             *)
(*                                                                         *)
(* Abstractions: addresses, match ids, seat ids, tokens and nonces are     *)
(* model values; block.timestamp is the counter now; the royalty list is a *)
(* function from recipient to basis points, so it names each recipient     *)
(* once; matches are created from the finite set TermsChoices.             *)
(***************************************************************************)
EXTENDS Tokens

CONSTANTS Matches,       \* match ids
          Seats,         \* seat ids
          Accounts,      \* addresses other than zero
          TokenIds,      \* ERC-20 contracts
          Nonces,        \* EIP-3009 nonces
          Hashes,        \* result hashes other than zero
          NoOne,         \* the zero address
          Governor,      \* the owner the contract is deployed with
          TermsChoices,  \* terms a resolver may ask for
          Amounts,       \* amounts of bounties, bets and direct transfers
          Officers,      \* accounts that may become owner or resolver
          Keys,          \* game keys a seat may get besides its payer's own
          MaxTime,       \* bound on block.timestamp
          MaxDuration,   \* the 7 days of _createMatch
          MaxPool        \* largest amount: 2^256 - 1, checked additions revert

VARIABLES owner, paused, allowedTokens, resolvers,
          now,
          account,       \* accounts: match -> MatchAccount
          recipient,     \* <<match, seat>> -> address that owns the seat
          staked,        \* set of <<match, seat>> already paid
          seated,        \* set of <<match, payer>> of open matches
          controller,    \* <<match, seat>> -> game key of the seat
          refundable,    \* <<match, payer>> -> amount
          bets,          \* <<match, seat, bettor>> -> amount
          totalBets,     \* <<match, bettor>> -> amount
          outcomePool,   \* <<match, seat>> -> amount
          betClaimed,    \* set of <<match, bettor>>
          claimable,     \* <<token, beneficiary>> -> amount
          credited,      \* set of <<token, payer, nonce>> credited to a seat
          used,          \* external: nonces the token reports as used
          arrived,       \* external: <<token, payer, nonce>> -> amount it sent here
          balance        \* external: the contract's balance of each token

adminVars == <<owner, paused, allowedTokens, resolvers>>
seatVars == <<recipient, staked, seated, controller, refundable>>
betVars == <<bets, totalBets, outcomePool, betClaimed>>
tokenVars == <<credited, used, arrived>>
vars == <<adminVars, now, account, seatVars, betVars, claimable, tokenVars,
          balance>>

Status == {"Absent", "Funding", "Locked", "Settled", "Voided"}
Authorizations == TokenIds \X Accounts \X Nonces

Terms == [token : TokenIds, resolver : Accounts, treasury : Accounts,
          fundingDeadline : Nat, settlementDeadline : Nat,
          feeBps : Nat, stake : Nat, bounties : BOOLEAN, betting : BOOLEAN,
          creator : Accounts \cup {NoOne}, creatorShareBps : Nat,
          royalties : [Accounts -> Nat],
          open : BOOLEAN, seats : SUBSET Seats,
          recipients : [Seats -> Accounts \cup {NoOne}]]

ASSUME FiniteAssumption ==
    /\ IsFiniteSet(Matches) /\ IsFiniteSet(Seats) /\ IsFiniteSet(Accounts)
    /\ IsFiniteSet(TokenIds) /\ IsFiniteSet(Nonces)
ASSUME NoOneAssumption == NoOne \notin Accounts /\ NoOne \notin Seats
ASSUME GovernorAssumption == Governor \in Accounts
ASSUME OfficerAssumption == Officers \subseteq Accounts /\ Keys \subseteq Accounts
ASSUME ChoiceAssumption ==
    /\ TermsChoices \subseteq Terms
    /\ Amounts \subseteq Nat \ {0}
    /\ MaxTime \in Nat /\ MaxDuration \in Nat /\ MaxPool \in Nat
ASSUME HashAssumption == NoOne \notin Hashes
-----------------------------------------------------------------------------
\* Math.mulDiv(x, bps, 10000): rounds down.
FeeOn(x, bps) == (x * bps) \div 10000

NoMatch == [terms |-> NoOne, status |-> "Absent", prizePool |-> 0,
            betPool |-> 0, paidSeats |-> 0, winner |-> NoOne,
            resultHash |-> NoOne, remainingBetShares |-> 0,
            remainingBetPayout |-> 0]

MatchAccount == [terms : Terms \cup {NoOne}, status : Status,
                 prizePool : Nat, betPool : Nat, paidSeats : Nat,
                 winner : Seats \cup {NoOne}, resultHash : Hashes \cup {NoOne},
                 remainingBetShares : Nat, remainingBetPayout : Nat]

Init ==
    /\ owner = Governor /\ paused = FALSE
    /\ allowedTokens = {} /\ resolvers = {}
    /\ now = 0
    /\ account = [m \in Matches |-> NoMatch]
    /\ recipient = [x \in Matches \X Seats |-> NoOne]
    /\ staked = {} /\ seated = {}
    /\ controller = [x \in Matches \X Seats |-> NoOne]
    /\ refundable = [x \in Matches \X Accounts |-> 0]
    /\ bets = [x \in Matches \X Seats \X Accounts |-> 0]
    /\ totalBets = [x \in Matches \X Accounts |-> 0]
    /\ outcomePool = [x \in Matches \X Seats |-> 0]
    /\ betClaimed = {}
    /\ claimable = [x \in TokenIds \X Accounts |-> 0]
    /\ credited = {} /\ used = {}
    /\ arrived = [x \in Authorizations |-> 0]
    /\ balance = [t \in TokenIds |-> 0]
-----------------------------------------------------------------------------
(***************************************************************************)
(* Governance.  Only the owner gets past onlyOwner, so the caller is not a *)
(* parameter.  renounceOwnership always reverts: there is no such action.  *)
(***************************************************************************)
notAdmin == <<now, account, seatVars, betVars, claimable, tokenVars, balance>>

SetToken(t, allowed) ==
    /\ allowedTokens' = IF allowed THEN allowedTokens \cup {t}
                                   ELSE allowedTokens \ {t}
    /\ UNCHANGED <<owner, paused, resolvers, notAdmin>>

SetResolver(r, allowed) ==
    /\ resolvers' = IF allowed THEN resolvers \cup {r} ELSE resolvers \ {r}
    /\ UNCHANGED <<owner, paused, allowedTokens, notAdmin>>

SetPaused(value) ==
    /\ paused' = value
    /\ UNCHANGED <<owner, allowedTokens, resolvers, notAdmin>>

\* Ownable2Step: a nominated account accepts the ownership.
AcceptOwnership(a) ==
    /\ owner' = a
    /\ UNCHANGED <<paused, allowedTokens, resolvers, notAdmin>>
-----------------------------------------------------------------------------
(***************************************************************************)
(* Creation: createMatch and createOpenMatch.                              *)
(***************************************************************************)
ValidTerms(t) ==
    /\ t.token \in allowedTokens
    /\ t.treasury = owner
    /\ t.feeBps <= 1000 /\ t.creatorShareBps <= 9000
    /\ t.creator = NoOne => t.creatorShareBps = 0
    /\ t.fundingDeadline > now
    /\ t.settlementDeadline > t.fundingDeadline
    /\ t.settlementDeadline <= now + MaxDuration
    /\ Cardinality(t.seats) \in 2..64
    /\ Total(t.royalties) <= 10000
    /\ \A s \in t.seats : t.open <=> t.recipients[s] = NoOne

CreateMatch(m, t) ==
    /\ ~paused /\ t.resolver \in resolvers
    /\ account[m].status = "Absent"
    /\ ValidTerms(t)
    /\ account' = [account EXCEPT ![m].terms = t, ![m].status = "Funding"]
    /\ recipient' = [x \in Matches \X Seats |->
                        IF x[1] = m /\ x[2] \in t.seats
                        THEN t.recipients[x[2]] ELSE recipient[x]]
    /\ UNCHANGED <<adminVars, now, staked, seated, controller, refundable,
                   betVars, claimable, tokenVars, balance>>
-----------------------------------------------------------------------------
(***************************************************************************)
(* Deposits.                                                               *)
(***************************************************************************)
\* _funding: deposits are open.
Funding(m) ==
    /\ ~paused
    /\ account[m].status = "Funding"
    /\ now < account[m].terms.fundingDeadline

\* _resolver: the snapshotted resolver calls, and is still allowed to.
ByResolver(m) ==
    account[m].status # "Absent" /\ account[m].terms.resolver \in resolvers

\* Mutant: an open seat is taken without remembering that its payer has one.
SeatUnremembered(m, s, payer, key) ==
    LET t == account[m].terms IN
    /\ IF t.open THEN s \in t.seats /\ recipient[<<m, s>>] = NoOne
                 ELSE recipient[<<m, s>>] = payer /\ t.stake # 0
    /\ recipient' = [recipient EXCEPT ![<<m, s>>] = payer]
    /\ <<m, s>> \notin staked
    /\ account[m].prizePool + t.stake <= MaxPool
    /\ staked' = staked \cup {<<m, s>>}
    /\ account' = [account EXCEPT ![m].paidSeats = @ + 1,
                                  ![m].prizePool = @ + t.stake]
    /\ refundable' = [refundable EXCEPT ![<<m, payer>>] = @ + t.stake]
    /\ controller' = [controller EXCEPT ![<<m, s>>] = key]
    /\ UNCHANGED seated

\* _seat: assigns and accounts for a seat.
Seat(m, s, payer, key) ==
    LET t == account[m].terms IN
    /\ \/ /\ t.open
          /\ s \in t.seats /\ recipient[<<m, s>>] = NoOne
          /\ <<m, payer>> \notin seated
          /\ recipient' = [recipient EXCEPT ![<<m, s>>] = payer]
          /\ seated' = seated \cup {<<m, payer>>}
       \/ /\ ~t.open
          /\ recipient[<<m, s>>] = payer /\ t.stake # 0
          /\ UNCHANGED <<recipient, seated>>
    /\ <<m, s>> \notin staked
    /\ account[m].prizePool + t.stake <= MaxPool
    /\ staked' = staked \cup {<<m, s>>}
    /\ account' = [account EXCEPT ![m].paidSeats = @ + 1,
                                  ![m].prizePool = @ + t.stake]
    /\ refundable' = [refundable EXCEPT ![<<m, payer>>] = @ + t.stake]
    /\ controller' = [controller EXCEPT ![<<m, s>>] = key]

\* stake (the payer plays with its own key) and stakeWithController.
Stake(m, s, payer, key) ==
    /\ Funding(m)
    /\ Seat(m, s, payer, key)
    /\ balance' = [balance EXCEPT ![account[m].terms.token] =
                                      @ + account[m].terms.stake]
    /\ UNCHANGED <<adminVars, now, betVars, claimable, tokenVars>>

SetController(m, s, key) ==
    /\ recipient[<<m, s>>] # NoOne /\ <<m, s>> \in staked
    /\ controller' = [controller EXCEPT ![<<m, s>>] = key]
    /\ UNCHANGED <<adminVars, now, account, recipient, staked, seated,
                   refundable, betVars, claimable, tokenVars, balance>>

\* _authorizedEntry, for an authorization a payer signed over the stake.
AuthorizedEntry(m, payer, nonce) ==
    LET auth == <<account[m].terms.token, payer, nonce>> IN
    /\ Funding(m) /\ ByResolver(m)
    /\ account[m].terms.stake # 0
    /\ auth \notin credited
    /\ credited' = credited \cup {auth}

\* The resolver relays the transfer: the token takes a nonce only once.
StakeWithAuthorization(m, s, payer, key, nonce) ==
    LET auth == <<account[m].terms.token, payer, nonce>> IN
    /\ AuthorizedEntry(m, payer, nonce)
    /\ Seat(m, s, payer, key)
    /\ auth \notin used
    /\ used' = used \cup {auth}
    /\ balance' = [balance EXCEPT ![account[m].terms.token] =
                                      @ + account[m].terms.stake]
    /\ UNCHANGED <<adminVars, now, betVars, claimable, arrived>>

\* Mutant: the resolver trusts a used nonce without looking for its transfer.
RecoverUnchecked(m, s, payer, key, nonce) ==
    LET auth == <<account[m].terms.token, payer, nonce>> IN
    /\ AuthorizedEntry(m, payer, nonce)
    /\ auth \in used
    /\ Seat(m, s, payer, key)
    /\ UNCHANGED <<adminVars, now, betVars, claimable, used, arrived, balance>>

\* The transfer was submitted directly to the token.  The contract only
\* sees that the nonce is used; the resolver calls after it has found the
\* transfer of the stake, because a cancelled nonce is used too.
RecoverAuthorizedStake(m, s, payer, key, nonce) ==
    LET auth == <<account[m].terms.token, payer, nonce>> IN
    /\ AuthorizedEntry(m, payer, nonce)
    /\ auth \in used
    /\ arrived[auth] = account[m].terms.stake
    /\ Seat(m, s, payer, key)
    /\ UNCHANGED <<adminVars, now, betVars, claimable, used, arrived, balance>>

ClaimSeatFor(m, s, player, key) ==
    /\ Funding(m) /\ ByResolver(m)
    /\ account[m].terms.stake = 0 /\ account[m].terms.open
    /\ Seat(m, s, player, key)
    /\ UNCHANGED <<adminVars, now, betVars, claimable, tokenVars, balance>>

FundBounty(m, sponsor, amount) ==
    /\ Funding(m) /\ account[m].terms.bounties
    /\ account[m].prizePool + amount <= MaxPool
    /\ account' = [account EXCEPT ![m].prizePool = @ + amount]
    /\ refundable' = [refundable EXCEPT ![<<m, sponsor>>] = @ + amount]
    /\ balance' = [balance EXCEPT ![account[m].terms.token] = @ + amount]
    /\ UNCHANGED <<adminVars, now, recipient, staked, seated, controller,
                   betVars, claimable, tokenVars>>

PlaceBet(m, s, bettor, amount) ==
    /\ Funding(m) /\ account[m].terms.betting
    /\ recipient[<<m, s>>] # NoOne
    /\ account[m].betPool + amount <= MaxPool
    /\ bets' = [bets EXCEPT ![<<m, s, bettor>>] = @ + amount]
    /\ totalBets' = [totalBets EXCEPT ![<<m, bettor>>] = @ + amount]
    /\ outcomePool' = [outcomePool EXCEPT ![<<m, s>>] = @ + amount]
    /\ account' = [account EXCEPT ![m].betPool = @ + amount]
    /\ balance' = [balance EXCEPT ![account[m].terms.token] = @ + amount]
    /\ UNCHANGED <<adminVars, now, seatVars, betClaimed, claimable, tokenVars>>
-----------------------------------------------------------------------------
(***************************************************************************)
(* Lock, settlement and void.                                              *)
(***************************************************************************)
\* Mutant: the unpaid seats are not counted.
LockUncounted(m) ==
    /\ ByResolver(m)
    /\ account[m].status = "Funding" /\ now < account[m].terms.fundingDeadline
    /\ account' = [account EXCEPT ![m].status = "Locked"]
    /\ UNCHANGED <<adminVars, now, seatVars, betVars, claimable, tokenVars,
                   balance>>

Lock(m) ==
    LET t == account[m].terms IN
    /\ ByResolver(m)
    /\ account[m].status = "Funding" /\ now < t.fundingDeadline
    /\ (t.stake # 0 \/ t.open) => account[m].paidSeats = Cardinality(t.seats)
    /\ account' = [account EXCEPT ![m].status = "Locked"]
    /\ UNCHANGED <<adminVars, now, seatVars, betVars, claimable, tokenVars,
                   balance>>

PrizeFee(m) == FeeOn(account[m].prizePool, account[m].terms.feeBps)

\* No winning bets: every spectator gets the principal back, with no fee.
BetFee(m, w) ==
    IF outcomePool[<<m, w>>] = 0 THEN 0
    ELSE FeeOn(account[m].betPool - outcomePool[<<m, w>>], account[m].terms.feeBps)

CreatorFee(m, w) ==
    FeeOn(PrizeFee(m) + BetFee(m, w), account[m].terms.creatorShareBps)

Royalties(m, w) ==
    [a \in Accounts |-> FeeOn(CreatorFee(m, w), account[m].terms.royalties[a])]

When(condition, amount) == IF condition THEN amount ELSE 0

\* Mutant: the treasury's subtraction with its operands swapped.
CreditSwapped(m, w, a) ==
    LET t == account[m].terms IN
    When(a = recipient[<<m, w>>], account[m].prizePool - PrizeFee(m))
      + Royalties(m, w)[a]
      + When(a = t.creator, CreatorFee(m, w) - Total(Royalties(m, w)))
      + When(a = t.treasury, CreatorFee(m, w) - PrizeFee(m) - BetFee(m, w))

\* What settle adds to the claimable balance of a.
Credit(m, w, a) ==
    LET t == account[m].terms IN
    When(a = recipient[<<m, w>>], account[m].prizePool - PrizeFee(m))
      + Royalties(m, w)[a]
      + When(a = t.creator, CreatorFee(m, w) - Total(Royalties(m, w)))
      + When(a = t.treasury, PrizeFee(m) + BetFee(m, w) - CreatorFee(m, w))

Settle(m, w, hash) ==
    LET t == account[m].terms IN
    /\ ByResolver(m)
    /\ account[m].status = "Locked" /\ now < t.settlementDeadline
    /\ recipient[<<m, w>>] # NoOne
    /\ Total(Royalties(m, w)) <= CreatorFee(m, w)
    /\ account' = [account EXCEPT
                     ![m].status = "Settled", ![m].winner = w,
                     ![m].resultHash = hash,
                     ![m].remainingBetShares = outcomePool[<<m, w>>],
                     ![m].remainingBetPayout = account[m].betPool - BetFee(m, w)]
    /\ claimable' = [x \in TokenIds \X Accounts |->
                       IF x[1] = t.token THEN claimable[x] + Credit(m, w, x[2])
                                         ELSE claimable[x]]
    /\ UNCHANGED <<adminVars, now, seatVars, betVars, tokenVars, balance>>

Expired(m) ==
    LET t == account[m].terms IN
    now >= IF account[m].status = "Funding" THEN t.fundingDeadline
                                            ELSE t.settlementDeadline

\* Mutant: only an absent match cannot be voided.
VoidDecided(m, caller) ==
    /\ account[m].status # "Absent"
    /\ Expired(m) \/ caller \in {owner, account[m].terms.resolver}
    /\ account' = [account EXCEPT ![m].status = "Voided"]
    /\ UNCHANGED <<adminVars, now, seatVars, betVars, claimable, tokenVars,
                   balance>>

\* Mutant: an expired match, too, is left to the owner and the resolver.
VoidByOfficers(m, caller) ==
    /\ account[m].status \in {"Funding", "Locked"}
    /\ caller \in {owner, account[m].terms.resolver} \cap resolvers
    /\ account' = [account EXCEPT ![m].status = "Voided"]
    /\ UNCHANGED <<adminVars, now, seatVars, betVars, claimable, tokenVars,
                   balance>>

VoidMatch(m, caller) ==
    /\ account[m].status \in {"Funding", "Locked"}
    /\ Expired(m) \/ caller \in {owner, account[m].terms.resolver}
    /\ account' = [account EXCEPT ![m].status = "Voided"]
    /\ UNCHANGED <<adminVars, now, seatVars, betVars, claimable, tokenVars,
                   balance>>
-----------------------------------------------------------------------------
(***************************************************************************)
(* Claims.  Anyone may call them, the funds go to the beneficiary.         *)
(***************************************************************************)
\* Mutant: the pause that stops deposits stops payments too.
PayUnlessPaused(t, amount) ==
    /\ ~paused
    /\ amount # 0 /\ amount <= balance[t]
    /\ balance' = [balance EXCEPT ![t] = @ - amount]

\* safeTransfer out of the contract.
Pay(t, amount) ==
    /\ amount # 0 /\ amount <= balance[t]
    /\ balance' = [balance EXCEPT ![t] = @ - amount]

ClaimRefund(m, beneficiary) ==
    /\ account[m].status = "Voided"
    /\ Pay(account[m].terms.token, refundable[<<m, beneficiary>>])
    /\ refundable' = [refundable EXCEPT ![<<m, beneficiary>>] = 0]
    /\ UNCHANGED <<adminVars, now, account, recipient, staked, seated,
                   controller, betVars, claimable, tokenVars>>

\* Every bettor of a voided match, or of one nobody bet on rightly, gets the
\* principal back.
Refunded(m) ==
    \/ account[m].status = "Voided"
    \/ account[m].status = "Settled" /\ outcomePool[<<m, account[m].winner>>] = 0

\* Mutant: the fee is taken on the whole pool, the winners' part included.
BetShareOfWholePool(m, shares) ==
    LET a == account[m] IN
    (shares * (a.betPool - FeeOn(a.betPool, a.terms.feeBps)))
        \div outcomePool[<<m, a.winner>>]

\* Mutant: every claimant gets the rounded share, the last one too.
BetShareRounded(m, shares) ==
    LET a == account[m]
        pool == outcomePool[<<m, a.winner>>] IN
    (shares * (a.betPool - FeeOn(a.betPool - pool, a.terms.feeBps))) \div pool

\* The last claimant receives the rounding dust.
BetShare(m, shares) ==
    LET a == account[m]
        pool == outcomePool[<<m, a.winner>>] IN
    IF shares = a.remainingBetShares THEN a.remainingBetPayout
    ELSE (shares * (a.betPool - FeeOn(a.betPool - pool, a.terms.feeBps))) \div pool

ClaimBetRefund(m, beneficiary) ==
    /\ Refunded(m)
    /\ Pay(account[m].terms.token, totalBets[<<m, beneficiary>>])
    /\ UNCHANGED account

ClaimBetPayout(m, beneficiary) ==
    LET shares == bets[<<m, account[m].winner, beneficiary>>]
        amount == BetShare(m, shares) IN
    /\ account[m].status = "Settled" /\ ~Refunded(m)
    /\ shares # 0
    /\ shares <= account[m].remainingBetShares
    /\ amount <= account[m].remainingBetPayout
    /\ Pay(account[m].terms.token, amount)
    /\ account' = [account EXCEPT ![m].remainingBetShares = @ - shares,
                                  ![m].remainingBetPayout = @ - amount]

\* Mutant: a claim does not look for an earlier one.
ClaimBetAgain(m, beneficiary) ==
    /\ ClaimBetRefund(m, beneficiary) \/ ClaimBetPayout(m, beneficiary)
    /\ betClaimed' = betClaimed \cup {<<m, beneficiary>>}
    /\ UNCHANGED <<adminVars, now, seatVars, bets, totalBets, outcomePool,
                   claimable, tokenVars>>

ClaimBet(m, beneficiary) ==
    /\ <<m, beneficiary>> \notin betClaimed
    /\ ClaimBetRefund(m, beneficiary) \/ ClaimBetPayout(m, beneficiary)
    /\ betClaimed' = betClaimed \cup {<<m, beneficiary>>}
    /\ UNCHANGED <<adminVars, now, seatVars, bets, totalBets, outcomePool,
                   claimable, tokenVars>>

Withdraw(t, beneficiary) ==
    /\ Pay(t, claimable[<<t, beneficiary>>])
    /\ claimable' = [claimable EXCEPT ![<<t, beneficiary>>] = 0]
    /\ UNCHANGED <<adminVars, now, account, seatVars, betVars, tokenVars>>
-----------------------------------------------------------------------------
(***************************************************************************)
(* The environment: the token and the clock.                               *)
(***************************************************************************)
\* Anyone who holds a signed authorization may submit it to the token.
DirectTransfer(auth, amount) ==
    /\ auth \notin used
    /\ used' = used \cup {auth}
    /\ arrived' = [arrived EXCEPT ![auth] = amount]
    /\ balance' = [balance EXCEPT ![auth[1]] = @ + amount]
    /\ UNCHANGED <<adminVars, now, account, seatVars, betVars, claimable,
                   credited>>

\* cancelAuthorization uses the nonce and moves nothing.
CancelAuthorization(auth) ==
    /\ auth \notin used
    /\ used' = used \cup {auth}
    /\ UNCHANGED <<adminVars, now, account, seatVars, betVars, claimable,
                   credited, arrived, balance>>

Tick ==
    /\ now < MaxTime
    /\ now' = now + 1
    /\ UNCHANGED <<adminVars, account, seatVars, betVars, claimable, tokenVars,
                   balance>>
-----------------------------------------------------------------------------
Governance ==
    \/ \E t \in TokenIds, allowed \in BOOLEAN : SetToken(t, allowed)
    \/ \E r \in Officers, allowed \in BOOLEAN : SetResolver(r, allowed)
    \/ \E value \in BOOLEAN : SetPaused(value)
    \/ \E a \in Officers : AcceptOwnership(a)

Deposit(m) ==
    \/ \E s \in Seats, payer \in Accounts : \E key \in Keys \cup {payer} :
          \/ Stake(m, s, payer, key)
          \/ ClaimSeatFor(m, s, payer, key)
          \/ \E nonce \in Nonces :
                \/ StakeWithAuthorization(m, s, payer, key, nonce)
                \/ RecoverAuthorizedStake(m, s, payer, key, nonce)
    \/ \E sponsor \in Accounts, amount \in Amounts : FundBounty(m, sponsor, amount)
    \/ \E s \in Seats, bettor \in Accounts, amount \in Amounts :
          PlaceBet(m, s, bettor, amount)

Decide(m) ==
    \/ \E t \in TermsChoices : CreateMatch(m, t)
    \/ \E s \in Seats, key \in Keys : SetController(m, s, key)
    \/ Lock(m)
    \/ \E w \in Seats, hash \in Hashes : Settle(m, w, hash)
    \/ \E caller \in Accounts : VoidMatch(m, caller)

Claim(m, a) == ClaimRefund(m, a) \/ ClaimBet(m, a)

Token ==
    \/ \E auth \in Authorizations : \/ CancelAuthorization(auth)
                                    \/ \E amount \in Amounts :
                                          DirectTransfer(auth, amount)

Next ==
    \/ Governance
    \/ \E m \in Matches : Deposit(m) \/ Decide(m) \/ \E a \in Accounts : Claim(m, a)
    \/ \E t \in TokenIds, a \in Accounts : Withdraw(t, a)
    \/ Token
    \/ Tick

Spec == Init /\ [][Next]_vars
-----------------------------------------------------------------------------
(***************************************************************************)
(* Properties.                                                             *)
(***************************************************************************)
TypeOK ==
    /\ owner \in Accounts /\ paused \in BOOLEAN
    /\ allowedTokens \subseteq TokenIds /\ resolvers \subseteq Accounts
    /\ now \in Nat
    /\ account \in [Matches -> MatchAccount]
    /\ recipient \in [Matches \X Seats -> Accounts \cup {NoOne}]
    /\ staked \subseteq Matches \X Seats
    /\ seated \subseteq Matches \X Accounts
    /\ controller \in [Matches \X Seats -> Accounts \cup {NoOne}]
    /\ refundable \in [Matches \X Accounts -> Nat]
    /\ bets \in [Matches \X Seats \X Accounts -> Nat]
    /\ totalBets \in [Matches \X Accounts -> Nat]
    /\ outcomePool \in [Matches \X Seats -> Nat]
    /\ betClaimed \subseteq Matches \X Accounts
    /\ claimable \in [TokenIds \X Accounts -> Nat]
    /\ credited \subseteq Authorizations /\ used \subseteq Authorizations
    /\ arrived \in [Authorizations -> Nat]
    /\ balance \in [TokenIds -> Nat]

\* What bettors of m have not claimed back yet.
UnclaimedBets(m) ==
    [a \in Accounts |-> When(<<m, a>> \notin betClaimed, totalBets[<<m, a>>])]

\* The shares in the winning outcome whose payout has not been claimed yet.
UnclaimedShares(m) ==
    [a \in Accounts |-> When(<<m, a>> \notin betClaimed,
                             bets[<<m, account[m].winner, a>>])]

Refundable(m) == [a \in Accounts |-> refundable[<<m, a>>]]

\* What the contract owes on account of match m, besides what is claimable.
Liability(m) ==
    CASE account[m].status = "Absent" -> 0
      [] account[m].status \in {"Funding", "Locked"} ->
            account[m].prizePool + account[m].betPool
      [] account[m].status = "Voided" ->
            Total(Refundable(m)) + Total(UnclaimedBets(m))
      [] account[m].status = "Settled" ->
            IF Refunded(m) THEN Total(UnclaimedBets(m))
                           ELSE account[m].remainingBetPayout

LiabilityIn(t) ==
    [m \in Matches |-> When(account[m].status # "Absent" /\ account[m].terms.token = t,
                            Liability(m))]
ClaimableIn(t) == [a \in Accounts |-> claimable[<<t, a>>]]

\* Transfers that reached the contract outside it and back no seat.
StrayIn(t) ==
    [x \in Accounts \X Nonces |->
        When(<<t, x[1], x[2]>> \notin credited, arrived[<<t, x[1], x[2]>>])]

(***************************************************************************)
(* Conservation, per token: the contract holds what it owes to seats,      *)
(* sponsors, bettors, winners, creators and the treasury, and the stray    *)
(* transfers, to the last unit.  Less is insolvency, more is money nobody  *)
(* can ever claim.                                                         *)
(***************************************************************************)
Solvent ==
    \A t \in TokenIds :
        balance[t] = Total(ClaimableIn(t)) + Total(LiabilityIn(t))
                       + Total(StrayIn(t))

(***************************************************************************)
(* A winning bettor who has not claimed is owed at least the principal,    *)
(* and the claim goes through whoever claimed before: what _claimBet       *)
(* computes never exceeds what is left of the payout.                      *)
(***************************************************************************)
EveryShareIsCovered ==
    \A m \in Matches, a \in Accounts :
        account[m].status = "Settled" /\ ~Refunded(m) =>
            LET shares == UnclaimedShares(m)[a] IN
            shares # 0 =>
                /\ shares <= account[m].remainingBetShares
                /\ shares <= BetShare(m, shares)
                /\ BetShare(m, shares) <= account[m].remainingBetPayout

(***************************************************************************)
(* What is left of a payout belongs to the winning shares still unclaimed: *)
(* when the last of them is claimed no rounding dust stays behind.         *)
(***************************************************************************)
PayoutIsExhausted ==
    \A m \in Matches :
        account[m].status = "Settled" /\ ~Refunded(m) =>
            /\ account[m].remainingBetShares = Total(UnclaimedShares(m))
            /\ account[m].remainingBetShares = 0 => account[m].remainingBetPayout = 0

(***************************************************************************)
(* A staked or open game is locked, and settled, only with every seat paid *)
(* for and owned, so the prize is backed by all stakes.                    *)
(***************************************************************************)
LockedIsFullyPaid ==
    \A m \in Matches :
        LET t == account[m].terms IN
        account[m].status \in {"Locked", "Settled"} /\ (t.stake # 0 \/ t.open) =>
            /\ \A s \in t.seats : <<m, s>> \in staked /\ recipient[<<m, s>>] # NoOne
            /\ account[m].prizePool >= t.stake * Cardinality(t.seats)

(***************************************************************************)
(* In an open match one address never owns two seats, whichever of the     *)
(* four entry calls it came through.                                       *)
(***************************************************************************)
OneSeatEach ==
    \A m \in Matches, s1, s2 \in Seats :
        /\ account[m].status # "Absent" /\ account[m].terms.open
        /\ s1 # s2 /\ recipient[<<m, s1>>] # NoOne
        => recipient[<<m, s1>>] # recipient[<<m, s2>>]

(***************************************************************************)
(* A settled or voided match is final: no later call, by anyone and in any *)
(* order, changes its status, winner, result or seat owners.               *)
(***************************************************************************)
Final(m) ==
    account[m].status \in {"Settled", "Voided"} =>
        /\ account[m].status' = account[m].status
        /\ account[m].winner' = account[m].winner
        /\ account[m].resultHash' = account[m].resultHash
        /\ \A s \in Seats : recipient[<<m, s>>]' = recipient[<<m, s>>]
DecisionIsFinal == [][\A m \in Matches : Final(m)]_vars

(***************************************************************************)
(* The contract as seen from one match, and the claim that each match      *)
(* behaves as EscrowMatch allows whatever is done to the others.           *)
(***************************************************************************)
PaidSeats(m) == {s \in Seats : <<m, s>> \in staked}

\* lock asks for every seat of a staked or open match.
DueSeats(m) ==
    LET t == account[m].terms IN
    IF account[m].status # "Absent" /\ (t.stake # 0 \/ t.open) THEN t.seats ELSE {}

OneMatch(m) ==
    INSTANCE EscrowMatch WITH
        Players <- Accounts,
        status <- account[m].status,
        owner <- [s \in Seats |-> recipient[<<m, s>>]],
        paid <- PaidSeats(m), due <- DueSeats(m),
        winner <- account[m].winner, resultHash <- account[m].resultHash

\* Quantified inside the box, the conjunction of OneMatch(m)!Spec over m.
EachMatchAsPromised ==
    /\ \A m \in Matches : OneMatch(m)!Init
    /\ [][\A m \in Matches : [OneMatch(m)!Next]_(OneMatch(m)!chain)]_vars
-----------------------------------------------------------------------------
(***************************************************************************)
(* Fairness: time passes, and somebody makes the calls that the contract   *)
(* lets anybody make.  Nothing is assumed of the owner or the resolver.    *)
(***************************************************************************)
VoidExpired(m) ==
    /\ account[m].status \in {"Funding", "Locked"} /\ Expired(m)
    /\ \E caller \in Accounts : VoidMatch(m, caller)

Fairness ==
    /\ WF_vars(Tick)
    /\ \A m \in Matches : WF_vars(VoidExpired(m))
    /\ \A m \in Matches, a \in Accounts :
          WF_vars(ClaimRefund(m, a)) /\ WF_vars(ClaimBet(m, a))
    /\ \A t \in TokenIds, a \in Accounts : WF_vars(Withdraw(t, a))

FairSpec == Spec /\ Fairness

(***************************************************************************)
(* Nobody can trap deposits: whatever the owner pauses or disallows, and   *)
(* if the resolver never calls again, every match ends and everything it   *)
(* owes leaves the contract.                                               *)
(***************************************************************************)
EveryMatchEnds ==
    \A m \in Matches :
        account[m].status = "Funding" ~> account[m].status \in {"Settled", "Voided"}

EverybodyIsPaid ==
    /\ \A m \in Matches :
          account[m].status \in {"Settled", "Voided"} ~> Liability(m) = 0
    /\ \A t \in TokenIds, a \in Accounts :
          claimable[<<t, a>>] # 0 ~> claimable[<<t, a>>] = 0
=============================================================================
