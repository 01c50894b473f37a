--------------------------- MODULE MCArcadeEscrow ---------------------------
(* Small instances of ArcadeEscrow: two seats, three accounts.             *)
EXTENDS ArcadeEscrow, TLC

CONSTANTS m1, m2, s1, s2, gov, ann, bob, usd, n1

\* No royalties, or 30 % of the creator's share to ann and the rest to bob.
noRoyalties == [a \in Accounts |-> 0]
sharedRoyalties ==
    [a \in Accounts |-> CASE a = ann -> 3000 [] a = bob -> 7000 [] OTHER -> 0]

baseTerms ==
    [token |-> usd, resolver |-> gov, treasury |-> gov,
     fundingDeadline |-> 1, settlementDeadline |-> 2,
     feeBps |-> 1000, stake |-> 15, bounties |-> FALSE, betting |-> TRUE,
     creator |-> ann, creatorShareBps |-> 5000, royalties |-> sharedRoyalties,
     open |-> TRUE, seats |-> {s1, s2}, recipients |-> [s \in {s1, s2} |-> NoOne]]

\* A staked open game with betting; a sponsored game with reserved seats.
poolTerms ==
    { baseTerms,
      [baseTerms EXCEPT !.stake = 0, !.open = FALSE, !.bounties = TRUE,
           !.recipients = [s \in {s1, s2} |-> IF s = s1 THEN ann ELSE bob],
           !.creator = NoOne, !.creatorShareBps = 0, !.royalties = noRoyalties] }

\* Entry by relayed or recovered authorizations, and gasless entry.
entryTerms ==
    { [baseTerms EXCEPT !.stake = 10, !.betting = FALSE],
      [baseTerms EXCEPT !.stake = 0, !.betting = FALSE] }
\* The smallest game with betting, for liveness.
stakedPool == {[baseTerms EXCEPT !.stake = 10]}
stakedEntry == {[baseTerms EXCEPT !.stake = 10, !.betting = FALSE]}

\* Action constraint: governance sets the contract up and then stays quiet.
QuietGovernance ==
    /\ UNCHANGED <<owner, paused>>
    /\ allowedTokens \subseteq allowedTokens' /\ resolvers \subseteq resolvers'
=============================================================================
