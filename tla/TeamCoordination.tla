-------------------------- MODULE TeamCoordination --------------------------
(***************************************************************************)
(* The coordination of a team of agents (packages/team-policy): messages   *)
(* with a rate per tick, a strategy that is proposed, acknowledged and     *)
(* comes into force at a tick, and leases of responsibilities.             *)
(*                                                                         *)
(* The caller gives the tick; it is assumed not to go back.  Payloads and  *)
(* their size are left out, as are messages that expire before they are    *)
(* made or have a type that is not allowed: these are refused.             *)
(***************************************************************************)
EXTENDS Naturals, FiniteSets

CONSTANTS
    Members,            \* the team's seats
    Responsibilities,
    Strategies, InitialStrategy,
    MessagesPerTick,    \* communication.maxMessagesPerTick
    MaxTick, MaxMessages, MaxProposals   \* bounds

TeamAssumption ==
    /\ InitialStrategy \in Strategies
    /\ MessagesPerTick \in Nat \ {0}
    /\ {MaxTick, MaxMessages, MaxProposals} \subseteq Nat

VARIABLES
    now,       \* the tick that the caller has reached
    strategy, epoch, pending,
    usedAt,    \* messagesAtTick
    leases,    \* assignmentLeases: the lease of each responsibility that has one
    proposals, \* made so far
    said,      \* ghost: messages, with the strategy that was active
    granted,   \* ghost: all leases that were ever granted, likewise
    commits    \* ghost: strategies that came into force, and when

team == <<now, strategy, epoch, pending, usedAt, leases, proposals, said, granted, commits>>

Ticks == 0..MaxTick
None == [strategyEpoch |-> 0]

Init ==
    /\ now = 0 /\ strategy = InitialStrategy /\ epoch = 1 /\ pending = None
    /\ usedAt = [t \in Ticks |-> 0]
    /\ leases = {} /\ proposals = 0
    /\ said = {} /\ granted = {} /\ commits = {}
-----------------------------------------------------------------------------
\* The game goes on.
Tick ==
    /\ now < MaxTick
    /\ now' = now + 1
    /\ UNCHANGED <<strategy, epoch, pending, usedAt, leases, proposals, said, granted, commits>>

\* A message, in the rate of its tick; the sequence number is the count of all.
publish ==
    /\ Cardinality(said) < MaxMessages
    /\ usedAt[now] < MessagesPerTick
    /\ usedAt' = [usedAt EXCEPT ![now] = @ + 1]
    /\ said' = said \cup {[sequence |-> Cardinality(said) + 1, tick |-> now,
                           epoch |-> epoch, strategy |-> strategy]}
    /\ UNCHANGED <<now, strategy, epoch, pending, leases, proposals, granted, commits>>

\* A proposal replaces the one that is pending, and has the same epoch.
proposeStrategy(s, from, until) ==
    /\ proposals < MaxProposals
    /\ from < until
    /\ pending' = [strategyEpoch |-> epoch + 1, strategy |-> s, effectiveTick |-> from,
                   validUntilTick |-> until, acknowledgements |-> {}]
    /\ proposals' = proposals + 1
    /\ UNCHANGED <<now, strategy, epoch, usedAt, leases, said, granted, commits>>

acknowledgeStrategy(member, e) ==
    /\ pending # None /\ pending.strategyEpoch = e
    /\ pending' = [pending EXCEPT !.acknowledgements = @ \cup {member}]
    /\ UNCHANGED <<now, strategy, epoch, usedAt, leases, proposals, said, granted, commits>>

\* Slip: a lease is over at its last tick.
ExpireEarly == leases' = {l \in leases : l.expiresTick > now}

expireAssignments == leases' = {l \in leases : l.expiresTick >= now}

\* The pending strategy comes into force, acknowledged or not, or has run out.
advance ==
    /\ expireAssignments
    /\ LET due == pending # None /\ now >= pending.effectiveTick
           good == due /\ now < pending.validUntilTick IN
       /\ pending' = IF due THEN None ELSE pending
       /\ strategy' = IF good THEN pending.strategy ELSE strategy
       /\ epoch' = IF good THEN pending.strategyEpoch ELSE epoch
       /\ commits' = IF good THEN commits \cup {[tick |-> now, commit |-> pending]} ELSE commits
    /\ UNCHANGED <<now, usedAt, proposals, said, granted>>

assign(responsibility, member, until) ==
    LET lease == [responsibility |-> responsibility, seatId |-> member, grantedTick |-> now,
                  expiresTick |-> until, strategyEpoch |-> epoch] IN
    /\ ~\E l \in leases : l.responsibility = responsibility /\ l.expiresTick >= now
    /\ until > now
    /\ leases' = {l \in leases : l.responsibility # responsibility} \cup {lease}
    /\ granted' = granted \cup {[lease |-> lease, strategy |-> strategy]}
    /\ UNCHANGED <<now, strategy, epoch, pending, usedAt, proposals, said, commits>>

\* Reading the assignments drops those that have expired.
assignments ==
    /\ expireAssignments
    /\ UNCHANGED <<now, strategy, epoch, pending, usedAt, proposals, said, granted, commits>>

Next ==
    \/ Tick \/ publish \/ advance \/ assignments
    \/ \E s \in Strategies, from, until \in Ticks : proposeStrategy(s, from, until)
    \/ \E m \in Members, e \in 1..(MaxProposals + 1) : acknowledgeStrategy(m, e)
    \/ \E r \in Responsibilities, m \in Members, until \in Ticks : assign(r, m, until)

Spec == Init /\ [][Next]_team
-----------------------------------------------------------------------------
TypeOK ==
    /\ now \in Ticks /\ strategy \in Strategies /\ epoch \in 1..(MaxProposals + 1)
    /\ usedAt \in [Ticks -> 0..MessagesPerTick]
    /\ pending # None => pending.strategyEpoch = epoch + 1

(* A responsibility has one holder at a time: of all the leases that were    *)
(* ever granted for it none begins before another has run out.               *)
OneHolder ==
    \A g, h \in granted :
        \/ g = h
        \/ g.lease.responsibility # h.lease.responsibility
        \/ g.lease.expiresTick < h.lease.grantedTick
        \/ h.lease.expiresTick < g.lease.grantedTick

(* An epoch names one strategy: whatever was said or leased under it was     *)
(* said or leased under that strategy, though proposals replace each other   *)
(* and run out; and a strategy comes into force only while it is valid.      *)
EpochNamesStrategy ==
    /\ \A m, n \in said \cup {[epoch |-> g.lease.strategyEpoch, strategy |-> g.strategy] : g \in granted}
                   \cup {[epoch |-> c.commit.strategyEpoch, strategy |-> c.commit.strategy] : c \in commits} :
          m.epoch = n.epoch => m.strategy = n.strategy
    /\ \A c, d \in commits : c.commit.strategyEpoch < d.commit.strategyEpoch => c.tick <= d.tick
    /\ \A c \in commits :
          c.commit.effectiveTick <= c.tick /\ c.tick < c.commit.validUntilTick

(* No tick has more messages than the policy allows, and their numbers go up *)
(* with the ticks and the epochs.                                            *)
MessagesInRate ==
    /\ \A t \in Ticks : Cardinality({m \in said : m.tick = t}) <= MessagesPerTick
    /\ \A m, n \in said : m.sequence < n.sequence => m.tick <= n.tick /\ m.epoch <= n.epoch

TeamAgrees == OneHolder /\ EpochNamesStrategy /\ MessagesInRate
=============================================================================
