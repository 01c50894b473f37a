----------------------------- MODULE LivePolicy -----------------------------
(***************************************************************************)
(* The policy that plays a game between two reviews of its strategy        *)
(* (packages/studio/src/browser-policy.ts): it scores what may be done by  *)
(* the phase, the strategy's text and plan, the game's own hints, threats, *)
(* the road and what earlier actions brought, plays the best, and learns.  *)
(*                                                                         *)
(* Scores are in thousandths; positions and speeds in hundredths.  Words   *)
(* are those of the code's lists that the actions of the catalog use; what *)
(* the strategy's text says of an action is given.  The order of equals is *)
(* a hash of seat, action and step, and left open.  Of the feedback are    *)
(* left out what the game supplies itself, phases and winners.             *)
(***************************************************************************)
EXTENDS Integers, FiniteSets, FiniteSetsExt

CONSTANTS
    Catalog,      \* actions: id, label, words, verb
    Offers,       \* sets of actions that a game offers
    Situations,   \* phase, threats, road and hints that a game shows
    Plans,        \* what a reviewed strategy says: a text's mentions, avoided, weights, rules
    Glimpses,     \* what is measured before and after an action
    Missing, MaxLessons

VARIABLES
    plan, situation, offered,
    chosen,      \* the action played last, if its feedback is awaited
    memory,      \* policyMemory: samples and total reward of each verb
    preferred,   \* preferredDefense
    lessons,     \* ghost: known feedback so far
    rankedBy     \* ghost: the memory when the preference was last made

live == <<plan, situation, offered, chosen, memory, preferred, lessons, rankedBy>>

None == "none"
Verbs == {a.verb : a \in Catalog}
NoAction == [id |-> None]

Init ==
    /\ plan \in Plans /\ situation \in Situations /\ offered \in Offers
    /\ chosen = NoAction
    /\ memory = [v \in Verbs |-> [samples |-> 0, total |-> 0]]
    /\ preferred = None /\ lessons = {} /\ rankedBy = memory
-----------------------------------------------------------------------------
DefenseWords == {"jump", "duck", "dodge", "block", "shield", "evade"}
RankedDefenses == {"jump", "duck", "dodge", "block"}
IdleWords == {"idle", "wait", "pass", "noop"}
DestructiveWords == {"restart", "reset", "quit", "exit", "forfeit", "abandon"}
CommitWords == {"start", "ready", "confirm", "lock", "submit", "begin", "play", "join"}
ChangeWords == {"select", "choose", "cycle", "next", "previous", "character", "car", "loadout"}
AccelerateWords == {"accelerate", "throttle", "boost", "sprint", "forward"}
BrakeWords == {"brake", "slow", "reverse"}
AttackWords == {"shoot", "fire", "attack", "strike", "hit", "cast"}

Has(a, words) == a.words \cap words # {}
Pts(condition, points) == IF condition THEN points * 1000 ELSE 0
Clamp(x, low, high) == IF x < low THEN low ELSE IF x > high THEN high ELSE x
Size(x) == IF x < 0 THEN 0 - x ELSE x

\* baseActionScore.
BaseScore(a) ==
    LET commit == Has(a, CommitWords)
        change == Has(a, ChangeWords)
        accelerate == Has(a, AccelerateWords)
        brake == Has(a, BrakeWords)
        attack == Has(a, AttackWords)
        defense == Has(a, DefenseWords) IN
    Pts(Has(a, DestructiveWords), -100) + Pts(Has(a, IdleWords), -12) +
    CASE situation.phase = "setup" ->
            Pts(commit, 90) + Pts(~commit /\ change, 12) +
            Pts(accelerate \/ brake \/ attack \/ defense, -25)
      [] situation.phase = "countdown" ->
            Pts(accelerate, 35) + Pts(commit, 10) + Pts(change, -30) + Pts(brake, -35)
      [] situation.phase = "active" ->
            Pts(commit \/ change, -55) + Pts(accelerate, 10) + Pts(attack, 10) + Pts(defense, 2) +
            Pts(brake, -3) + Pts(Has(a, {"move", "advance"}), 6) + Pts(Has(a, {"collect", "capture"}), 7)
      [] situation.phase = "paused" -> Pts(Has(a, {"resume", "play"}), 90)
      [] situation.phase = "terminal" -> Pts(Has(a, DestructiveWords \cup {"play"}), -20)
      [] OTHER -> Pts(commit \/ accelerate \/ attack \/ Has(a, {"move"}), 7)

\* strategyScore: what the text says of the action's word.
StrategyScore(a) ==
    LET mention == IF a.verb \in DOMAIN plan.mentions THEN plan.mentions[a.verb] ELSE None IN
    CASE mention = "avoid" -> -80000
      [] mention = "prefer" -> 14000
      [] mention = "plain" -> 3000
      [] OTHER -> 0

\* An action is meant by its id, or with all others of its label.
Meant(a, target) == target \in {a.id, a.label}

ValueOf(path) == IF path \in DOMAIN situation.state THEN situation.state[path] ELSE Missing

Holds(condition) ==
    LET value == ValueOf(condition.path) IN
    IF condition.op = "exists" THEN (value # Missing) = condition.value
    ELSE /\ value # Missing
         /\ CASE condition.op = "eq" -> value = condition.value
              [] condition.op = "ne" -> value # condition.value
              [] condition.op = "lt" -> value < condition.value
              [] condition.op = "gte" -> value >= condition.value

PlanScore(a) ==
    MapThenSumSet(LAMBDA w : IF Meant(a, w.target) THEN w.weight * 1000 ELSE 0, plan.weights) +
    MapThenSumSet(LAMBDA r : IF Meant(a, r.target) /\ \A c \in r.when : Holds(c)
                             THEN r.weight * 1000 ELSE 0, plan.rules)

\* semanticContextScore: the game's own hints.
HintScore(a) ==
    Clamp(IF a.verb \in DOMAIN situation.scores THEN situation.scores[a.verb] ELSE 0, -40, 40) * 1000 +
    Pts(a.verb \in situation.hinted, 20) + Pts(a.verb \in situation.warned, -30)
-----------------------------------------------------------------------------
(* A race: there is something to accelerate and something to brake with.   *)
Racing == (\E a \in offered : Has(a, AccelerateWords)) /\ (\E a \in offered : Has(a, BrakeWords))

\* Where to steer, and how much it matters.
Steering ==
    LET r == situation.road
        target == Clamp((r.curve * 55) \div 100, -45, 45)
        error == target - r.lane IN
    IF r.lane # Missing /\ (r.offRoad \/ Size(r.lane) > 75)
    THEN [to |-> IF r.lane > 0 THEN "left" ELSE "right", priority |-> 55000]
    ELSE IF r.lane # Missing /\ r.gap # Missing /\ r.gap < 1800 /\ Size(r.trafficLane - r.lane) < 55
    THEN [to |-> IF r.trafficLane <= r.lane THEN "right" ELSE "left",
          priority |-> 42000 - (42 * r.gap * 1000) \div 2500]
    ELSE IF r.lane # Missing /\ Size(error) > 10
    THEN [to |-> IF error > 0 THEN "right" ELSE "left",
          priority |-> 10000 + Clamp(Size(error) * 320, 0, 24000)]
    ELSE IF r.lane = Missing /\ Size(r.curve) >= 8
    THEN [to |-> IF r.curve > 0 THEN "right" ELSE "left", priority |-> 10000]
    ELSE [to |-> None, priority |-> 0]

RacingScore(a) ==
    LET r == situation.road
        accelerate == Has(a, AccelerateWords)
        brake == Has(a, BrakeWords)
        steers == Has(a, {"left", "right"})
        wrong == IF Steering.to = "left" THEN "right" ELSE "left"
        slowDown == \/ r.speed > 78 /\ Size(r.curve) > 55
                    \/ r.gap # Missing /\ r.gap < 350 /\ ~steers IN
    IF ~Racing THEN 0 ELSE
    Pts(r.speed < 60 /\ accelerate, 16) + Pts(r.speed < 60 /\ brake, -22) +
    (IF Steering.to = None THEN Pts(steers, -8)
     ELSE (IF Steering.to \in a.words THEN Steering.priority ELSE 0)
          - (IF wrong \in a.words THEN Steering.priority ELSE 0)
          - (IF steers THEN 0 ELSE (Steering.priority * 55) \div 100)) +
    Pts(slowDown /\ brake, 30) + Pts(slowDown /\ accelerate /\ ~steers, -28)

\* enrichRealtimeState: a bullet of somebody else's that comes nearer hits after so many ms.
Impact(b) == ((situation.at - b.x) * 1000) \div b.speed
Imminent ==
    \E b \in situation.bullets : b.speed # 0 /\ ~b.own /\ Impact(b) >= 0 /\ Impact(b) <= 1000

ThreatScore(a) ==
    IF ~Imminent THEN 0
    ELSE IF Has(a, DefenseWords) THEN 45000
    ELSE IF Has(a, IdleWords) THEN -30000 ELSE -12000

\* Slip: what was learned counts as much in a race.
LearnedAnywhere(v) ==
    IF memory[v].samples = 0 THEN 0
    ELSE Clamp((memory[v].total * 60) \div memory[v].samples, -30000, 30000)

\* In a race no reward overrides the geometry of the road.
Learned(v) ==
    LET limit == IF Racing THEN 2000 ELSE 30000 IN
    IF memory[v].samples = 0 THEN 0
    ELSE Clamp((memory[v].total * 60) \div memory[v].samples, 0 - limit, limit)

Score(a) ==
    BaseScore(a) + StrategyScore(a) + PlanScore(a) + HintScore(a) + RacingScore(a) + ThreatScore(a)
    + Pts(preferred \in a.words, 12) + Learned(a.verb)

\* Slip: the plan's avoided actions are weighed only.
AllOffered == offered

\* What the plan avoids is considered only if it avoids everything.
Permitted ==
    LET rest == {a \in offered : ~\E t \in plan.avoid : Meant(a, t)} IN
    IF rest = {} THEN offered ELSE rest

choose ==
    /\ chosen = NoAction
    /\ chosen' \in {a \in Permitted : \A b \in Permitted : Score(b) <= Score(a)}
    /\ UNCHANGED <<plan, situation, offered, memory, preferred, lessons, rankedBy>>
-----------------------------------------------------------------------------
(* Feedback, measured between two observations.                            *)
Known(before, after) == {k \in DOMAIN before : before[k] # Missing /\ after[k] # Missing}

\* In hundredths; lives weigh two, what is left of the way counts up to two points, a place as well.
Weighed(k, delta) ==
    CASE k = "lives" -> 200 * delta
      [] k = "opponentLives" -> -200 * delta
      [] k = "score" -> 100 * delta
      [] k = "distance" -> Clamp((0 - 100 * delta) \div 1500, -200, 200)
      [] k = "place" -> Clamp(0 - 100 * delta, -200, 200)
      [] k = "offRoad" -> IF delta > 0 THEN -300 ELSE IF delta < 0 THEN 200 ELSE 0
      [] k = "finished" -> IF delta > 0 THEN 500 ELSE 0

transitionFeedback(before, after) ==
    LET known == Known(before, after)
        reward == Clamp(MapThenSumSet(LAMBDA k : Weighed(k, after[k] - before[k]), known), -10000, 10000) IN
    [reward |-> reward,
     outcome |-> CASE reward > 0 -> "positive"
                   [] reward < 0 -> "negative"
                   [] reward = 0 /\ known # {} -> "neutral"
                   [] OTHER -> "unknown"]

\* The means of two verbs, compared without dividing; then the samples, then the name.
Better(m, v, w) ==
    LET left == m[v].total * m[w].samples
        right == m[w].total * m[v].samples IN
    left > right \/ (left = right /\ m[v].samples >= m[w].samples)

\* Slip: an unknown outcome is a sample of nothing.
LearnAnything(v, feedback) ==
    [memory EXCEPT ![v] = [samples |-> @.samples + 1, total |-> @.total + feedback.reward]]

\* An unknown outcome is no evidence.
Learnt(v, feedback) ==
    IF feedback.outcome = "unknown" THEN memory
    ELSE [memory EXCEPT ![v] = [samples |-> @.samples + 1, total |-> @.total + feedback.reward]]

learn ==
    /\ chosen # NoAction /\ Cardinality(lessons) < MaxLessons
    /\ \E before, after \in Glimpses :
          LET feedback == transitionFeedback(before, after)
              m == Learnt(chosen.verb, feedback)
              rated == {v \in RankedDefenses \cap Verbs : m[v].samples > 0} IN
          /\ memory' = m
          /\ lessons' = lessons \cup {[verb |-> chosen.verb, n |-> Cardinality(lessons) + 1,
                                       before |-> before, after |-> after, feedback |-> feedback]}
          /\ IF feedback.outcome = "positive" /\ chosen.verb \in RankedDefenses
             THEN /\ preferred' \in {v \in rated : \A w \in rated : Better(m, v, w)}
                  /\ rankedBy' = m
             ELSE UNCHANGED <<preferred, rankedBy>>
    /\ chosen' = NoAction
    /\ situation' \in Situations /\ offered' \in Offers
    /\ UNCHANGED plan

Next == choose \/ learn
Spec == Init /\ [][Next]_live
-----------------------------------------------------------------------------
TypeOK ==
    /\ chosen \in offered \cup {NoAction}
    /\ \A v \in Verbs : memory[v].samples \in 0..MaxLessons
    /\ preferred \in Verbs \cup {None}

Plain == plan.avoid = {} /\ plan.weights = {} /\ plan.rules = {} /\ plan.mentions = <<>>
Unprompted == Plain /\ situation.scores = <<>> /\ situation.hinted = {} /\ situation.warned = {}

(* What a plan avoids is played only if it avoids all that is offered, even  *)
(* when text, hints, threats and experience speak for it.                    *)
AvoidsWhatItMust ==
    chosen # NoAction /\ (\E t \in plan.avoid : Meant(chosen, t)) =>
        \A a \in offered : \E t \in plan.avoid : Meant(a, t)

(* Off the road the agent steers back to it, whatever it has learned and     *)
(* whatever threatens it: rewards cannot override the road.                  *)
SteersBack ==
    (/\ chosen # NoAction /\ Unprompted /\ Racing /\ situation.phase = "active"
     /\ situation.road.lane # Missing /\ situation.road.offRoad
     /\ \E a \in offered : a.words = {Steering.to})
    => Steering.to \in chosen.words

(* Nothing that an agent has learned makes it restart or leave a game        *)
(* while there is anything else to do than to set one up.                    *)
DoesNotLeave ==
    (chosen # NoAction /\ Unprompted /\ Has(chosen, DestructiveWords)) =>
        \A a \in offered : Has(a, DestructiveWords \cup CommitWords \cup ChangeWords)

(* What is remembered of a verb is what was measured after it, and only      *)
(* where something could be measured; the preferred defence was the best one *)
(* when a defence last paid off.                                             *)
LearnsFromEvidence ==
    /\ \A v \in Verbs :
          LET known == {l \in lessons : l.verb = v /\ Known(l.before, l.after) # {}} IN
          /\ memory[v].samples = Cardinality(known)
          /\ memory[v].total = MapThenSumSet(LAMBDA l : l.feedback.reward, known)
          /\ Size(memory[v].total) <= 10000 * memory[v].samples
    /\ preferred # None =>
          /\ \A v \in RankedDefenses \cap Verbs :
                rankedBy[v].samples > 0 => Better(rankedBy, preferred, v)
          /\ \E l \in lessons : l.verb \in RankedDefenses /\ l.feedback.outcome = "positive"

PolicyIsSound == AvoidsWhatItMust /\ SteersBack /\ DoesNotLeave /\ LearnsFromEvidence
=============================================================================
