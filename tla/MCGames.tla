------------------------------- MODULE MCGames -------------------------------
(***************************************************************************)
(* Games and those who play them by rule, one part at a time: the rules of *)
(* a game and their trials, and the policies, strategies and teams of      *)
(* agents, and the loop that keeps a strategy up to date in a live match.  *)
(* `focus` names the part; the others are not there.                       *)
(***************************************************************************)
EXTENDS StrategyLoop, Sequences, TLC

CONSTANTS Missing, NoMove, NoPart

VARIABLES
    focus,
    now, strategy, epoch, pending, usedAt, leases, proposals, said, granted, commits, \* team
    contract, current, changes, changedAt, evidence, lastAt, history,              \* Adaptation
    policy, state, lastMatchedAt, taken,                                           \* PolicyRuntime
    board, currentSeat, turn, winner, draw, steps, caller, queue, made, others, moves, told, \* grid
    wall, prepared, round, next, purpose, replay, astray, seen, views,             \* SandboxedGame
    plan, situation, offered, chosen, memory, preferred, lessons, rankedBy,        \* LivePolicy
    decisions, submitted, rejected, actions, ruleHits, reward, positive, negative, recent, log,
    kind, verdict, step, place, moved, acted, answers, attempt, runs, decided      \* RuntimeTrials

Team == INSTANCE TeamCoordination WITH
    Members <- {"s1"}, Responsibilities <- {"defend"}, Strategies <- {"rush", "hold"},
    InitialStrategy <- "hold", MessagesPerTick <- 1, MaxTick <- 2, MaxMessages <- 2, MaxProposals <- 2

\* Two strategies that each give way to the other, and one for good.
Transition(i, from, to, at, operator, value, confirm, dwell, cooldown) ==
    [id |-> i, from |-> from, to |-> to, at |-> at,
     threshold |-> [operator |-> operator, value |-> value],
     confirmForSteps |-> confirm, minimumDwellSteps |-> dwell, cooldownSteps |-> cooldown]
Contract(confirm, dwell, cooldown, most, span) ==
    [initialStrategy |-> "a", strategies |-> {"a", "b", "c"},
     transitions |-> <<Transition(1, {"b"}, "a", "turn", "lte", 0, confirm, 0, cooldown),
                       Transition(2, {"a", "c"}, "b", "turn", "gt", 0, confirm, dwell, cooldown),
                       Transition(3, {"a", "b"}, "c", "round", "eq", 1, 1, dwell, 0)>>,
     maxChangesPerWindow |-> most, changeWindowSteps |-> span]
SomeContracts == {Contract(1, 0, 2, 3, 4), Contract(1, 2, 0, 1, 3), Contract(2, 0, 0, 1, 2),
                  Contract(1, 0, 0, 2, 3)}
Adapt == INSTANCE Adaptation WITH
    Contracts <- SomeContracts, Points <- {"turn", "round"}, Values <- {0, 1},
    MaxObservations <- 5

\* A rule with one disjunct, or two.
Rule(id, when, select, cooldown, to) ==
    [id |-> id, when |-> when, select |-> select, cooldownSteps |-> cooldown, transitionTo |-> to]
Clause(left, operator, right) == [left |-> left, operator |-> operator, right |-> right, path |-> FALSE]
Select(how, wanted) == [kind |-> how, actions |-> wanted, indexPath |-> "observation.value"]
Always == {{}}
OneState ==
    [initialState |-> "s", maxSteps |-> 4, fallback |-> Select("first-legal", <<>>),
     states |-> [s |-> <<
        Rule("r1", {{Clause("observation.value", ">=", 1), Clause("policy.step", "!=", 2)},
                    {Clause("observation.value", "==", Missing)}},
             Select("prefer-legal", <<2, 1>>), 1, "none"),
        Rule("r2", Always, Select("indexed-legal", <<>>), 2, "none")>>]]
TwoStates ==
    [initialState |-> "s", maxSteps |-> 4, fallback |-> Select("none", <<>>),
     states |->
        [s |-> <<Rule("r1", {{Clause("observation.value", "<", 1)}}, Select("first-legal", <<>>), 2, "t"),
                 Rule("r2", Always, Select("prefer-legal", <<1>>), 0, "t")>>,
         t |-> <<Rule("r1", Always, Select("indexed-legal", <<>>), 2, "s")>>]]
Policy == INSTANCE PolicyRuntime WITH
    Policies <- {OneState, TwoStates}, Numbers <- {-1, 1}, NoAction <- NoMove,
    Offers <- {<<>>, <<1>>, <<1, 2>>}, decisions <- taken

Grid == INSTANCE GridPlacement WITH
    Seats <- <<"s1", "s2">>, Cells <- 1..4, Lines <- {{1, 2}, {3, 4}},
    Steppers <- {"r1", "r2"}, MaxSteps <- 3, MaxCalls <- 2, MaxOthers <- 1, answers <- told

Sandbox == INSTANCE SandboxedGame WITH MaxRounds <- 2, MaxSteps <- 2, MaxClock <- 1, clock <- wall

Report == INSTANCE StrategyReport WITH
    Moves <- {"left", "right", "fire"}, RuleCount <- 1, Summaries <- {"hit", "miss"},
    MaxNames <- 2, MaxRecent <- 2, MaxListed <- 1, MaxEntries <- 3

Trials == INSTANCE RuntimeTrials WITH SeatCount <- 2, MaxSteps <- 3, Choices <- 2
-----------------------------------------------------------------------------
\* The actions of a race with something to duck, and of a menu.
Act(word) == [id |-> word, label |-> word, words |-> {word}, verb |-> word]
Drive == {Act("left"), Act("right"), Act("accelerate"), Act("brake")}
Duel == {Act("jump"), Act("duck"), Act("wait"), Act("restart")}

Clear == [lane |-> Missing, offRoad |-> FALSE, curve |-> 0, speed |-> 50, gap |-> Missing, trafficLane |-> 0]
Still(phase, bullets, road) ==
    [phase |-> phase, state |-> [hp |-> 1], at |-> 10, bullets |-> bullets, road |-> road,
     scores |-> <<>>, hinted |-> {}, warned |-> {}]
Bullet(x, speed) == [x |-> x, speed |-> speed, own |-> FALSE]
Roads == {[Clear EXCEPT !.lane = 90, !.offRoad = TRUE], [Clear EXCEPT !.lane = -90, !.offRoad = TRUE, !.curve = 90],
          [Clear EXCEPT !.lane = 0, !.curve = 60, !.speed = 90]}
SomeSituations ==
    {Still("active", {}, road) : road \in Roads}
    \cup {Still("active", {Bullet(0, 20)}, [Clear EXCEPT !.lane = 90, !.offRoad = TRUE])}
    \cup {Still("setup", {Bullet(0, 20)}, Clear), Still("terminal", {Bullet(0, -20)}, Clear)}
    \cup {[Still("active", {}, Clear) EXCEPT !.hinted = {"restart"}, !.scores = [duck |-> 40]]}
NoPlan == [mentions |-> <<>>, avoid |-> {}, weights |-> {}, rules |-> {}]
SomePlans ==
    {NoPlan,
     [NoPlan EXCEPT !.avoid = {"duck", "left"}, !.weights = {[target |-> "left", weight |-> 100]},
                    !.mentions = [duck |-> "prefer"]],
     [NoPlan EXCEPT !.avoid = {"jump", "duck", "wait", "restart"},
                    !.rules = {[target |-> "wait", weight |-> 60,
                                when |-> {[path |-> "hp", op |-> "gte", value |-> 1]}]}]}
Glimpse(lives, distance) == [lives |-> lives, distance |-> distance]
Live == INSTANCE LivePolicy WITH
    Catalog <- Drive \cup Duel, Offers <- {Drive, Duel, {Act("restart"), Act("jump")}},
    Situations <- SomeSituations, Plans <- SomePlans, MaxLessons <- 2,
    Glimpses <- {Glimpse(0, Missing), Glimpse(50, Missing), Glimpse(Missing, 3000)}
-----------------------------------------------------------------------------
ASSUME GameBounds ==
    /\ Team!TeamAssumption /\ Adapt!AdaptationAssumption /\ Policy!PolicyAssumption
    /\ Grid!GridAssumption /\ LoopAssumption
    /\ Sandbox!SandboxAssumption /\ Trials!TrialAssumption

OfTeam == <<now, strategy, epoch, pending, usedAt, leases, proposals, said, granted, commits>>
OfAdapt == <<contract, current, changes, changedAt, evidence, lastAt, history>>
OfPolicy == <<policy, state, lastMatchedAt, taken>>
OfGrid == <<board, currentSeat, turn, winner, draw, steps, caller, queue, made, others, moves, told>>
OfSandbox == <<wall, prepared, round, next, purpose, replay, astray, seen, views>>
OfLive == <<plan, situation, offered, chosen, memory, preferred, lessons, rankedBy>>
OfReport == <<decisions, submitted, rejected, actions, ruleHits, reward, positive, negative, recent, log>>
OfTrials == <<kind, verdict, step, place, moved, acted, answers, attempt, runs, decided>>
Rest(part) ==
    /\ IF part = "team" THEN TRUE ELSE UNCHANGED OfTeam
    /\ IF part = "adapt" THEN TRUE ELSE UNCHANGED OfAdapt
    /\ IF part = "policy" THEN TRUE ELSE UNCHANGED OfPolicy
    /\ IF part = "grid" THEN TRUE ELSE UNCHANGED OfGrid
    /\ IF part = "sandbox" THEN TRUE ELSE UNCHANGED OfSandbox
    /\ IF part = "live" THEN TRUE ELSE UNCHANGED OfLive
    /\ IF part = "report" THEN TRUE ELSE UNCHANGED OfReport
    /\ IF part = "trials" THEN TRUE ELSE UNCHANGED OfTrials
    /\ IF part = "loop" THEN TRUE ELSE UNCHANGED vars

\* A part that does not move is not there.
AnyInit ==
    /\ focus \in {"team", "adapt", "policy", "grid", "sandbox", "live", "report", "trials", "loop"}
    /\ Init /\ (focus # "loop" => game.mode = "discrete")
    /\ IF focus = "team" THEN Team!Init
       ELSE /\ now = NoPart /\ strategy = NoPart /\ epoch = NoPart /\ pending = NoPart
            /\ usedAt = NoPart /\ leases = NoPart /\ proposals = NoPart /\ said = NoPart
            /\ granted = NoPart /\ commits = NoPart
    /\ IF focus = "adapt" THEN Adapt!Init
       ELSE /\ contract = NoPart /\ current = NoPart /\ changes = NoPart /\ changedAt = NoPart
            /\ evidence = NoPart /\ lastAt = NoPart /\ history = NoPart
    /\ IF focus = "policy" THEN Policy!Init
       ELSE policy = NoPart /\ state = NoPart /\ lastMatchedAt = NoPart /\ taken = NoPart
    /\ IF focus = "grid" THEN Grid!Init
       ELSE /\ board = NoPart /\ currentSeat = NoPart /\ turn = NoPart /\ winner = NoPart
            /\ draw = NoPart /\ steps = NoPart /\ caller = NoPart /\ queue = NoPart
            /\ made = NoPart /\ others = NoPart /\ moves = NoPart /\ told = NoPart
    /\ IF focus = "sandbox" THEN Sandbox!Init
       ELSE /\ wall = NoPart /\ prepared = NoPart /\ round = NoPart /\ next = NoPart
            /\ purpose = NoPart /\ replay = NoPart /\ astray = NoPart /\ seen = NoPart
            /\ views = NoPart
    /\ IF focus = "live" THEN Live!Init
       ELSE /\ plan = NoPart /\ situation = NoPart /\ offered = NoPart /\ chosen = NoPart
            /\ memory = NoPart /\ preferred = NoPart /\ lessons = NoPart /\ rankedBy = NoPart
    /\ IF focus = "report" THEN Report!Init
       ELSE /\ decisions = NoPart /\ submitted = NoPart /\ rejected = NoPart /\ actions = NoPart
            /\ ruleHits = NoPart /\ reward = NoPart /\ positive = NoPart /\ negative = NoPart
            /\ recent = NoPart /\ log = NoPart
    /\ IF focus = "trials" THEN Trials!Init
       ELSE /\ kind = NoPart /\ verdict = NoPart /\ step = NoPart /\ place = NoPart
            /\ moved = NoPart /\ acted = NoPart /\ answers = NoPart /\ attempt = NoPart
            /\ runs = NoPart /\ decided = NoPart

AnyNext ==
    /\ UNCHANGED focus
    /\ \/ focus = "team" /\ Team!Next /\ Rest("team")
       \/ focus = "adapt" /\ Adapt!Next /\ Rest("adapt")
       \/ focus = "policy" /\ Policy!Next /\ Rest("policy")
       \/ focus = "grid" /\ Grid!Next /\ Rest("grid")
       \/ focus = "sandbox" /\ Sandbox!Next /\ Rest("sandbox")
       \/ focus = "live" /\ Live!Next /\ Rest("live")
       \/ focus = "report" /\ Report!Next /\ Rest("report")
       \/ focus = "trials" /\ Trials!Next /\ Rest("trials")
       \/ focus = "loop" /\ Next /\ Rest("loop")

AnySpec ==
    AnyInit /\ [][AnyNext]_<<focus, OfTeam, OfAdapt, OfPolicy, OfGrid, OfSandbox, OfLive,
                            OfReport, OfTrials, vars>>
\* A bound of the loop: in real time no note is written where something fails.
NotesApart == game.mode = "realtime" => budget.notes = 0 \/ budget.upsets = 0
-----------------------------------------------------------------------------
PartIsTyped ==
    CASE focus = "team" -> Team!TypeOK
      [] focus = "adapt" -> Adapt!TypeOK
      [] focus = "policy" -> Policy!TypeOK
      [] focus = "grid" -> Grid!TypeOK
      [] focus = "sandbox" -> Sandbox!TypeOK
      [] focus = "live" -> Live!TypeOK
      [] focus = "report" -> Report!TypeOK
      [] focus = "trials" -> Trials!TypeOK
      [] focus = "loop" -> TRUE

(* Who plays by rule keeps the rule: leases of a team, changes of strategy,  *)
(* a policy's states and cooldowns, moves on a board, the road before the    *)
(* rewards; and what is measured of a game or of a strategy is what          *)
(* happened, in replays, reviews, lessons and trials.                        *)
RulesAreKept ==
    /\ PartIsTyped
    /\ focus = "team" => Team!TeamAgrees
    /\ focus = "adapt" => Adapt!ContractIsKept
    /\ focus = "policy" => Policy!PolicyIsKept
    /\ focus = "grid" => Grid!GameIsAsPlayed /\ Grid!StepsAreAnswered
    /\ focus = "sandbox" => Sandbox!ReplayLeadsHere /\ Sandbox!OwnDataOnly
    /\ focus = "live" => Live!PolicyIsSound
    /\ focus = "report" => Report!ReportIsTrue
    /\ focus = "trials" => Trials!PassedIsPlayable /\ Trials!WaveringIsSeen
=============================================================================
