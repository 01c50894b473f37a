--------------------------- MODULE StrategyReport ---------------------------
(***************************************************************************)
(* What a review is told of the strategy in force (strategy-loop.ts): a    *)
(* window that counts decisions, actions, rules that matched, submissions  *)
(* and feedback since the strategy was last replaced, within bounds.       *)
(*                                                                         *)
(* Rewards are whole numbers; texts are names.                             *)
(***************************************************************************)
EXTENDS Integers, Sequences, FiniteSets, SequencesExt, FiniteSetsExt

CONSTANTS
    Moves, RuleCount, Summaries,
    MaxNames,     \* actions counted by name (40 in the code)
    MaxRecent,    \* feedback kept (6)
    MaxListed,    \* actions reported (8)
    MaxEntries    \* bound

VARIABLES
    decisions, submitted, rejected, actions, ruleHits, reward, positive, negative, recent,
    log   \* ghost: all that was recorded since the window began

window == <<decisions, submitted, rejected, actions, ruleHits, reward, positive, negative, recent, log>>

Rules == 1..RuleCount
Silent == "none"

\* emptyPerformanceWindow.
Empty ==
    /\ decisions = 0 /\ submitted = 0 /\ rejected = 0
    /\ actions = [m \in {} |-> 0] /\ ruleHits = [r \in Rules |-> 0]
    /\ reward = 0 /\ positive = 0 /\ negative = 0 /\ recent = <<>> /\ log = <<>>

Init == Empty
-----------------------------------------------------------------------------
More == Len(log) < MaxEntries

\* A name that is new is not counted once there are enough.
Counted(m) ==
    IF m \in DOMAIN actions THEN [actions EXCEPT ![m] = @ + 1]
    ELSE IF Cardinality(DOMAIN actions) < MaxNames
    THEN [x \in DOMAIN actions \cup {m} |-> IF x = m THEN 1 ELSE actions[x]]
    ELSE actions

recordStrategyDecision(m, matched) ==
    /\ More /\ log' = Append(log, [kind |-> "decision", what |-> m, rules |-> matched])
    /\ decisions' = decisions + 1
    /\ actions' = Counted(m)
    /\ ruleHits' = [r \in Rules |-> IF r \in matched THEN ruleHits[r] + 1 ELSE ruleHits[r]]
    /\ UNCHANGED <<submitted, rejected, reward, positive, negative, recent>>

recordStrategySubmission(disposition) ==
    /\ More /\ log' = Append(log, [kind |-> "submission", what |-> disposition, rules |-> {}])
    /\ submitted' = submitted + 1
    /\ rejected' = IF disposition \in {"accepted", "duplicate"} THEN rejected ELSE rejected + 1
    /\ UNCHANGED <<decisions, actions, ruleHits, reward, positive, negative, recent>>

Points(outcome) == CASE outcome = "positive" -> 2 [] outcome = "negative" -> -1 [] OTHER -> 0

\* Slip: repetitions are kept.
KeptTwice(outcome, summary) ==
    LET all == Append(recent, summary) IN
    IF outcome \in {"neutral", "unknown"} \/ summary = Silent THEN recent
    ELSE IF Len(all) > MaxRecent THEN Tail(all) ELSE all

\* A text that repeats the last one is not kept, nor that of a neutral outcome.
Kept(outcome, summary) ==
    LET repeats == recent # <<>> /\ Last(recent) = summary
        all == Append(recent, summary) IN
    IF outcome \in {"neutral", "unknown"} \/ summary = Silent \/ repeats THEN recent
    ELSE IF Len(all) > MaxRecent THEN Tail(all) ELSE all

recordStrategyFeedback(outcome, summary) ==
    /\ More /\ log' = Append(log, [kind |-> outcome, what |-> summary, rules |-> {}])
    /\ reward' = reward + Points(outcome)
    /\ positive' = IF outcome = "positive" THEN positive + 1 ELSE positive
    /\ negative' = IF outcome = "negative" THEN negative + 1 ELSE negative
    /\ recent' = Kept(outcome, summary)
    /\ UNCHANGED <<decisions, submitted, rejected, actions, ruleHits>>

\* The strategy is replaced.
Restart ==
    /\ decisions' = 0 /\ submitted' = 0 /\ rejected' = 0
    /\ actions' = [m \in {} |-> 0] /\ ruleHits' = [r \in Rules |-> 0]
    /\ reward' = 0 /\ positive' = 0 /\ negative' = 0 /\ recent' = <<>> /\ log' = <<>>

\* summarizeStrategyPerformance.
unusedRules == {r \in Rules : ruleHits[r] = 0}
topActions ==
    LET order == SetToSortSeq(DOMAIN actions, LAMBDA a, b : actions[a] > actions[b]) IN
    SubSeq(order, 1, Min({MaxListed, Len(order)}))

Next ==
    \/ Restart
    \/ \E m \in Moves, matched \in SUBSET Rules : recordStrategyDecision(m, matched)
    \/ \E d \in {"accepted", "duplicate", "rejected"} : recordStrategySubmission(d)
    \/ \E o \in {"positive", "negative", "neutral", "unknown"}, s \in Summaries \cup {Silent} :
          recordStrategyFeedback(o, s)

Spec == Init /\ [][Next]_window
-----------------------------------------------------------------------------
TypeOK ==
    /\ decisions \in 0..MaxEntries /\ submitted \in 0..MaxEntries /\ rejected \in 0..submitted
    /\ DOMAIN actions \subseteq Moves /\ Len(recent) <= MaxRecent

Entries(kind) == {i \in DOMAIN log : log[i].kind = kind}
Told == SelectSeq(log, LAMBDA e : e.kind \in {"positive", "negative"} /\ e.what # Silent)
Fresh == {i \in DOMAIN Told : i = 1 \/ Told[i - 1].what # Told[i].what}

(* A review is not misled: the rules that it is told never matched never     *)
(* did, the actions that it is told are the commonest are among the first    *)
(* that were played, each with its true count, and the feedback is the       *)
(* latest, in order and without what was said before it.                     *)
ReportIsTrue ==
    /\ unusedRules = {r \in Rules : \A i \in Entries("decision") : r \notin log[i].rules}
    /\ decisions = Cardinality(Entries("decision"))
    /\ \A m \in DOMAIN actions :
          actions[m] = Cardinality({i \in Entries("decision") : log[i].what = m})
    /\ (\E i \in Entries("decision") : log[i].what \notin DOMAIN actions) =>
          Cardinality(DOMAIN actions) = MaxNames
    /\ \A i, j \in DOMAIN topActions : i < j => actions[topActions[i]] >= actions[topActions[j]]
    /\ \A m \in DOMAIN actions : m \notin ToSet(topActions) =>
          \A x \in ToSet(topActions) : actions[x] >= actions[m]
    /\ LET last == {i \in Fresh : Cardinality({j \in Fresh : j >= i}) <= MaxRecent} IN
       recent = [n \in 1..Cardinality(last) |->
                   Told[CHOOSE i \in last : Cardinality({j \in last : j <= i}) = n].what]
=============================================================================
