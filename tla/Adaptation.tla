----------------------------- MODULE Adaptation -----------------------------
(***************************************************************************)
(* The controller that changes an agent's strategy by what it observes     *)
(* (packages/adaptation): a transition needs its evidence confirmed over   *)
(* consecutive observations, a dwell since the last change, a cooldown of  *)
(* its own, and room in the window that limits all changes.                *)
(*                                                                         *)
(* There is one metric; a metric that is missing satisfies nothing.  The   *)
(* contract is chosen at the start.  A transition is given with its place  *)
(* in the order of priority and id.                                        *)
(***************************************************************************)
EXTENDS Integers, Sequences, FiniteSets, FiniteSetsExt

CONSTANTS
    Contracts,        \* the contracts that are considered
    Points,           \* adaptation points that the game allows
    Values, Missing,  \* of the metric
    MaxObservations   \* bound

VARIABLES
    contract, current, changes, changedAt, evidence, lastAt,
    history   \* ghost: each observation, the strategy before it, the transition that it made

controller == <<contract, current, changes, changedAt, evidence, lastAt, history>>

step == Len(history)

\* What the schema and the constructor ask of a contract.
Valid(c) ==
    /\ c.initialStrategy \in c.strategies
    /\ c.maxChangesPerWindow > 0 /\ c.changeWindowSteps > 0
    /\ \A i \in DOMAIN c.transitions :
          /\ c.transitions[i].id = i
          /\ c.transitions[i].to \in c.strategies
          /\ c.transitions[i].at \in Points
          /\ c.transitions[i].confirmForSteps > 0

AdaptationAssumption == \A c \in Contracts : Valid(c)

Satisfied(value, threshold) ==
    /\ value # Missing
    /\ CASE threshold.operator = "gte" -> value >= threshold.value
         [] threshold.operator = "gt" -> value > threshold.value
         [] threshold.operator = "lte" -> value <= threshold.value
         [] threshold.operator = "lt" -> value < threshold.value
         [] threshold.operator = "eq" -> value = threshold.value

Init ==
    /\ contract \in Contracts
    /\ current = contract.initialStrategy
    /\ changes = <<>> /\ changedAt = 0
    /\ evidence = [i \in DOMAIN contract.transitions |-> 0]
    /\ lastAt = [i \in DOMAIN contract.transitions |-> 0]
    /\ history = <<>>
-----------------------------------------------------------------------------
Eligible(point) ==
    {i \in DOMAIN contract.transitions :
        contract.transitions[i].at = point /\ current \in contract.transitions[i].from}

\* Slip: the window is one step too long.
PrunedLate(n) == SelectSeq(changes, LAMBDA c : c >= n - contract.changeWindowSteps)

\* pruneChanges, at step n.
Pruned(n) == SelectSeq(changes, LAMBDA c : c > n - contract.changeWindowSteps)

\* Whether transition i comes to the limit of changes at step n, with the evidence that it then has.
Asks(i, n, count) ==
    LET t == contract.transitions[i] IN
    /\ count >= t.confirmForSteps
    /\ n - changedAt >= t.minimumDwellSteps
    /\ lastAt[i] = 0 \/ n - lastAt[i] > t.cooldownSteps

\* The first that is made, in the order of priority, ends the observation; evidence starts anew.
observe(point, value) ==
    LET n == step + 1
        count == [i \in Eligible(point) |->
                    IF Satisfied(value, contract.transitions[i].threshold)
                    THEN evidence[i] + 1 ELSE 0]
        asking == {i \in Eligible(point) : Asks(i, n, count[i])}
        left == IF asking = {} THEN changes ELSE Pruned(n)
        made == IF asking = {} \/ Len(left) >= contract.maxChangesPerWindow THEN 0
                ELSE Min(asking) IN
    /\ step < MaxObservations
    /\ history' = Append(history, [point |-> point, value |-> value, before |-> current,
                                   made |-> made])
    /\ IF made = 0
       THEN /\ evidence' = [i \in DOMAIN evidence |->
                              IF i \in Eligible(point) THEN count[i] ELSE evidence[i]]
            /\ changes' = left
            /\ UNCHANGED <<current, changedAt, lastAt>>
       ELSE /\ current' = contract.transitions[made].to
            /\ changedAt' = n
            /\ lastAt' = [lastAt EXCEPT ![made] = n]
            /\ changes' = Append(left, n)
            /\ evidence' = [i \in DOMAIN evidence |-> 0]
    /\ UNCHANGED contract

Next == \E point \in Points, value \in Values \cup {Missing} : observe(point, value)

Spec == Init /\ [][Next]_controller
-----------------------------------------------------------------------------
TypeOK ==
    /\ current \in contract.strategies
    /\ changedAt \in 0..step
    /\ \A i \in DOMAIN contract.transitions : evidence[i] \in 0..step /\ lastAt[i] \in 0..step

\* The steps at which the strategy changed, those of transition i, and the last before step n.
Changed == {n \in 1..step : history[n].made # 0}
MadeBy(i) == {n \in Changed : history[n].made = i}
LastBefore(n) == Max({0} \cup {m \in Changed : m < n})

\* The evidence for transition i at step n, by what was observed: the last observations at its
\* point since the strategy last changed.
Confirmed(i, n) ==
    LET t == contract.transitions[i]
        seen == {m \in (LastBefore(n) + 1)..n : history[m].point = t.at} IN
    \E m \in seen :
        LET last == {x \in seen : x >= m} IN
        /\ Cardinality(last) = t.confirmForSteps
        /\ \A x \in last : Satisfied(history[x].value, t.threshold)

\* Transition i may be made at step n, by the history alone.
Ready(i, n) ==
    LET t == contract.transitions[i] IN
    /\ history[n].point = t.at /\ history[n].before \in t.from
    /\ Confirmed(i, n)
    /\ n - LastBefore(n) >= t.minimumDwellSteps
    /\ \A m \in MadeBy(i) : m < n => n - m > t.cooldownSteps
    /\ Cardinality({m \in Changed : m < n /\ m > n - contract.changeWindowSteps})
            < contract.maxChangesPerWindow

(* The strategy changes exactly when the contract, read against all that was *)
(* observed, lets a transition be made, and by the first of them: evidence   *)
(* of an earlier strategy does not count, and no window of steps, wherever   *)
(* it begins, has more changes than allowed.                                 *)
ContractIsKept ==
    /\ \A n \in 1..step :
          LET ready == {i \in DOMAIN contract.transitions : Ready(i, n)} IN
          history[n].made = IF ready = {} THEN 0 ELSE Min(ready)
    /\ \A n \in 1..step :
          Cardinality({m \in Changed : m \in n..(n + contract.changeWindowSteps - 1)})
            <= contract.maxChangesPerWindow
    /\ current = IF Changed = {} THEN contract.initialStrategy
                 ELSE contract.transitions[history[Max(Changed)].made].to
=============================================================================
