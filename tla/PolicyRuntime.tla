---------------------------- MODULE PolicyRuntime ----------------------------
(***************************************************************************)
(* The runtime of declarative policies (packages/policy-runtime) with what *)
(* the compiler guarantees of them (packages/policy-ir): states with rules *)
(* in the order of priority and id, conditions in disjunctive form, an     *)
(* action selector, cooldowns by rule id, a fallback and a step budget.    *)
(*                                                                         *)
(* An observation is one number, which may be missing, and the sequence of *)
(* legal actions.  The initial memory is never written: a path into it is  *)
(* a constant, and left out.                                               *)
(***************************************************************************)
EXTENDS Integers, Sequences, FiniteSets, FiniteSetsExt, SequencesExt

CONSTANTS
    Policies,         \* the policies that are considered
    Numbers, Missing, \* what an observation may hold
    Offers, NoAction  \* sequences of legal actions that are offered

VARIABLES
    policy,
    state,
    lastMatchedAt,    \* by rule id, whatever the state
    decisions         \* ghost: what was observed and decided at each step

runtime == <<policy, state, lastMatchedAt, decisions>>

RulesOf(p) == UNION {ToSet(p.states[s]) : s \in DOMAIN p.states}
Ids(p) == {r.id : r \in RulesOf(p)}

\* The schema: the states that are named are declared.
Compiled(p) ==
    /\ p.initialState \in DOMAIN p.states
    /\ p.maxSteps > 0
    /\ \A r \in RulesOf(p) : r.transitionTo = "none" \/ r.transitionTo \in DOMAIN p.states

PolicyAssumption == \A p \in Policies : Compiled(p)

Init ==
    /\ policy \in Policies
    /\ state = policy.initialState
    /\ lastMatchedAt = [i \in Ids(policy) |-> 0]
    /\ decisions = <<>>
-----------------------------------------------------------------------------
step == Len(decisions)

\* The value of a path: the observed number, the step, or the state.
Resolve(path, seen, n) ==
    CASE path = "observation.value" -> seen
      [] path = "policy.step" -> n
      [] path = "policy.state" -> state
      [] OTHER -> Missing

IsNumber(v) == v \in Int

\* Equality is strict, so nothing else equals what is missing; only numbers are ordered.
Compare(left, operator, right) ==
    CASE operator = "==" -> left = right
      [] operator = "!=" -> left # right
      [] operator = ">=" -> IsNumber(left) /\ IsNumber(right) /\ left >= right
      [] operator = "<" -> IsNumber(left) /\ IsNumber(right) /\ left < right
      [] OTHER -> FALSE

\* A set of disjuncts, each a set of clauses.
EvaluateCondition(when, seen, n) ==
    \E disjunct \in when : \A clause \in disjunct :
        Compare(Resolve(clause.left, seen, n), clause.operator,
                IF clause.path THEN Resolve(clause.right, seen, n) ELSE clause.right)

SelectAction(selector, seen, legal, n) ==
    LET wanted == SelectSeq(selector.actions, LAMBDA a : a \in ToSet(legal))
        index == Resolve(selector.indexPath, seen, n) IN
    CASE selector.kind = "first-legal" /\ legal # <<>> -> legal[1]
      [] selector.kind = "prefer-legal" /\ wanted # <<>> -> wanted[1]
      [] selector.kind = "indexed-legal" /\ IsNumber(index) /\ legal # <<>> ->
            legal[(index % Len(legal)) + 1]
      [] OTHER -> NoAction

\* Slip: the cooldown is a step too short.
MatchesEarly(rule, seen, n) ==
    /\ lastMatchedAt[rule.id] = 0 \/ n - lastMatchedAt[rule.id] >= rule.cooldownSteps
    /\ EvaluateCondition(rule.when, seen, n)

\* A rule with cooldown c is skipped in the c steps after it matched.
Matches(rule, seen, n) ==
    /\ lastMatchedAt[rule.id] = 0 \/ n - lastMatchedAt[rule.id] > rule.cooldownSteps
    /\ EvaluateCondition(rule.when, seen, n)

decide(seen, legal) ==
    LET n == step + 1
        rules == policy.states[state]   \* in the order of priority and id
        matching == {i \in DOMAIN rules : Matches(rules[i], seen, n)}
        matched == IF matching = {} THEN 0 ELSE Min(matching)
        selector == IF matched = 0 THEN policy.fallback ELSE rules[matched].select IN
    /\ step < policy.maxSteps
    /\ decisions' = Append(decisions,
          [seen |-> seen, legal |-> legal, state |-> state,
           rule |-> IF matched = 0 THEN "none" ELSE rules[matched].id,
           action |-> SelectAction(selector, seen, legal, n)])
    /\ lastMatchedAt' = IF matched = 0 THEN lastMatchedAt
                        ELSE [lastMatchedAt EXCEPT ![rules[matched].id] = n]
    /\ state' = IF matched = 0 \/ rules[matched].transitionTo = "none" THEN state
                ELSE rules[matched].transitionTo
    /\ UNCHANGED policy

Next == \E seen \in Numbers \cup {Missing}, legal \in Offers : decide(seen, legal)

Spec == Init /\ [][Next]_runtime
-----------------------------------------------------------------------------
TypeOK ==
    /\ state \in DOMAIN policy.states
    /\ step \in 0..policy.maxSteps
    /\ \A i \in Ids(policy) : lastMatchedAt[i] \in 0..step

At(n) == {m \in 1..step : decisions[m].rule # "none" /\ m < n}
RuleAt(n) == CHOOSE r \in ToSet(policy.states[decisions[n].state]) : r.id = decisions[n].rule

(* What a policy decides it may do: its action is one of those offered; a    *)
(* rule fires in its own state only, and not in its cooldown, even after it  *)
(* fired under the same name in another state; and where a rule could have   *)
(* fired the fallback was not taken.                                         *)
PolicyIsKept ==
    /\ \A n \in 1..step : decisions[n].action \in ToSet(decisions[n].legal) \cup {NoAction}
    /\ \A n \in At(step + 1) :
          /\ \E r \in ToSet(policy.states[decisions[n].state]) : r.id = decisions[n].rule
          /\ \A m \in At(n) : decisions[m].rule = decisions[n].rule =>
                n - m > RuleAt(n).cooldownSteps
    /\ \A n \in 1..step, r \in RulesOf(policy) :
          /\ decisions[n].rule = "none" /\ r \in ToSet(policy.states[decisions[n].state])
          /\ r.when = {{}}
          => \E m \in At(n) : decisions[m].rule = r.id /\ n - m <= r.cooldownSteps
    /\ \A n \in 2..step :
          decisions[n].state # decisions[n - 1].state => RuleAt(n - 1).transitionTo = decisions[n].state
=============================================================================
