---------------------------- MODULE MCMatchWorker ----------------------------
(* Small instances of MatchWorker: two seats; ann has two controllers.      *)
EXTENDS MatchWorker, TLC

CONSTANTS s1, s2, ann, bob, pad, bot, key

ActorOf(c) == IF c = key THEN bob ELSE ann

\* Nothing tells the seats apart, nor the two controllers of ann.
Symmetric == Permutations({s1, s2}) \cup Permutations({pad, bot})

FairSpec == Spec /\ Fairness
=============================================================================
