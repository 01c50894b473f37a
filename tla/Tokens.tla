------------------------------- MODULE Tokens -------------------------------
(***************************************************************************)
(* Totals of finite token balances.  A balance sheet is a function from a  *)
(* finite set of holders to natural numbers of base units.  Its total is   *)
(* the number of its coins, a coin being a holder with the serial number   *)
(* of one of the units it holds.  Counting coins instead of folding + over *)
(* the holders keeps every fact about totals a fact about the cardinality  *)
(* of finite sets, which is what the proofs of this project use.           *)
(***************************************************************************)
EXTENDS Integers, FiniteSets

\* One coin per unit that f gives to a holder.
Coins(f) == UNION {{x} \X (1..f[x]) : x \in DOMAIN f}

\* The sum of f over its domain.
Total(f) == Cardinality(Coins(f))
=============================================================================
