---------------------------- MODULE MCPaidMatch ----------------------------
(* Small instances of PaidMatch: two seats, two players.                   *)
EXTENDS PaidMatch

CONSTANTS s1, s2, ann, bob
=============================================================================
