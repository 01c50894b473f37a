---------------------------- MODULE EscrowMatch ----------------------------
(***************************************************************************)
(* What the escrow promises about one match, whatever happens to the       *)
(* others: its seats are owned once and for all, it is locked at most once *)
(* and only when what must be paid is paid, and it ends at most once, with *)
(* a winner that owns a seat or with refunds.                              *)
(*                                                                         *)
(* ArcadeEscrow implements this for each of its matches, and PaidMatch     *)
(* builds on it: it is the interface between the contract and the payment  *)
(* service.                                                                *)
(***************************************************************************)
CONSTANTS Seats, Players, Hashes, NoOne

VARIABLES status,      \* "Absent", "Funding", "Locked", "Settled", "Voided"
          owner,       \* seat -> player it belongs to
          paid,        \* seats whose stake has been accounted for
          due,         \* seats that must be paid before the match is locked
          winner,      \* winning seat
          resultHash   \* hash of the replay the result was computed from

chain == <<status, owner, paid, due, winner, resultHash>>

Init ==
    /\ status = "Absent"
    /\ owner = [s \in Seats |-> NoOne]
    /\ paid = {} /\ due = {}
    /\ winner = NoOne /\ resultHash = NoOne

\* createMatch reserves seats for players, createOpenMatch for nobody.
Create(reserved, mustBePaid) ==
    /\ status = "Absent"
    /\ status' = "Funding"
    /\ owner' = reserved /\ due' = mustBePaid
    /\ UNCHANGED <<paid, winner, resultHash>>

\* stake, stakeWithAuthorization, recoverAuthorizedStake, claimSeatFor.
TakeSeat(s, p) ==
    /\ status = "Funding"
    /\ s \notin paid /\ owner[s] \in {NoOne, p}
    /\ owner' = [owner EXCEPT ![s] = p]
    /\ paid' = paid \cup {s}
    /\ UNCHANGED <<status, due, winner, resultHash>>

Lock ==
    /\ status = "Funding" /\ due \subseteq paid
    /\ status' = "Locked"
    /\ UNCHANGED <<owner, paid, due, winner, resultHash>>

Settle(w, hash) ==
    /\ status = "Locked" /\ owner[w] # NoOne
    /\ status' = "Settled" /\ winner' = w /\ resultHash' = hash
    /\ UNCHANGED <<owner, paid, due>>

Void ==
    /\ status \in {"Funding", "Locked"}
    /\ status' = "Voided"
    /\ UNCHANGED <<owner, paid, due, winner, resultHash>>

Next ==
    \/ \E reserved \in [Seats -> Players \cup {NoOne}], d \in SUBSET Seats :
          Create(reserved, d)
    \/ \E s \in Seats, p \in Players : TakeSeat(s, p)
    \/ Lock
    \/ \E w \in Seats, hash \in Hashes : Settle(w, hash)
    \/ Void

Spec == Init /\ [][Next]_chain
=============================================================================
