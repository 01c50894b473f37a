------------------------------ MODULE SeatEntry ------------------------------
(***************************************************************************)
(* Taking a paid seat without gas: MatchHost.entry of                      *)
(* services/payment-service/src/matches.ts, authorizedEntry and seats of   *)
(* escrow.ts, and the escrow's stakeWithAuthorization and                  *)
(* recoverAuthorizedStake as far as one lobby is concerned.                *)
(*                                                                         *)
(* A player signs a payment and sends it with its request; the service     *)
(* relays it to the escrow, and answers when the seat is seen on the chain *)
(* at a confirmed block. A request that failed or was cut off is sent      *)
(* again, with the same payment or with a new one. What is asked of a      *)
(* payment is read at the newest block, who has a seat at a confirmed one: *)
(* the chain is modelled by these two states.                              *)
(*                                                                         *)
(* Simplifications: one lobby; a stake is one unit; sponsored entries,     *)
(* controllers and the expiry of a payment are left out; nothing mined     *)
(* before the last confirmed block is ever undone.                         *)
(***************************************************************************)
EXTENDS Naturals, FiniteSets, Sequences, SequencesExt

CONSTANTS
    Requests, Seats, Players, Nobody,
    Asked,        \* seats that a request asks for, if it asks for one
    Nonces,       \* of the payments that may be signed
    Signer,       \* the player that signs a payment
    Funds,        \* stakes that a player has
    MaxPosts,     \* requests sent, retries included
    MaxMishaps    \* payments spent or revoked by their players, a lobby
                  \* cancelled, lost answers, crashes, undone blocks

EntryBounds ==
    /\ Signer \in [Nonces -> Players] /\ Funds \in Nat
    /\ MaxPosts \in Nat /\ MaxMishaps \in Nat
    /\ Nobody \notin Players

VARIABLES
    newest, confirmed,  \* states of the chain
    pool,               \* the service's transactions that are not mined
    made,               \* number of transactions it made
    record,             \* what the service saved of the lobby
    request,            \* what each request is doing
    line,               \* entryLock: requests in their order, the first one has it
    told,               \* seats that requests were told they have
    posts, mishaps

vars == <<newest, confirmed, pool, made, record, request, line, told, posts, mishaps>>

Idle == [pc |-> "idle"]
NewChain(reserved) ==
    [status |-> "funding", owner |-> reserved, paid |-> {}, credited |-> {},
     used |-> {}, moved |-> {}, good |-> {}, bad |-> {}]

Init ==
    \E reserved \in [Seats -> {Nobody}] \cup {f \in [Seats -> Players] : IsInjective(f)} :
        /\ newest = NewChain(reserved) /\ confirmed = newest
        /\ record = [stage |-> "funding", open |-> \A s \in Seats : reserved[s] = Nobody,
                     canceling |-> FALSE, owner |-> reserved, paid |-> {}]
        /\ pool = {} /\ made = 0 /\ line = <<>> /\ told = {}
        /\ request = [q \in Requests |-> Idle]
        /\ posts = 0 /\ mishaps = 0

-----------------------------------------------------------------------------
(* The chain.                                                              *)

Affords(c, p) == Cardinality({n \in c.moved : Signer[n] = p}) < Funds

\* Slip: a player may have two seats.
MayEnterTwice(c, tx) ==
    /\ c.status = "funding" /\ tx.nonce \notin c.credited
    /\ tx.seat \notin c.paid /\ c.owner[tx.seat] \in {Nobody, Signer[tx.nonce]}
    /\ IF tx.kind = "stake"
       THEN tx.nonce \notin c.used /\ Affords(c, Signer[tx.nonce])
       ELSE tx.nonce \in c.used

\* _authorizedEntry and _seat.
MayEnter(c, tx) ==
    LET p == Signer[tx.nonce] IN
    /\ c.status = "funding" /\ tx.nonce \notin c.credited
    /\ tx.seat \notin c.paid /\ c.owner[tx.seat] \in {Nobody, p}
    /\ \A s \in Seats \ {tx.seat} : c.owner[s] # p
    /\ IF tx.kind = "stake"
       THEN tx.nonce \notin c.used /\ Affords(c, p)
       ELSE tx.nonce \in c.used

Entered(c, tx) ==
    [c EXCEPT !.owner[tx.seat] = Signer[tx.nonce], !.paid = @ \cup {tx.seat},
              !.credited = @ \cup {tx.nonce}, !.used = @ \cup {tx.nonce},
              !.moved = IF tx.kind = "stake" THEN @ \cup {tx.nonce} ELSE @]

Mine(tx) ==
    /\ newest' = IF MayEnter(newest, tx)
                 THEN [Entered(newest, tx) EXCEPT !.good = @ \cup {tx}]
                 ELSE [newest EXCEPT !.bad = @ \cup {tx}]
    /\ pool' = pool \ {tx}
    /\ UNCHANGED <<confirmed, made, record, request, line, told, posts, mishaps>>

Mishap == mishaps < MaxMishaps /\ mishaps' = mishaps + 1

\* A player submits its payment to the token, or cancels it.
Spend(n) ==
    /\ Mishap /\ n \notin newest.used /\ Affords(newest, Signer[n])
    /\ newest' = [newest EXCEPT !.used = @ \cup {n}, !.moved = @ \cup {n}]
    /\ UNCHANGED <<confirmed, pool, made, record, request, line, told, posts>>
Revoke(n) ==
    /\ Mishap /\ n \notin newest.used
    /\ newest' = [newest EXCEPT !.used = @ \cup {n}]
    /\ UNCHANGED <<confirmed, pool, made, record, request, line, told, posts>>

Confirm ==
    /\ confirmed # newest /\ confirmed' = newest
    /\ UNCHANGED <<newest, pool, made, record, request, line, told, posts, mishaps>>

\* The blocks that are not confirmed are replaced by others.
Undo ==
    /\ Mishap /\ confirmed # newest /\ newest' = confirmed
    /\ pool' = pool \cup ((newest.good \cup newest.bad) \ (confirmed.good \cup confirmed.bad))
    /\ UNCHANGED <<confirmed, made, record, request, line, told, posts>>

-----------------------------------------------------------------------------
(* The service.                                                            *)

\* Slip: seats at the newest block.
RefreshedNow ==
    IF record.stage = "funding"
    THEN [record EXCEPT !.owner = newest.owner, !.paid = newest.paid]
    ELSE record

\* refreshSeats: all seats at one confirmed block.
Refreshed ==
    IF record.stage = "funding"
    THEN [record EXCEPT !.owner = confirmed.owner, !.paid = confirmed.paid]
    ELSE record

\* The lobby's host cancels it; a lobby whose seats are paid starts.
Cancel ==
    /\ Mishap /\ record.stage = "funding" /\ ~record.canceling
    /\ record' = [record EXCEPT !.canceling = TRUE]
    /\ UNCHANGED <<newest, confirmed, pool, made, request, line, told, posts>>
Close ==
    /\ record.stage = "funding" /\ newest.status = "funding"
    /\ \/ record.canceling /\ newest' = [newest EXCEPT !.status = "voided"]
       \/ Refreshed.paid = Seats /\ newest' = [newest EXCEPT !.status = "locked"]
    /\ UNCHANGED <<confirmed, pool, made, record, request, line, told, posts, mishaps>>
Closed ==
    /\ record.stage = "funding" /\ confirmed.status # "funding"
    /\ record' = [Refreshed EXCEPT !.stage = confirmed.status]
    /\ UNCHANGED <<newest, confirmed, pool, made, request, line, told, posts, mishaps>>

Becomes(q, to) == request' = [request EXCEPT ![q] = to]
\* An answer, whatever it says, lets the next request go on.
Leaves(q) == Becomes(q, Idle) /\ line' = SelectSeq(line, LAMBDA x : x # q)
Has(q, pc) == line # <<>> /\ Head(line) = q /\ request[q].pc = pc

\* A request with a payment, new or sent before; it asks for a seat or for any.
Requested(n, seat) == [pc |-> "asked", nonce |-> n, seat |-> seat]

\* The lobby takes players, and the payment is as it was asked for.
Post(q, n, seat) ==
    /\ request[q] = Idle /\ q = CHOOSE r \in Requests : request[r] = Idle
    /\ posts < MaxPosts /\ posts' = posts + 1
    /\ record.stage = "funding" /\ ~record.canceling
    /\ Becomes(q, Requested(n, seat))
    /\ UNCHANGED <<newest, confirmed, pool, made, record, line, told, mishaps>>

CheckBalance(q) ==
    /\ request[q].pc = "asked"
    /\ IF Affords(newest, Signer[request[q].nonce])
       THEN /\ Becomes(q, [request[q] EXCEPT !.pc = "queued"])
            /\ line' = Append(line, q)
       ELSE Becomes(q, Idle) /\ UNCHANGED line
    /\ UNCHANGED <<newest, confirmed, pool, made, record, told, posts, mishaps>>

\* Seats that a player may still take, going by the record.
Available(r, p) ==
    {s \in Seats : s \notin r.paid /\ r.owner[s] = IF r.open THEN Nobody ELSE p}
Held(r, p) == {s \in r.paid : r.owner[s] = p}

\* A seat the player has is not paid again.
Look(q) ==
    LET asked == request[q].seat
        p == Signer[request[q].nonce]
        held == Held(Refreshed, p)
        free == Available(Refreshed, p)
        Fits(s) == asked \in {s, Nobody}
    IN
    /\ Has(q, "queued") /\ record' = Refreshed
    /\ \/ \E s \in held : Fits(s) /\ Becomes(q, [request[q] EXCEPT !.pc = "final", !.seat = s])
                          /\ UNCHANGED line
       \/ /\ held = {}
          /\ \E s \in free :
                /\ Fits(s)
                /\ Becomes(q, [pc |-> "reading", nonce |-> request[q].nonce, seat |-> s,
                               read |-> <<>>])
          /\ UNCHANGED line
       \/ /\ \A s \in IF held = {} THEN free ELSE held : ~Fits(s)
          /\ Leaves(q)
    /\ UNCHANGED <<newest, confirmed, pool, made, told, posts, mishaps>>

\* creditedAuthorization and authorizationState are read at once, in any order.
ReadPayment(q) ==
    /\ Has(q, "reading")
    /\ \E what \in {"credited", "used"} :
          /\ \A i \in DOMAIN request[q].read : request[q].read[i][1] # what
          /\ Becomes(q, [request[q] EXCEPT !.read =
                 Append(@, <<what, request[q].nonce \in newest[what]>>)])
    /\ UNCHANGED <<newest, confirmed, pool, made, record, line, told, posts, mishaps>>

\* Slip: a payment that is used was transferred.
Assumed(n) == n \in newest.used

\* What was moved to the escrow, seen in the logs.
Transferred(n) == n \in newest.moved

\* Relay a payment, credit one that was submitted by others, or neither.
Decide(q) ==
    LET read == ToSet(request[q].read)
        To(pc, kind) == Becomes(q, [pc |-> pc, nonce |-> request[q].nonce,
                                    seat |-> request[q].seat, kind |-> kind])
                        /\ UNCHANGED line
    IN
    /\ Has(q, "reading") /\ Len(request[q].read) = 2
    /\ IF <<"credited", TRUE>> \in read
       THEN Becomes(q, [pc |-> "final", nonce |-> request[q].nonce, seat |-> request[q].seat])
            /\ UNCHANGED line
       ELSE IF <<"used", FALSE>> \in read THEN To("sending", "stake")
       ELSE IF Transferred(request[q].nonce) THEN To("sending", "recover")
       ELSE Leaves(q)
    /\ UNCHANGED <<newest, confirmed, pool, made, record, told, posts, mishaps>>

\* The transaction is simulated, and sent if it would do.
Send(q) ==
    LET tx == [id |-> made, nonce |-> request[q].nonce, seat |-> request[q].seat,
               kind |-> request[q].kind]
    IN
    /\ Has(q, "sending")
    /\ \/ /\ MayEnter(newest, tx)
          /\ pool' = pool \cup {tx} /\ made' = made + 1
          /\ \/ /\ Becomes(q, [pc |-> "waiting", nonce |-> tx.nonce, seat |-> tx.seat, tx |-> tx])
                /\ UNCHANGED <<line, mishaps>>
             \/ Mishap /\ Leaves(q)  \* sent, but the answer is lost
       \/ /\ ~MayEnter(newest, tx) /\ Leaves(q)
          /\ UNCHANGED <<pool, made, mishaps>>
    /\ UNCHANGED <<newest, confirmed, record, told, posts>>

Receipt(q) ==
    /\ Has(q, "waiting")
    /\ \/ /\ request[q].tx \in confirmed.good
          /\ Becomes(q, [pc |-> "final", nonce |-> request[q].nonce, seat |-> request[q].seat])
          /\ UNCHANGED <<line, mishaps>>
       \/ request[q].tx \in confirmed.bad /\ Leaves(q) /\ UNCHANGED mishaps
       \/ Mishap /\ Leaves(q)
    /\ UNCHANGED <<newest, confirmed, pool, made, record, told, posts>>

\* Slip: the transaction's receipt will do.
IsSent(r, s, p) == \E tx \in newest.good : tx.seat = s /\ Signer[tx.nonce] = p

\* The seat was seen at a confirmed block; otherwise the entry is still confirming.
IsTaken(r, s, p) == s \in r.paid /\ r.owner[s] = p

Answer(q) ==
    LET s == request[q].seat
        p == Signer[request[q].nonce]
    IN
    /\ Has(q, "final") /\ record' = Refreshed
    /\ told' = IF IsTaken(Refreshed, s, p) THEN told \cup {<<s, p>>} ELSE told
    /\ Leaves(q)
    /\ UNCHANGED <<newest, confirmed, pool, made, posts, mishaps>>

Crash ==
    /\ Mishap
    /\ request' = [q \in Requests |-> Idle] /\ line' = <<>>
    /\ UNCHANGED <<newest, confirmed, pool, made, record, told, posts>>

Next ==
    \/ \E q \in Requests :
          \/ \E n \in Nonces, seat \in Asked \cup {Nobody} : Post(q, n, seat)
          \/ CheckBalance(q) \/ Look(q) \/ ReadPayment(q) \/ Decide(q) \/ Send(q)
          \/ Receipt(q) \/ Answer(q)
    \/ \E tx \in pool : Mine(tx)
    \/ \E n \in Nonces : Spend(n) \/ Revoke(n)
    \/ Confirm \/ Undo \/ Cancel \/ Close \/ Closed \/ Crash

-----------------------------------------------------------------------------
TypeOK ==
    /\ \A c \in {newest, confirmed} :
          /\ c.status \in {"funding", "voided", "locked"}
          /\ c.owner \in [Seats -> Players \cup {Nobody}] /\ c.paid \subseteq Seats
          /\ c.credited \subseteq Nonces /\ c.used \subseteq Nonces /\ c.moved \subseteq Nonces
    /\ record.owner \in [Seats -> Players \cup {Nobody}] /\ record.paid \subseteq Seats
    /\ ToSet(line) \subseteq Requests /\ told \subseteq Seats \X Players
    /\ posts <= MaxPosts /\ mishaps <= MaxMishaps

(* An undone block never holds a transfer that a player submitted itself.  *)
TransfersLast ==
    newest.moved \subseteq
        newest'.moved \cup {tx.nonce : tx \in {t \in newest.good : t.kind = "stake"}}

(* What the service saved and what it told a player is for good: it is so on *)
(* the chain, also after the blocks that are not confirmed were replaced.    *)
EntriesHold ==
    /\ \A s \in record.paid : s \in newest.paid /\ newest.owner[s] = record.owner[s]
    /\ \A <<s, p>> \in told : s \in newest.paid /\ newest.owner[s] = p

(* However often a request is sent, with the same payment or another: every *)
(* seat that is paid was paid with one payment, whose money is in the       *)
(* escrow, and of a player no second payment was taken by the service.      *)
SeatsAreBacked ==
    \A c \in {newest, confirmed} :
       /\ c.credited \subseteq c.moved
       /\ Cardinality(c.credited) = Cardinality(c.paid)
       /\ \A n, o \in c.credited : Signer[n] = Signer[o] => n = o
=============================================================================
