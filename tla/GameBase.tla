------------------------------ MODULE GameBase ------------------------------
(***************************************************************************)
(* What every two-party game over a tunnel shares (Protocol.ts): the two   *)
(* seats, and the clamped transfer that settles a decisive result.         *)
(***************************************************************************)
EXTENDS Integers

Party == {"A", "B"}
otherParty(p) == IF p = "A" THEN "B" ELSE "A"
Lesser(x, y) == IF x < y THEN x ELSE y

\* Move up to `amount` from the loser to the winner, never below zero.
shiftStake(bal, winner, amount) ==
    LET loser == otherParty(winner)
        shift == Lesser(amount, bal[loser])
    IN  [bal EXCEPT ![winner] = @ + shift, ![loser] = @ - shift]

\* balances(): both parts are amounts and sum to what the tunnel locks.
SumsTo(bal, total) ==
    /\ bal.A >= 0
    /\ bal.B >= 0
    /\ bal.A + bal.B = total
=============================================================================
