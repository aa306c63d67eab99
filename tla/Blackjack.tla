----------------------------- MODULE Blackjack -----------------------------
(***************************************************************************)
(* Blackjack v2 (sui-tunnel-ts/src/protocol/blackjack.ts), the move codec  *)
(* that carries it between the seats (blackjackCodec.ts) and the bot that  *)
(* plays it (agent/games/blackjack/kit.ts).  Every card is drawn jointly:  *)
(* both seats commit a share, both reveal it, and the rank is derived from *)
(* the two shares.                                                         *)
(*                                                                         *)
(* `st` holds both seats' replicas of the protocol state.  A commitment is *)
(* the share it binds (hashing external); the rank is a fixed function of  *)
(* the shares; a hand is its card count, raw sum and number of aces.       *)
(***************************************************************************)
EXTENDS GameBase

CONSTANTS Stakes,      \* initial balances <<a, b>>
          Shares,      \* the values each seat may commit
          ROUND_CAP,
          FixedPlayer  \* TRUE for the single-player table (FIXED_PLAYER_A)

VARIABLES st,          \* replica of each seat
          own          \* balances when the running round was bet on

vars == <<st, own>>

MIN_BET == 1
DEALER_STANDS_AT == 17
BUST_AT == 21
Unset == -1            \* no commitment, reveal or secret
NoDraw == [forHand |-> "none", reason |-> "none"]

getPlayerParty(round) == IF ((round - 1) \div 2) % 2 = 0 THEN "A" ELSE "B"
playerPartyFor(round) == IF FixedPlayer THEN "A" ELSE getPlayerParty(round)
dealerPartyFor(round) == otherParty(playerPartyFor(round))

-----------------------------------------------------------------------------
\* Cards and hands.

rankValue(rank) == IF rank = 1 THEN 11 ELSE IF rank >= 11 THEN 10 ELSE rank
deriveRank(a, b) == ((a + b) % 13) + 1

Empty == [n |-> 0, sum |-> 0, aces |-> 0]
Draw(hand, value) == [n |-> hand.n + 1, sum |-> hand.sum + value,
                      aces |-> hand.aces + (IF value = 11 THEN 1 ELSE 0)]

\* Aces count 11 until the hand would bust, then 1.
handValue(hand) ==
    LET soft == {k \in 0..hand.aces : hand.sum - 10 * k <= BUST_AT}
    IN  IF soft = {} THEN hand.sum - 10 * hand.aces
        ELSE hand.sum - 10 * (CHOOSE k \in soft : \A j \in soft : k <= j)

isBust(hand) == handValue(hand) > BUST_AT

-----------------------------------------------------------------------------
\* Pure state transitions.

initialState(a, b) ==
    [phase |-> "round_over", round |-> 0, drawCount |-> 0,
     hand |-> [player |-> Empty, dealer |-> Empty], draw |-> NoDraw,
     commit |-> [p \in Party |-> Unset], reveal |-> [p \in Party |-> Unset],
     secret |-> [p \in Party |-> Unset],
     bal |-> [A |-> a, B |-> b], total |-> a + b, bet |-> 0]

NoPending(s) == [s EXCEPT !.commit = [p \in Party |-> Unset],
                          !.reveal = [p \in Party |-> Unset],
                          !.secret = [p \in Party |-> Unset]]

beginDraw(s, forHand, reason) ==
    [NoPending(s) EXCEPT !.phase = "draw_commit",
                         !.draw = [forHand |-> forHand, reason |-> reason]]

beginRound(s) ==
    beginDraw([s EXCEPT !.round = @ + 1, !.drawCount = 0,
                        !.hand = [player |-> Empty, dealer |-> Empty]], "player", "deal")

settle(s, winner) ==
    [NoPending(s) EXCEPT !.phase = "round_over", !.draw = NoDraw,
        !.bal = IF winner = "push" THEN @ ELSE shiftStake(@, winner, s.bet)]

resolveShowdown(s) ==
    LET pv == handValue(s.hand.player)
        dv == handValue(s.hand.dealer)
    IN  settle(s, IF isBust(s.hand.dealer) \/ pv > dv THEN playerPartyFor(s.round)
                  ELSE IF dv > pv THEN dealerPartyFor(s.round) ELSE "push")

\* The derived card goes to its hand, and the reason for the draw says what
\* comes next: the rest of the deal, the player's turn, or the dealer's draw.
afterDraw(s, rank) ==
    LET base == [NoPending(s) EXCEPT !.hand[s.draw.forHand] = Draw(@, rankValue(rank)),
                                     !.drawCount = @ + 1, !.draw = NoDraw]
        turn == [base EXCEPT !.phase = "player"]
    IN  CASE s.draw.reason = "deal" ->
               (IF base.hand.player.n < 2 THEN beginDraw(base, "player", "deal")
                ELSE IF base.hand.dealer.n < 2 THEN beginDraw(base, "dealer", "deal")
                ELSE turn)
          [] s.draw.reason = "hit" ->
               (IF isBust(base.hand.player) THEN settle(base, dealerPartyFor(base.round))
                ELSE turn)
          [] s.draw.reason = "dealer_auto" ->
               (IF handValue(base.hand.dealer) < DEALER_STANDS_AT
                THEN beginDraw(base, "dealer", "dealer_auto")
                ELSE resolveShowdown(base))

\* Variant: the larger balance bounds the bet.
maxBetLarger(s) == IF s.bal.A > s.bal.B THEN s.bal.A ELSE s.bal.B

maxBet(s) == Lesser(s.bal.A, s.bal.B)

isTerminal(s) ==
    \/ s.round >= ROUND_CAP
    \/ s.phase = "round_over" /\ maxBet(s) < MIN_BET

-----------------------------------------------------------------------------
\* applyMove: Legal says when it accepts a move, Apply what it returns.

OwesForfeit(done, by) == done[by] # Unset /\ done[otherParty(by)] = Unset

Legal(s, m, by) ==
    CASE s.phase = "round_over" ->
            /\ m.kind = "bet"
            /\ ~isTerminal(s)
            /\ by = playerPartyFor(s.round + 1)
            /\ m.amount \in MIN_BET..maxBet(s)
      [] s.phase = "draw_commit" ->
            \/ m.kind = "forfeit" /\ OwesForfeit(s.commit, by)
            \/ m.kind = "commit" /\ s.commit[by] = Unset
      [] s.phase = "draw_reveal" ->
            \/ m.kind = "forfeit" /\ OwesForfeit(s.reveal, by)
            \/ m.kind = "reveal" /\ s.reveal[by] = Unset /\ s.commit[by] = m.share
      [] s.phase = "player" ->
            /\ m.kind \in {"hit", "stand"}
            /\ by = playerPartyFor(s.round)

applyCommit(s, m, by) ==
    LET next == [s EXCEPT !.commit[by] = m.share, !.secret[by] = m.localSecret]
    IN  IF \A p \in Party : next.commit[p] # Unset
        THEN [next EXCEPT !.phase = "draw_reveal"] ELSE next

applyReveal(s, m, by) ==
    LET next == [s EXCEPT !.reveal[by] = m.share]
    IN  IF \A p \in Party : next.reveal[p] # Unset
        THEN afterDraw(next, deriveRank(next.reveal.A, next.reveal.B)) ELSE next

\* A dealer already at 17 or more draws nothing.
Stand(s) ==
    IF handValue(s.hand.dealer) >= DEALER_STANDS_AT THEN resolveShowdown(s)
    ELSE beginDraw(s, "dealer", "dealer_auto")

Apply(s, m, by) ==
    CASE m.kind = "bet" -> beginRound([s EXCEPT !.bet = m.amount])
      [] m.kind = "commit" -> applyCommit(s, m, by)
      [] m.kind = "reveal" -> applyReveal(s, m, by)
      [] m.kind = "forfeit" -> settle(s, by)
      [] m.kind = "hit" -> beginDraw(s, "player", "hit")
      [] m.kind = "stand" -> Stand(s)

\* What reaches the other seat: the codec drops a commit's local secret.
moveCodec(m) == IF m.kind = "commit" THEN [m EXCEPT !.localSecret = Unset] ELSE m

\* encodeState: everything both seats sign; total and secrets are left out.
encodeState(s) ==
    <<s.bal, s.round, s.drawCount, s.phase, s.hand, s.bet, s.draw, s.commit, s.reveal>>

\* The seat the bot loop waits for.
FirstUnset(f) == IF f.A = Unset THEN "A" ELSE IF f.B = Unset THEN "B" ELSE "none"

actorFor(s) ==
    CASE s.phase = "round_over" -> playerPartyFor(s.round + 1)
      [] s.phase = "draw_commit" -> FirstUnset(s.commit)
      [] s.phase = "draw_reveal" -> FirstUnset(s.reveal)
      [] s.phase = "player" -> playerPartyFor(s.round)

\* Every move the automatic player may return (none at the end).
randomMove(s, by) ==
    IF isTerminal(s) THEN {}
    ELSE CASE s.phase = "round_over" ->
                {[kind |-> "bet", amount |-> MIN_BET] : x \in {p \in {by} : p = actorFor(s)}}
           [] s.phase = "draw_commit" ->
                {[kind |-> "commit", share |-> v, localSecret |-> v] :
                    v \in {w \in Shares[by] : s.commit[by] = Unset}}
           [] s.phase = "draw_reveal" ->
                {[kind |-> "reveal", share |-> v] :
                    v \in {w \in {s.secret[by]} : w # Unset /\ s.reveal[by] = Unset}}
           [] s.phase = "player" ->
                {[kind |-> IF handValue(s.hand.player) < 17 THEN "hit" ELSE "stand"] :
                    x \in {p \in {by} : p = actorFor(s)}}

-----------------------------------------------------------------------------
\* The game: a seat moves on its own replica, the other replays what the
\* codec lets through.

Init ==
    /\ \E a \in Stakes : st = [p \in Party |-> initialState(a[1], a[2])]
    /\ own = st.A.bal

Play(by, m) ==
    /\ Legal(st[by], m, by)
    /\ st' = [p \in Party |-> Apply(st[p], IF p = by THEN m ELSE moveCodec(m), by)]
    /\ own' = IF m.kind = "bet" THEN st.A.bal ELSE own

Bet(by) == \E n \in MIN_BET..st[by].total : Play(by, [kind |-> "bet", amount |-> n])
Commit(by) == \E v \in Shares[by] : Play(by, [kind |-> "commit", share |-> v, localSecret |-> v])
Reveal(by) == st[by].secret[by] # Unset /\ Play(by, [kind |-> "reveal", share |-> st[by].secret[by]])
HitOrStand(by) == \E k \in {"hit", "stand"} : Play(by, [kind |-> k])
Forfeit(by) == Play(by, [kind |-> "forfeit"])

Next ==
    \E by \in Party : Bet(by) \/ Commit(by) \/ Reveal(by) \/ HitOrStand(by) \/ Forfeit(by)

-----------------------------------------------------------------------------
\* The balances always sum to the locked total.
Conserved == \A p \in Party : SumsTo(st[p].bal, st[p].total)

\* The bytes both seats sign are the same although each keeps a secret the
\* other never received, and neither replica holds the other's secret.
ReplicasAgree ==
    /\ encodeState(st.A) = encodeState(st.B)
    /\ \A p \in Party : st[p].secret[otherParty(p)] = Unset

\* Unless the game is over, the seat the bot loop waits for has an automatic
\* move, and its own rules accept it ("randomMove: a legal move").
BotNeverStuck ==
    LET p == actorFor(st.A)
    IN  ~isTerminal(st.A) =>
            /\ p \in Party
            /\ randomMove(st[p], p) # {}
            /\ \A m \in randomMove(st[p], p) : Legal(st[p], m, p)

\* A round moves exactly the bet or nothing: the clamp of settle never bites.
RoundMovesTheBet ==
    st.A.phase = "round_over" =>
        st.A.bal.A - own.A \in {0, st.A.bet, -st.A.bet}

\* The dealer never draws against a bust player, and a hand that is
\* compared was drawn to seventeen.
DealerPlaysLast ==
    /\ isBust(st.A.hand.player) => st.A.phase = "round_over"
    /\ st.A.draw.reason = "dealer_auto" =>
          /\ ~isBust(st.A.hand.player)
          /\ handValue(st.A.hand.dealer) < DEALER_STANDS_AT

Terminal == isTerminal(st.A)
=============================================================================
