---------------------------- MODULE QuantumPoker ----------------------------
(***************************************************************************)
(* Quantum poker v2 (sui-tunnel-ts/src/protocol/quantumPoker.ts), its      *)
(* evaluator of hands and codec, the seat driver and persona bots, and the *)
(* self-play engine of the browser (games/quantumPoker/pokerSelfPlay.ts).  *)
(*                                                                         *)
(* Cards are derived from both seats' shares of nine slots; the model      *)
(* groups the slots that are always revealed together.  A seat's secrets   *)
(* for a hand are one number; a commitment is the number it binds.  The    *)
(* cards themselves are a deal drawn at the showdown, and judged before.   *)
(***************************************************************************)
EXTENDS GameBase, FiniteSets, FiniteSetsExt, SequencesExt

CONSTANTS Stakes,    \* initial balances <<a, b>>
          ante, HandCap,
          Secrets,   \* numbers a seat may draw its slot secrets from
          Deals,     \* a sequence of deals, each judged (Judged)
          Holes, Streets, Pots, Calls, Stacks   \* what a persona bot is tried on

VARIABLES st,        \* the co-signed state; of a persona bot, what it looks at
          own        \* secretsByHand of each seat's driver, and the balances at the deal

vars == <<st, own>>

-----------------------------------------------------------------------------
(***************************************************************************)
(* The evaluator: the score of five cards, the best five of five to seven, *)
(* and who wins a showdown.  A card is 13 * suit + rank; two seats' cards  *)
(* may coincide, and a hole card that is also on the board is burned.      *)
(***************************************************************************)
Rank(c) == c % 13
Suit(c) == c \div 13

combinations5(cards) ==
    LET pick(ix) == LET order == SetToSortSeq(ix, <) IN [i \in 1..5 |-> cards[order[i]]]
    IN  {pick(ix) : ix \in kSubset(5, DOMAIN cards)}

\* The ranks of a hand, the most frequent first and then the highest.
groups(hand) ==
    LET count(r) == Cardinality({i \in 1..5 : Rank(hand[i]) = r})
    IN  SetToSortSeq({Rank(hand[i]) : i \in 1..5},
                     LAMBDA x, y : count(x) > count(y) \/ (count(x) = count(y) /\ x > y))

straightHigh(hand) ==
    LET distinct == {Rank(hand[i]) : i \in 1..5}
    IN  IF Cardinality(distinct) # 5 THEN -1
        ELSE IF Max(distinct) - Min(distinct) = 4 THEN Max(distinct)
        ELSE IF distinct = {12, 3, 2, 1, 0} THEN 3 ELSE -1

category(hand) ==
    LET n(k) == IF k > Len(groups(hand)) THEN 0
                ELSE Cardinality({i \in 1..5 : Rank(hand[i]) = groups(hand)[k]})
        flush == \A i \in 1..5 : Suit(hand[i]) = Suit(hand[1])
        straight == straightHigh(hand) # -1
    IN  CASE n(1) = 5 -> 9
          [] straight /\ flush -> 8
          [] n(1) = 4 -> 7
          [] n(1) = 3 /\ n(2) = 2 -> 6
          [] flush -> 5
          [] straight -> 4
          [] n(1) = 3 -> 3
          [] n(1) = 2 /\ n(2) = 2 -> 2
          [] n(1) = 2 -> 1
          [] OTHER -> 0

tieBreak(hand) == IF straightHigh(hand) # -1 THEN <<straightHigh(hand)>> ELSE groups(hand)

evaluate5(hand) ==
    FoldLeft(LAMBDA acc, i : acc * 13 + (IF i <= Len(tieBreak(hand)) THEN tieBreak(hand)[i] ELSE 0),
             category(hand), <<1, 2, 3, 4, 5>>)

bestPokerHand(cards) == Max({evaluate5(h) : h \in combinations5(cards)})

Live(hole, board) == SelectSeq(hole, LAMBDA c : c \notin ToSet(board))

\* resolveShowdown: hole cards that are on the board do not count.
showdownWinner(deal) ==
    LET a == bestPokerHand(Live(deal.A, deal.board) \o deal.board)
        b == bestPokerHand(Live(deal.B, deal.board) \o deal.board)
    IN  IF a > b THEN "A" ELSE IF b > a THEN "B" ELSE "tie"

-----------------------------------------------------------------------------
(***************************************************************************)
(* The rules, without the arithmetic: what each class of hands is, from    *)
(* the strongest down, and how two of a class compare.                     *)
(***************************************************************************)
Times(hand, k) == {r \in 0..12 : Cardinality({i \in 1..5 : Rank(hand[i]) = r}) = k}
InARow(hand) == \/ \E low \in 0..8 : {Rank(hand[i]) : i \in 1..5} = low..(low + 4)
                \/ {Rank(hand[i]) : i \in 1..5} = {12} \cup 0..3
OneSuit(hand) == Cardinality({Suit(hand[i]) : i \in 1..5}) = 1

\* The classes a hand belongs to; 9 is the strongest.
Classes(hand) ==
    {k \in 0..9 :
        CASE k = 9 -> Times(hand, 5) # {}
          [] k = 8 -> InARow(hand) /\ OneSuit(hand)
          [] k = 7 -> Times(hand, 4) # {}
          [] k = 6 -> Times(hand, 3) # {} /\ Times(hand, 2) # {}
          [] k = 5 -> OneSuit(hand)
          [] k = 4 -> InARow(hand)
          [] k = 3 -> Times(hand, 3) # {}
          [] k = 2 -> Cardinality(Times(hand, 2)) = 2
          [] k = 1 -> Cardinality(Times(hand, 2)) = 1
          [] k = 0 -> TRUE}

\* In one class: the first of the groups (five, four, ... of a rank) that
\* differ decides by its higher ranks; of two straights the higher wins, and
\* the ace counts low under a five.
Beats(g, h) ==
    LET top(x) == IF {Rank(x[i]) : i \in 1..5} = {12} \cup 0..3 THEN 3
                  ELSE Max({Rank(x[i]) : i \in 1..5})
        cg == Max(Classes(g))
        ch == Max(Classes(h))
    IN  \/ cg > ch
        \/ cg = ch /\ cg \in {4, 8} /\ top(g) > top(h)
        \/ /\ cg = ch /\ cg \notin {4, 8}
           /\ \E k \in 1..5 :
                 /\ \A j \in (k + 1)..5 : Times(g, j) = Times(h, j)
                 /\ Times(g, k) # Times(h, k)
                 /\ LET d == (Times(g, k) \ Times(h, k)) \cup (Times(h, k) \ Times(g, k))
                    IN  Max(d) \in Times(g, k)

\* The seats that hold, among their five to seven live cards, five that beat
\* any five of the other's.
Better(deal) ==
    LET hands == [q \in {"A", "B"} |-> combinations5(Live(deal[q], deal.board) \o deal.board)]
    IN  {p \in {"A", "B"} : \E g \in hands[p] : \A q \in {"A", "B"} \ {p} :
            \A h \in hands[q] : Beats(g, h)}

\* A deal together with what the evaluator and the rules say of it.
Judged(deal) ==
    [board |-> deal.board, A |-> deal.A, B |-> deal.B,
     winner |-> showdownWinner(deal), better |-> Better(deal)]

-----------------------------------------------------------------------------
\* The table.
Unset == -1
Groups == {"A_HOLE", "B_HOLE", "FLOP", "TURN", "RIVER"}
Hole(p) == IF p = "A" THEN "A_HOLE" ELSE "B_HOLE"

BetPhases == {"preflop_bet", "flop_bet", "turn_bet", "river_bet"}
RevealPhases == {"open_private_holes", "reveal_flop", "reveal_turn", "reveal_river", "showdown"}

FreshHand ==
    [commit |-> [p \in Party |-> Unset], revealed |-> [p \in Party |-> {}],
     totalBet |-> [p \in Party |-> 0], streetBet |-> [p \in Party |-> 0],
     toAct |-> "A", acted |-> [p \in Party |-> FALSE], winner |-> "none", deal |-> 0]

initialState(a, b) ==
    [phase |-> IF a >= ante /\ b >= ante THEN "commit" ELSE "done",
     handNo |-> 0, hand |-> FreshHand, bal |-> [A |-> a, B |-> b], total |-> a + b]


-----------------------------------------------------------------------------
\* Reveals.

\* The slots a seat still owes in a reveal phase.
expectedRevealSlots(s, by) ==
    (CASE s.phase = "open_private_holes" -> {Hole(otherParty(by))}
       [] s.phase = "reveal_flop" -> {"FLOP"}
       [] s.phase = "reveal_turn" -> {"TURN"}
       [] s.phase = "reveal_river" -> {"RIVER"}
       [] s.phase = "showdown" -> {Hole(by)}
       [] OTHER -> {}) \ s.hand.revealed[by]

beginStreet(s, phase) ==
    [s EXCEPT !.phase = phase, !.hand.streetBet = [p \in Party |-> 0],
              !.hand.toAct = "A", !.hand.acted = [p \in Party |-> FALSE]]

\* Variant: each seat wagers out of its own stack.
availableForOwn(s, by) == s.bal[by] - s.hand.totalBet[by]

\* Heads-up effective stack: nobody can wager more than the shorter one.
availableFor(s, by) ==
    LET remaining == Lesser(s.bal.A, s.bal.B) - s.hand.totalBet[by]
    IN  IF remaining > 0 THEN remaining ELSE 0

bettingClosed(s) == \E p \in Party : availableFor(s, p) = 0

contestedAmount(s) == Lesser(s.hand.totalBet.A, s.hand.totalBet.B)

\* A hand ends: the contested amount goes to the winner, a tie moves nothing.
HandOver(s, winner) ==
    [s EXCEPT !.phase = "hand_over", !.hand.winner = winner,
              !.bal = IF winner = "tie" THEN @ ELSE shiftStake(@, winner, contestedAmount(s))]

\* Once both seats have revealed, the phase moves on: antes, the next
\* street, or straight on to the showdown when a seat is all in.
AfterReveal(s, d) ==
    LET street(next, closed) ==
            IF bettingClosed(s) THEN [s EXCEPT !.phase = closed] ELSE beginStreet(s, next)
    IN  CASE s.phase = "open_private_holes" ->
                beginStreet([s EXCEPT !.hand.totalBet = [p \in Party |-> ante]], "preflop_bet")
          [] s.phase = "reveal_flop" -> street("flop_bet", "reveal_turn")
          [] s.phase = "reveal_turn" -> street("turn_bet", "reveal_river")
          [] s.phase = "reveal_river" -> street("river_bet", "showdown")
          [] s.phase = "showdown" -> HandOver([s EXCEPT !.hand.deal = d], Deals[d].winner)

RevealSlots(s, by, d) ==
    LET t == [s EXCEPT !.hand.revealed[by] = @ \cup expectedRevealSlots(s, by)]
    IN  IF expectedRevealSlots(t, otherParty(by)) = {} THEN AfterReveal(t, d) ELSE t

-----------------------------------------------------------------------------
\* Betting.

advanceStreet(s) ==
    [beginStreet(s, "x") EXCEPT !.phase =
        CASE s.phase = "preflop_bet" -> "reveal_flop"
          [] s.phase = "flop_bet" -> "reveal_turn"
          [] s.phase = "turn_bet" -> "reveal_river"
          [] s.phase = "river_bet" -> "showdown"]

afterBetAction(s) ==
    IF s.hand.streetBet.A = s.hand.streetBet.B /\ \A p \in Party : s.hand.acted[p]
    THEN advanceStreet(s)
    ELSE [s EXCEPT !.hand.toAct = otherParty(@)]

ToCall(s, by) == s.hand.streetBet[otherParty(by)] - s.hand.streetBet[by]

Wager(s, by, amount) ==
    [s EXCEPT !.hand.streetBet[by] = @ + amount, !.hand.totalBet[by] = @ + amount,
              !.hand.acted[by] = TRUE]

\* The moves applyBet accepts from the seat to act.
LegalBet(s, m, by) ==
    /\ s.phase \in BetPhases
    /\ s.hand.toAct = by
    /\ CASE m.kind = "check" -> ToCall(s, by) <= 0
         [] m.kind = "bet" -> m.amount > 0 /\ m.amount > ToCall(s, by)
                              /\ m.amount <= availableFor(s, by)
         [] m.kind = "call" -> ToCall(s, by) > 0 /\ ToCall(s, by) <= availableFor(s, by)
         [] m.kind = "fold" -> TRUE

ApplyBet(s, m, by) ==
    CASE m.kind = "check" -> afterBetAction([s EXCEPT !.hand.acted[by] = TRUE])
      [] m.kind = "bet" -> [Wager(s, by, m.amount) EXCEPT
                               !.hand.acted[otherParty(by)] = FALSE,
                               !.hand.toAct = otherParty(by)]
      [] m.kind = "call" -> afterBetAction(Wager(s, by, ToCall(s, by)))
      [] m.kind = "fold" -> HandOver(s, otherParty(by))

\* Variant: the hand's number is not counted up.
NextHandStateSame(s) ==
    [s EXCEPT !.hand = FreshHand,
              !.phase = IF s.bal.A >= ante /\ s.bal.B >= ante THEN "commit" ELSE "done"]

\* applyNextHand: any seat, and the next hand only if both can post an ante.
NextHandState(s) ==
    LET n == s.handNo + 1
        canContinue == n < HandCap /\ s.bal.A >= ante /\ s.bal.B >= ante
    IN  [s EXCEPT !.handNo = n, !.hand = FreshHand,
                  !.phase = IF canContinue THEN "commit" ELSE "done"]

-----------------------------------------------------------------------------
\* The automatic players.

\* The betting moves chooseMove may return: call or fold facing a bet, else a
\* bet out of the seat's own stack, or a check.
driverMoves(s, by) ==
    IF ToCall(s, by) > 0 THEN {[kind |-> "call"], [kind |-> "fold"]}
    ELSE {[kind |-> "check"]} \cup
         {[kind |-> "bet", amount |-> n] : n \in 1..(s.bal[by] - s.hand.totalBet[by])}

\* legalPokerActions: what the table offers a human player.
legalPokerActions(s, by) ==
    LET toCall == IF ToCall(s, by) > 0 THEN ToCall(s, by) ELSE 0
        left == Lesser(s.bal.A, s.bal.B) - s.hand.totalBet[by]
        available == IF left > 0 THEN left ELSE 0
    IN  {[kind |-> "fold"]}
        \cup {[kind |-> "check"] : x \in {0} \cap {toCall}}
        \cup {[kind |-> "call"] : x \in {n \in {toCall} : n > 0 /\ available >= n}}
        \cup {[kind |-> "bet", amount |-> n] : n \in (toCall + 1)..available}

\* actorForState: the seat a bot loop waits for.
actorForState(s) ==
    LET first(P(_)) == IF P("A") THEN "A" ELSE IF P("B") THEN "B" ELSE "none"
    IN  CASE s.phase = "commit" -> first(LAMBDA p : s.hand.commit[p] = Unset)
          [] s.phase \in RevealPhases -> first(LAMBDA p : expectedRevealSlots(s, p) # {})
          [] s.phase \in BetPhases -> s.hand.toAct
          [] s.phase = "hand_over" -> "A"
          [] OTHER -> "none"

-----------------------------------------------------------------------------
Init ==
    /\ \E b \in Stakes : st = initialState(b[1], b[2])
    /\ own = [p \in Party |-> [cache |-> [h \in 0..HandCap |-> Unset], at |-> st.bal[p]]]

\* makeCommitMove mints the hand's secrets and caches them, and applyCommit
\* records the commitments; the codec lets only those through.
Commit(by) ==
    /\ st.phase = "commit"
    /\ st.hand.commit[by] = Unset
    /\ \E x \in Secrets :
          /\ own' = [p \in Party |-> [cache |-> IF p = by THEN [own[p].cache EXCEPT ![st.handNo] = x]
                                                ELSE own[p].cache,
                                      at |-> st.bal[p]]]
          /\ LET s == [st EXCEPT !.hand.commit[by] = x]
             IN  st' = IF s.hand.commit[otherParty(by)] # Unset
                       THEN [s EXCEPT !.phase = "open_private_holes"] ELSE s

\* makeRevealMove opens the owed slots with the secrets cached for the hand;
\* applyRevealSlots takes them only if they match the commitment.
Reveal(by) ==
    /\ st.phase \in RevealPhases
    /\ expectedRevealSlots(st, by) # {}
    /\ own[by].cache[st.handNo] = st.hand.commit[by]
    /\ \E d \in DOMAIN Deals : st' = RevealSlots(st, by, d)
    /\ UNCHANGED own

BetMove(by, m) ==
    /\ LegalBet(st, m, by)
    /\ st' = ApplyBet(st, m, by)
    /\ UNCHANGED own

Moves == {[kind |-> k] : k \in {"check", "call", "fold"}}
             \cup {[kind |-> "bet", amount |-> n] : n \in 1..st.total}

\* claimForfeit: a seat that owes nothing takes the pot of one that does.
Forfeit(by) ==
    /\ st.phase \in RevealPhases
    /\ expectedRevealSlots(st, by) = {}
    /\ expectedRevealSlots(st, otherParty(by)) # {}
    /\ st' = HandOver(st, by)
    /\ UNCHANGED own

NextHand ==
    /\ st.phase = "hand_over"
    /\ st' = NextHandState(st)
    /\ UNCHANGED own

Next ==
    \/ \E by \in Party :
          \/ Commit(by)
          \/ Reveal(by)
          \/ \E m \in Moves : BetMove(by, m)
          \/ Forfeit(by)
    \/ NextHand

isTerminal == st.phase = "done"

-----------------------------------------------------------------------------
\* The balances sum to the locked total, and no hand is dealt to a seat that
\* cannot post its ante.
Conserved ==
    /\ SumsTo(st.bal, st.total)
    /\ st.phase = "open_private_holes" => st.bal.A >= ante /\ st.bal.B >= ante

\* "the shorter stack's all-in stays fully callable": a seat facing a bet can
\* always call it, and nobody is ever committed for more than it has.
AlwaysCallable ==
    /\ st.phase \in BetPhases /\ ToCall(st, st.hand.toAct) > 0 =>
          ToCall(st, st.hand.toAct) <= availableFor(st, st.hand.toAct)
    /\ \A p \in Party : st.phase # "hand_over" => st.hand.totalBet[p] <= st.bal[p]

\* Cards are opened only at equal stakes: between betting rounds the two
\* seats have put in the same amount.
StakesMatched ==
    st.phase \in RevealPhases => st.hand.totalBet.A = st.hand.totalBet.B

\* A hand moves what the loser had put in, and never more: the clamp of
\* settle never decides.
HandMovesTheBet ==
    st.phase = "hand_over" =>
        LET d == st.bal.A - own.A.at
        IN  CASE st.hand.winner = "A" -> d = contestedAmount(st)
              [] st.hand.winner = "B" -> d = -contestedAmount(st)
              [] OTHER -> d = 0

\* A showdown is won by the seat with the better cards under the rules of
\* poker, and by nobody when neither has them.
BetterHandWins ==
    st.hand.deal # 0 => Deals[st.hand.deal].better = {st.hand.winner} \cap Party

\* Whatever the table offers the human player, the protocol accepts; and it
\* offers every legal move.
OfferedIsLegal ==
    st.phase \in BetPhases =>
        LET by == st.hand.toAct
        IN  legalPokerActions(st, by) = {m \in Moves : LegalBet(st, m, by)}

\* Unless the game is over somebody can move, and the seat the bot loop
\* waits for is one that can ("randomMove: a legal move or null").
ActorCanMove ==
    ~isTerminal =>
        LET p == actorForState(st)
        IN  /\ p \in Party
            /\ st.phase \in RevealPhases => own[p].cache[st.handNo] = st.hand.commit[p]

\* Every automatic betting move is one the protocol accepts (Protocol.ts:
\* randomMove returns a legal move).
DriverBetsLegal ==
    st.phase \in BetPhases =>
        \A m \in driverMoves(st, st.hand.toAct) : LegalBet(st, m, st.hand.toAct)

Terminal == isTerminal

-----------------------------------------------------------------------------
\* How a persona bot plays a betting turn (quantumPokerPersona.ts), over the hands,
\* boards and bets tried.  Probabilities and thresholds are integers out of One, which
\* the divisors of the source divide; a roll is a quarter.

One == 80073000
Milli(n) == n * (One \div 1000)
clamp01(x) == Max({0, Min({One, x})})
amountRatio(n, d) == IF d <= 0 THEN 0 ELSE n * (One \div d)
rankValue(c) == Rank(c) + 2
suited(a, b) == Suit(a) = Suit(b)

preflopStrength(h) ==
    LET high  == Max({rankValue(h[1]), rankValue(h[2])})
        low   == Min({rankValue(h[1]), rankValue(h[2])})
        gap   == high - low
        boost == IF suited(h[1], h[2]) THEN Milli(45) ELSE 0
        ace   == CASE low >= 13 -> Milli(780) [] low = 12 -> Milli(680) [] low = 11 -> Milli(620)
                   [] low = 10 -> Milli(560) [] OTHER -> Milli(320) + low * (One \div 45)
        link  == CASE gap = 1 -> Milli(80) [] gap = 2 -> Milli(40)
                   [] OTHER -> Max({-Milli(160), -gap * Milli(22)})
    IN  clamp01(
        CASE high = low -> Milli(420) + high * (One \div 28)
          [] high = 14 -> ace + boost
          [] high = 13 /\ low >= 10 ->
               boost + Milli(CASE low = 12 -> 660 [] low = 11 -> 590 [] OTHER -> 520)
          [] high = 12 /\ low >= 10 -> boost + Milli(IF low = 11 THEN 570 ELSE 490)
          [] OTHER -> Milli(240) + high * (One \div 62) + low * (One \div 82) + link + boost)

postflopStrength(h, board) ==
    LET live == Live(h, board)
        pool == live \o board
        cat  == bestPokerHand(pool) \div 13^5
        lift == IF \E i \in DOMAIN live : rankValue(live[i]) >= 12 THEN Milli(40) ELSE 0
    IN  IF Len(pool) < 5 THEN preflopStrength(h) ELSE clamp01(((cat * Milli(860)) \div 9) + lift)

\* Four to a flush, or four of some five consecutive ranks (the ace low too).
estimateStrongDraw(h, board) ==
    LET cards == Live(h, board) \o board
        ranks == {rankValue(cards[i]) : i \in DOMAIN cards}
        both  == ranks \cup IF 14 \in ranks THEN {1} ELSE {}
    IN  /\ Len(board) \in {3, 4}
        /\ \/ \E s \in 0..3 : Cardinality({i \in DOMAIN cards : Suit(cards[i]) = s}) >= 4
           \/ \E x \in 1..10 : Cardinality(both \cap x..x + 4) >= 4

Tuning(call, raise, bluff) == [call |-> Milli(call), raise |-> Milli(raise), bluff |-> Milli(bluff)]

\* "adaptive" with its default modifier is "normal".
difficultyStrategyTuning(d) ==
    CASE d = "easy" -> Tuning(50, 80, 80) [] d = "hard" -> Tuning(-35, -35, -35)
      [] OTHER -> Tuning(0, 0, 0)
personaStrategyTuning(p) ==
    CASE p = "aggressive" -> Tuning(-10, -25, -20) [] p = "loose" -> Tuning(-30, -5, -5)
      [] p = "passive" -> Tuning(-5, 35, 40) [] p = "tight" -> Tuning(25, 25, 30)
      [] p = "balanced" -> Tuning(0, 0, 0)
resolveQuantumPokerStrategyTuning(p, d) ==
    LET x == difficultyStrategyTuning(d)
        y == personaStrategyTuning(p)
    IN  [f \in {"call", "raise", "bluff"} |-> x[f] + y[f]]

\* What the cards say: the strength of the hand and whether it is a strong draw.
Reading(h, board) ==
    [strength |-> IF Len(board) < 3 THEN preflopStrength(h) ELSE postflopStrength(h, board),
     draw |-> estimateStrongDraw(h, board)]

estimateStrengthProfile ==
    LET preflop  == Len(st.board) < 3
        river    == Len(st.board) >= 5
        strength == st.reading.strength
    IN  [strength |-> strength, preflop |-> preflop, river |-> river,
         potOdds |-> amountRatio(st.call, st.pot + st.call),
         pressure |-> amountRatio(st.call, st.stack + st.call),
         premium |-> strength >= Milli(IF preflop THEN 840 ELSE IF river THEN 620 ELSE 580),
         draw |-> st.reading.draw]

shouldCall(e, t) ==
    LET r(n) == (Milli(n) \div 4) * st.roll
        threshold ==
          CASE e.river -> e.potOdds + Milli(80) + ((e.pressure \div 100) * 16) + t.call - r(25)
            [] e.preflop -> Milli(380) + e.pressure \div 2 + t.call - r(35)
            [] OTHER -> e.potOdds + Milli(55) + ((e.pressure \div 100) * 8) + t.call - r(25)
    IN  /\ st.call > 0 /\ st.call <= st.stack
        /\ \/ ~e.preflop /\ e.draw /\ e.potOdds <= Milli(IF e.river THEN 0 ELSE 180) - t.call + r(15)
           \/ e.strength >= threshold

shouldBet(e, t) ==
    LET r(n) == (Milli(n) \div 4) * st.roll
    IN  /\ st.stack > 0
        /\ IF e.preflop THEN e.strength >= Milli(720) + t.raise - r(25)
           ELSE \/ e.strength >= Milli(IF e.river THEN 380 ELSE 300) + t.raise - r(20)
                \/ e.draw /\ e.strength >= Milli(480) + t.bluff - r(20)

betAmount(e) ==
    LET pot     == IF st.pot > 0 THEN st.pot ELSE 100
        percent == CASE e.premium -> 90 [] e.strength >= Milli(500) -> 70 [] e.draw -> 45 [] OTHER -> 50
    IN  Min({Max({50, (pot * percent) \div 100}), st.stack})

\* chooseMove in a betting phase, on the seat's turn.
chooseMove(p, d) ==
    LET t == resolveQuantumPokerStrategyTuning(p, d)
        e == estimateStrengthProfile
    IN  IF st.call > 0 THEN [kind |-> IF shouldCall(e, t) THEN "call" ELSE "fold", amount |-> 0]
        ELSE IF shouldBet(e, t) /\ betAmount(e) > 0 THEN [kind |-> "bet", amount |-> betAmount(e)]
        ELSE [kind |-> "check", amount |-> 0]

PersonaInit ==
    /\ own = 0
    /\ \E h \in Holes, board \in Streets :
          st = [holes |-> h, board |-> board, reading |-> Reading(h, board),
                pot |-> 0, call |-> 0, stack |-> 0, roll |-> 0]

\* The bot's turn comes, with some bets on the table.
PersonaNext ==
    /\ \E pot \in Pots, call \in Calls, stack \in Stacks, roll \in {0, 3} :
          st' = [st EXCEPT !.pot = pot, !.call = call, !.stack = stack, !.roll = roll]
    /\ UNCHANGED own

-----------------------------------------------------------------------------
Personas == {"tight", "loose", "aggressive", "passive", "balanced"}
Levels == {"easy", "normal", "hard", "adaptive"}
Plays(p, d, kind) == chooseMove(p, d).kind = kind

\* A persona plays as its name says, on any hand: what a tight bot calls a
\* balanced and a loose one call, what a passive one bets a balanced and an
\* aggressive one bet; and a harder level never gives up what an easier one
\* plays for.
PersonasOrdered ==
    /\ \A d \in Levels :
          /\ Plays("tight", d, "call") => Plays("balanced", d, "call")
          /\ Plays("balanced", d, "call") => Plays("loose", d, "call")
          /\ Plays("passive", d, "bet") => Plays("balanced", d, "bet")
          /\ Plays("balanced", d, "bet") => Plays("aggressive", d, "bet")
    /\ \A p \in Personas, kind \in {"call", "bet"} :
          /\ Plays(p, "easy", kind) => Plays(p, "normal", kind)
          /\ Plays(p, "normal", kind) => Plays(p, "hard", kind)

\* No persona wagers what it does not have, or folds when it may check.
WithinStack ==
    \A p \in Personas, d \in Levels :
       LET m == chooseMove(p, d)
       IN  /\ m.amount \in 0..st.stack
           /\ m.kind = "call" => st.call \in 1..st.stack
           /\ m.kind = "bet" => st.call = 0 /\ m.amount > 0
           /\ m.kind = "fold" => st.call > 0

\* Before the flop a better second card, or a common suit, never makes a hand
\* weaker.
KickersCount ==
    LET high == Max({rankValue(st.holes[1]), rankValue(st.holes[2])}) - 2
        s(low, x) == preflopStrength(<<high, 13 * x + low>>)
    IN  Len(st.board) = 0 =>
          \A low \in 0..high, x \in 0..1 :
             /\ low < high => s(low, x) <= s(low + 1, x)
             /\ low < high => s(low, 1) <= s(low, 0)
=============================================================================
